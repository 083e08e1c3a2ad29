--------------------------- MODULE ProductsProofs ---------------------------
(***************************************************************************)
(* What Products shows for any number of administrators, customers,        *)
(* products and calls under way, and for sheets of any length.             *)
(***************************************************************************)
EXTENDS Products, SequenceTheorems, TLAPS

----------------------------------------------------------------------------
(* The documents.                                                          *)

\* The collections of documents there can be.
Docs == UNION {[D -> ProductModel] : D \in SUBSET Doc}

\* Docs says what TypeOK says of products.
LEMMA DocsType ==
    ASSUME NEW docs
    PROVE  docs \in Docs <=> DOMAIN docs \subseteq Doc /\ docs \in [DOMAIN docs -> ProductModel]
BY DEF Docs

\* A new product is a product.
LEMMA NewProductType ==
    ASSUME NEW n \in Time, NEW v \in Details \cup {Blank}
    PROVE  /\ NewProduct(n, v) \in ProductModel
           /\ NewProduct(n, v).specialUsers = NoSpecial /\ NewProduct(n, v).id = n
BY DEF NewProduct, ProductModel, NoSpecial, Special

\* A document that is stored or replaced.
LEMMA PutType ==
    ASSUME NEW docs \in Docs, NEW d \in Doc, NEW p \in ProductModel
    PROVE  /\ Put(docs, d, p) \in Docs
           /\ DOMAIN Put(docs, d, p) = DOMAIN docs \cup {d}
           /\ Put(docs, d, p)[d] = p
           /\ \A x \in DOMAIN docs : x # d => Put(docs, d, p)[x] = docs[x]
<1>1. DOMAIN docs \subseteq Doc /\ docs \in [DOMAIN docs -> ProductModel]
  BY DocsType
<1>2. DOMAIN Put(docs, d, p) = DOMAIN docs \cup {d}
  BY DEF Put
<1>3. \A x \in DOMAIN docs \cup {d} : Put(docs, d, p)[x] = IF x = d THEN p ELSE docs[x]
  BY DEF Put
<1>4. \A x \in DOMAIN docs \cup {d} : Put(docs, d, p)[x] \in ProductModel
  BY <1>1, <1>3
<1>5. Put(docs, d, p) = [x \in DOMAIN docs \cup {d} |-> Put(docs, d, p)[x]]
  BY DEF Put
<1>6. Put(docs, d, p) \in [DOMAIN docs \cup {d} -> ProductModel]
  BY <1>4, <1>5
<1>7. Put(docs, d, p) \in Docs
  BY <1>1, <1>2, <1>6, DocsType
<1> QED
  BY <1>2, <1>3, <1>7

\* What a call leaves of the documents.
CallEffect(docs, new, c) ==
    /\ new \in Docs
    /\ c.call = "set" => /\ DOMAIN new = DOMAIN docs \cup {DocOf(c.n)}
                         /\ new[DocOf(c.n)].id = c.n
                         /\ \A x \in DOMAIN docs : x # DocOf(c.n) => new[x] = docs[x]
    /\ c.call = "add" =>
          /\ DOMAIN new = DOMAIN docs \cup {[auto |-> TRUE, n |-> c.n]}
          /\ new[[auto |-> TRUE, n |-> c.n]].specialUsers = NoSpecial
          /\ new[[auto |-> TRUE, n |-> c.n]].id = c.n
          /\ \A x \in DOMAIN docs : x # [auto |-> TRUE, n |-> c.n] => new[x] = docs[x]
    /\ c.call = "delete" => /\ DOMAIN new = DOMAIN docs \ {DocOf(c.n)}
                            /\ \A x \in DOMAIN new : new[x] = docs[x]
    /\ c.call = "update" =>
          /\ DOMAIN new = DOMAIN docs
          /\ \A x \in DOMAIN docs : x # DocOf(c.n) => new[x] = docs[x]
          /\ DocOf(c.n) \in DOMAIN docs
                 => new[DocOf(c.n)] = [docs[DocOf(c.n)] EXCEPT !.details = c.details]
    /\ c.call \in {"price", "dismiss"} =>
          /\ DOMAIN new = DOMAIN docs
          /\ \A x \in DOMAIN docs : x # DocOf(c.n) => new[x] = docs[x]
          /\ DocOf(c.n) \in DOMAIN docs
                 => new[DocOf(c.n)] =
                       [docs[DocOf(c.n)] EXCEPT !.specialUsers[c.customer] = c.price]
    /\ c.call = "get" => new = docs

\* The names of documents.
LEMMA DocNames ==
    ASSUME NEW n \in Time
    PROVE  /\ DocOf(n) \in Doc /\ [auto |-> TRUE, n |-> n] \in Doc
           /\ DocOf(n).auto = FALSE /\ DocOf(n).n = n
BY DEF DocOf, Doc

\* The parts of a call.
LEMMA CallParts ==
    ASSUME NEW c \in Call
    PROVE  /\ c.n \in Time /\ c.mounted \in SUBSET Parts
           /\ c.call \in {"set", "update", "price", "dismiss", "get", "delete", "add"}
           /\ c.call \in {"set", "update"} => c.details \in Details
           /\ c.call \in {"price", "dismiss"} => /\ c.customer \in Customers
                                                 /\ c.price \in Prices \cup {NoPrice}
BY DEF Call

\* After, case by case.
LEMMA AfterEffect ==
    ASSUME NEW docs \in Docs, NEW c \in Call
    PROVE  CallEffect(docs, After(docs, c), c)
<1>1. DOMAIN docs \subseteq Doc /\ docs \in [DOMAIN docs -> ProductModel]
  BY DocsType
<1>2. /\ c.n \in Time
      /\ c.call \in {"set", "update", "price", "dismiss", "get", "delete", "add"}
      /\ c.call \in {"set", "update"} => c.details \in Details
      /\ c.call \in {"price", "dismiss"} => /\ c.customer \in Customers
                                            /\ c.price \in Prices \cup {NoPrice}
  BY CallParts
<1>3. DocOf(c.n) \in Doc /\ [auto |-> TRUE, n |-> c.n] \in Doc
  BY <1>2, DocNames
<1>4. CASE c.call = "set"
  <2>1. NewProduct(c.n, c.details) \in ProductModel /\ NewProduct(c.n, c.details).id = c.n
    BY <1>2, <1>4, NewProductType
  <2>2. After(docs, c) = Put(docs, DocOf(c.n), NewProduct(c.n, c.details))
    BY <1>4 DEF After
  <2>3. /\ After(docs, c) \in Docs
        /\ DOMAIN After(docs, c) = DOMAIN docs \cup {DocOf(c.n)}
        /\ After(docs, c)[DocOf(c.n)].id = c.n
        /\ \A x \in DOMAIN docs : x # DocOf(c.n) => After(docs, c)[x] = docs[x]
    <3> DEFINE d == DocOf(c.n)
               p == NewProduct(c.n, c.details)
    <3>1. d \in Doc /\ p \in ProductModel /\ p.id = c.n /\ After(docs, c) = Put(docs, d, p)
      BY <1>3, <2>1, <2>2
    <3> HIDE DEF d, p
    <3>2. /\ Put(docs, d, p) \in Docs /\ DOMAIN Put(docs, d, p) = DOMAIN docs \cup {d}
          /\ Put(docs, d, p)[d] = p
          /\ \A x \in DOMAIN docs : x # d => Put(docs, d, p)[x] = docs[x]
      BY <3>1, PutType
    <3> QED
      BY <3>1, <3>2 DEF d
  <2> QED
    BY <1>4, <2>3 DEF CallEffect
<1>5. CASE c.call = "add"
  <2>1. /\ NewProduct(c.n, Blank) \in ProductModel
        /\ NewProduct(c.n, Blank).specialUsers = NoSpecial /\ NewProduct(c.n, Blank).id = c.n
    BY <1>2, NewProductType
  <2>2. After(docs, c) = Put(docs, [auto |-> TRUE, n |-> c.n], NewProduct(c.n, Blank))
    BY <1>5 DEF After
  <2> DEFINE d == [auto |-> TRUE, n |-> c.n]
             p == NewProduct(c.n, Blank)
  <2>3. /\ d \in Doc /\ p \in ProductModel /\ p.specialUsers = NoSpecial /\ p.id = c.n
        /\ After(docs, c) = Put(docs, d, p)
    BY <1>3, <2>1, <2>2
  <2> HIDE DEF d, p
  <2>4. /\ After(docs, c) \in Docs
        /\ DOMAIN After(docs, c) = DOMAIN docs \cup {d}
        /\ After(docs, c)[d].specialUsers = NoSpecial /\ After(docs, c)[d].id = c.n
        /\ \A x \in DOMAIN docs : x # d => After(docs, c)[x] = docs[x]
    <3>1. /\ Put(docs, d, p) \in Docs /\ DOMAIN Put(docs, d, p) = DOMAIN docs \cup {d}
          /\ Put(docs, d, p)[d] = p
          /\ \A x \in DOMAIN docs : x # d => Put(docs, d, p)[x] = docs[x]
      BY <2>3, PutType
    <3> QED
      BY <2>3, <3>1
  <2> QED
    BY <1>5, <2>4 DEF CallEffect, d
<1>6. CASE c.call = "delete"
  <2> DEFINE D == DOMAIN docs \ {DocOf(c.n)}
             new == [x \in D |-> docs[x]]
  <2>1. After(docs, c) = new
    BY <1>6 DEF After, Restrict
  <2>2. DOMAIN new = D /\ new \in [D -> ProductModel] /\ D \subseteq Doc
    BY <1>1
  <2>3. new \in Docs
    BY <2>2, DocsType
  <2> QED
    BY <1>6, <2>1, <2>2, <2>3 DEF CallEffect
<1>7. CASE c.call = "get"
  <2>1. After(docs, c) = docs
    BY <1>7 DEF After
  <2> QED
    BY <1>7, <2>1 DEF CallEffect
<1>8. CASE c.call \in {"update", "price", "dismiss"} /\ DocOf(c.n) \notin DOMAIN docs
  <2>1. After(docs, c) = docs
    BY <1>8 DEF After
  <2> QED
    BY <1>8, <2>1 DEF CallEffect
<1>9. CASE c.call = "update" /\ DocOf(c.n) \in DOMAIN docs
  <2> DEFINE d == DocOf(c.n)
             p == [docs[d] EXCEPT !.details = c.details]
             new == [docs EXCEPT ![d] = p]
  <2>1. After(docs, c) = new
    BY <1>9 DEF After
  <2>2. p \in ProductModel
    BY <1>1, <1>2, <1>9 DEF ProductModel
  <2> HIDE DEF p
  <2>3. /\ DOMAIN new = DOMAIN docs /\ new \in [DOMAIN docs -> ProductModel] /\ new[d] = p
        /\ \A x \in DOMAIN docs : x # d => new[x] = docs[x]
    BY <1>1, <1>9, <2>2
  <2> HIDE DEF new
  <2>4. new \in Docs
    BY <1>1, <2>3, DocsType
  <2> QED
    BY <1>9, <2>1, <2>3, <2>4 DEF CallEffect, p
<1>10. CASE c.call \in {"price", "dismiss"} /\ DocOf(c.n) \in DOMAIN docs
  <2> DEFINE d == DocOf(c.n)
             p == [docs[d] EXCEPT !.specialUsers[c.customer] = c.price]
             new == [docs EXCEPT ![d] = p]
  <2>1. After(docs, c) = new
    BY <1>10 DEF After
  <2>2. p \in ProductModel
    BY <1>1, <1>2, <1>10 DEF ProductModel, Special
  <2> HIDE DEF p
  <2>3. /\ DOMAIN new = DOMAIN docs /\ new \in [DOMAIN docs -> ProductModel] /\ new[d] = p
        /\ \A x \in DOMAIN docs : x # d => new[x] = docs[x]
    BY <1>1, <1>10, <2>2
  <2> HIDE DEF new
  <2>4. new \in Docs
    BY <1>1, <2>3, DocsType
  <2> QED
    BY <1>10, <2>1, <2>3, <2>4 DEF CallEffect, p
<1> QED
  BY <1>2, <1>4, <1>5, <1>6, <1>7, <1>8, <1>9, <1>10

\* The folds of the model.
Applying == INSTANCE Induction WITH Op <- LAMBDA p, docs, c : After(docs, c)
Keeping == INSTANCE Induction WITH Op <- LAMBDA p, q, c : Keep(q, c)

\* An editor sees documents.
LEMMA ViewType ==
    ASSUME TypeOK, NEW e \in Editors
    PROVE  View(e) \in Docs
<1>1. calls[e] \in Seq(Call) /\ products \in Docs
  BY DocsType DEF TypeOK
<1> DEFINE q == calls[e]
           n == Len(q)
<1>2. n \in Nat /\ DOMAIN q = 1 .. n /\ \A i \in 1 .. n : q[i] \in Call
  BY <1>1
<1>3. View(e) = Applying!Folded(n, 0, products, q)
  BY <1>2 DEF View, FoldLeft, MapThenFoldSet, Applying!Folded, Applying!Max, Max
<1> HIDE DEF q, n
<1>4. \A i \in 1 .. n : \A x \in Docs : After(x, q[i]) \in Docs
  BY <1>2, AfterEffect DEF CallEffect
<1>5. Applying!Folded(n, 0, products, q) \in Docs
  BY <1>1, <1>2, <1>4, Applying!FoldedIn
<1> QED
  BY <1>3, <1>5

----------------------------------------------------------------------------
(* The calls of a device.                                                  *)

\* c1 is the call c after parts of what made it are gone; a dialog may be on its
\* way out.
Same(c1, c, parts) ==
    /\ c1.call = c.call /\ c1.n = c.n
    /\ \A p \in {"dialog", "page", "app"} :
          p \in c1.mounted <=> p \in c.mounted /\ p \notin parts
    /\ c.call \in {"set", "update"} => c1.details = c.details
    /\ c.call \in {"price", "dismiss"} => c1.customer = c.customer /\ c1.price = c.price

\* r holds the calls of q from place k on, without parts of what made them.
Rest(r, q, k, parts) ==
    /\ r \in Seq(Call) /\ Len(r) = Len(q) - k + 1
    /\ \A i \in 1 .. Len(r) : Same(r[i], q[i + k - 1], parts)

\* r holds some of the calls of q from place k on, each once.
Thinned(r, q, k, parts) ==
    /\ r \in Seq(Call)
    /\ \E m \in [1 .. Len(r) -> k .. Len(q)] :
          /\ \A i, j \in 1 .. Len(r) : m[i] = m[j] => i = j
          /\ \A i \in 1 .. Len(r) : Same(r[i], q[m[i]], parts)

\* A call stays a call when parts of what made it are gone.
LEMMA SameUnmounted ==
    ASSUME NEW c \in Call, NEW parts
    PROVE  /\ [c EXCEPT !.mounted = @ \ parts] \in Call
           /\ Same([c EXCEPT !.mounted = @ \ parts], c, parts)
BY DEF Call, Same

\* All the calls, without parts of what made them.
LEMMA UnmountRest ==
    ASSUME NEW q \in Seq(Call), NEW parts
    PROVE  Rest(Unmount(q, parts), q, 1, parts)
<1> DEFINE r == Unmount(q, parts)
<1>1. Len(q) \in Nat /\ DOMAIN q = 1 .. Len(q) /\ \A i \in 1 .. Len(q) : q[i] \in Call
  OBVIOUS
<1>2. r = [i \in 1 .. Len(q) |-> [q[i] EXCEPT !.mounted = @ \ parts]]
  BY <1>1 DEF Unmount
<1>3. ASSUME NEW i \in 1 .. Len(q) PROVE r[i] \in Call /\ Same(r[i], q[i], parts)
  <2>1. q[i] \in Call /\ r[i] = [q[i] EXCEPT !.mounted = @ \ parts]
    BY <1>1, <1>2
  <2> QED
    BY <2>1, SameUnmounted
<1>4. r = [i \in 1 .. Len(q) |-> r[i]]
  BY <1>2
<1> HIDE DEF r
<1>5. r \in Seq(Call) /\ Len(r) = Len(q)
  BY <1>1, <1>3, <1>4
<1>6. \A i \in 1 .. Len(q) : i + 1 - 1 = i
  BY <1>1
<1> QED
  BY <1>1, <1>3, <1>5, <1>6 DEF Rest, r

\* The calls after the first.
LEMMA TailRest ==
    ASSUME NEW q \in Seq(Call), q # <<>>
    PROVE  Rest(Tail(q), q, 2, {}) /\ Tail(q) \in Seq(Call)
BY DEF Rest, Same

\* All calls of a device whose dialog is closed.
LEMMA ClosingRest ==
    ASSUME NEW q \in Seq(Call)
    PROVE  Rest(Closing(q), q, 1, {"dialog"})
<1> DEFINE r == Closing(q)
           On(c) == (c.mounted \ {"dialog", "leaving"})
                    \cup (IF "dialog" \in c.mounted THEN {"leaving"} ELSE {})
<1>1. Len(q) \in Nat /\ DOMAIN q = 1 .. Len(q) /\ \A i \in 1 .. Len(q) : q[i] \in Call
  OBVIOUS
<1>2. r = [i \in 1 .. Len(q) |-> [q[i] EXCEPT !.mounted = On(q[i])]]
  BY <1>1 DEF Closing
<1>3. ASSUME NEW i \in 1 .. Len(q) PROVE r[i] \in Call /\ Same(r[i], q[i], {"dialog"})
  <2> DEFINE c == q[i]
             on == On(c)
  <2>1. c \in Call /\ r[i] = [c EXCEPT !.mounted = on]
    BY <1>1, <1>2
  <2>2. c.mounted \in SUBSET Parts
    BY <2>1, CallParts
  <2>3. /\ on \in SUBSET Parts
        /\ "dialog" \notin on
        /\ \A p \in {"page", "app"} : p \in on <=> p \in c.mounted
    BY <2>2 DEF Parts
  <2> HIDE DEF c, on
  <2>4. [c EXCEPT !.mounted = on] \in Call
    BY <2>1, <2>3 DEF Call
  <2>5. Same([c EXCEPT !.mounted = on], c, {"dialog"})
    BY <2>1, <2>3 DEF Call, Same
  <2> QED
    BY <2>1, <2>4, <2>5 DEF c
<1>4. r = [i \in 1 .. Len(q) |-> r[i]]
  BY <1>2
<1> HIDE DEF r
<1>5. r \in Seq(Call) /\ Len(r) = Len(q)
  BY <1>1, <1>3, <1>4
<1>6. \A i \in 1 .. Len(q) : i + 1 - 1 = i
  BY <1>1
<1> QED
  BY <1>1, <1>3, <1>5, <1>6 DEF Rest, r

\* What is left of the calls after the first.
LEMMA RestOfTail ==
    ASSUME NEW q \in Seq(Call), q # <<>>, NEW parts, NEW r, Rest(r, Tail(q), 1, parts)
    PROVE  Rest(r, q, 2, parts)
<1> DEFINE t == Tail(q)
<1>1. t \in Seq(Call) /\ Len(t) = Len(q) - 1 /\ Len(q) \in Nat
      /\ \A i \in 1 .. Len(t) : t[i] = q[i + 1]
  OBVIOUS
<1>2. Rest(r, t, 1, parts)
  OBVIOUS
<1> HIDE DEF t
<1>3. /\ r \in Seq(Call) /\ Len(r) = Len(t) - 1 + 1
      /\ \A i \in 1 .. Len(r) : Same(r[i], t[i + 1 - 1], parts)
  BY <1>2 DEF Rest
<1>4. Len(r) = Len(q) - 2 + 1 /\ Len(r) = Len(t) /\ Len(t) \in Nat
  BY <1>1, <1>3
<1>5. \A i \in 1 .. Len(r) : t[i + 1 - 1] = q[i + 2 - 1]
  BY <1>1, <1>4
<1>6. \A i \in 1 .. Len(r) : Same(r[i], q[i + 2 - 1], parts)
  BY <1>3, <1>5
<1> QED
  BY <1>3, <1>4, <1>6 DEF Rest

\* What is left of calls after one more was made is what is left of them, and of it.
LEMMA RestOfAppend ==
    ASSUME NEW q \in Seq(Call), NEW g \in Call, NEW parts, NEW r,
           Rest(r, Append(q, g), 1, parts)
    PROVE  \E t \in Seq(Call), h \in Call :
               r = Append(t, h) /\ Rest(t, q, 1, parts) /\ Same(h, g, parts)
<1> DEFINE s == Append(q, g)
           n == Len(q)
<1>1. /\ n \in Nat /\ Len(s) = n + 1 /\ s[n + 1] = g /\ \A i \in 1 .. n : s[i] = q[i]
  OBVIOUS
<1>2. Rest(r, s, 1, parts)
  OBVIOUS
<1> HIDE DEF s
<1>3. /\ r \in Seq(Call) /\ Len(r) = n + 1
      /\ \A i \in 1 .. n + 1 : Same(r[i], s[i], parts)
  BY <1>1, <1>2 DEF Rest
<1>4. r # <<>>
  BY <1>1, <1>3
<1>5. PICK t \in Seq(Call), h \in Call : r = Append(t, h)
  BY <1>3, <1>4, SequenceEmptyOrAppend
<1>6. /\ Len(r) = Len(t) + 1 /\ r[Len(t) + 1] = h /\ \A i \in 1 .. Len(t) : r[i] = t[i]
      /\ Len(t) \in Nat
  BY <1>5
<1>7. Len(t) = n
  BY <1>1, <1>3, <1>6
<1>8. /\ Same(h, g, parts)
      /\ \A i \in 1 .. n : Same(t[i], q[i], parts)
  BY <1>1, <1>3, <1>6, <1>7
<1>9. Len(t) = Len(q) - 1 + 1 /\ \A i \in 1 .. Len(t) : i + 1 - 1 = i
  BY <1>1, <1>6, <1>7
<1>10. Rest(t, q, 1, parts)
  BY <1>5, <1>7, <1>8, <1>9 DEF Rest
<1> QED
  BY <1>5, <1>8, <1>10

\* Calls that are all there are some of them.
LEMMA RestThinned ==
    ASSUME NEW q \in Seq(Call), NEW r, NEW parts, NEW k \in {1, 2}, Rest(r, q, k, parts)
    PROVE  Thinned(r, q, k, parts)
<1>1. /\ r \in Seq(Call) /\ Len(r) = Len(q) - k + 1
      /\ \A i \in 1 .. Len(r) : Same(r[i], q[i + k - 1], parts)
  BY DEF Rest
<1> DEFINE m == [i \in 1 .. Len(r) |-> i + k - 1]
<1>2. Len(r) \in Nat /\ Len(q) \in Nat /\ k \in Nat
  BY <1>1
<1>3. m \in [1 .. Len(r) -> k .. Len(q)]
  BY <1>1, <1>2
<1>4. \A i, j \in 1 .. Len(r) : m[i] = m[j] => i = j
  BY <1>2
<1>5. \A i \in 1 .. Len(r) : Same(r[i], q[m[i]], parts)
  BY <1>1
<1> HIDE DEF m
<1> QED
  BY <1>1, <1>3, <1>4, <1>5 DEF Thinned

\* No calls are some of them.
LEMMA NoneThinned ==
    ASSUME NEW q \in Seq(Call), NEW parts
    PROVE  Thinned(<<>>, q, 1, parts)
<1> DEFINE m == [i \in 1 .. 0 |-> 1]
           r == <<>>
<1>1. m \in [1 .. 0 -> 1 .. Len(q)] /\ r \in Seq(Call) /\ Len(r) = 0
  OBVIOUS
<1>2. \A i \in 1 .. 0 : FALSE
  OBVIOUS
<1> HIDE DEF m, r
<1>3. Thinned(r, q, 1, parts)
  BY <1>1, <1>2 DEF Thinned
<1> QED
  BY <1>3 DEF r

\* x holds some of the first i calls of q, namely those at the places m.
Picks(x, q, i, m) ==
    /\ m \in [1 .. Len(x) -> 1 .. i]
    /\ \A a, b \in 1 .. Len(x) : m[a] = m[b] => a = b
    /\ \A a \in 1 .. Len(x) : x[a] = q[m[a]]

Picked(x, q, i) == x \in Seq(Call) /\ \E m : Picks(x, q, i, m)

\* One more call is kept.
LEMMA KeepPicked ==
    ASSUME NEW q \in Seq(Call), NEW i \in 1 .. Len(q), NEW x, Picked(x, q, i - 1)
    PROVE  Picked(Keep(x, q[i]), q, i)
<1>1. x \in Seq(Call) /\ i \in Nat /\ Len(x) \in Nat /\ q[i] \in Call
  BY DEF Picked
<1>2. PICK m : Picks(x, q, i - 1, m)
  BY DEF Picked
<1>3. /\ m \in [1 .. Len(x) -> 1 .. i - 1]
      /\ \A a, b \in 1 .. Len(x) : m[a] = m[b] => a = b
      /\ \A a \in 1 .. Len(x) : x[a] = q[m[a]]
  BY <1>2 DEF Picks
<1>4. CASE q[i].call = "get"
  <2>1. Keep(x, q[i]) = x
    BY <1>4 DEF Keep
  <2>2. m \in [1 .. Len(x) -> 1 .. i]
    BY <1>1, <1>3
  <2>3. Picks(x, q, i, m)
    BY <1>3, <2>2 DEF Picks
  <2> QED
    BY <1>1, <2>1, <2>3 DEF Picked
<1>5. CASE q[i].call # "get"
  <2> DEFINE y == Append(x, q[i])
             n == Len(x)
             l == [a \in 1 .. n + 1 |-> IF a = n + 1 THEN i ELSE m[a]]
  <2>1. Keep(x, q[i]) = y
    BY <1>5 DEF Keep
  <2>2. /\ y \in Seq(Call) /\ Len(y) = n + 1 /\ y[n + 1] = q[i]
        /\ \A a \in 1 .. n : y[a] = x[a]
    BY <1>1
  <2>3. l[n + 1] = i /\ \A a \in 1 .. n : l[a] = m[a]
    BY <1>1
  <2>4. l \in [1 .. n + 1 -> 1 .. i]
    BY <1>1, <1>3
  <2> HIDE DEF l, y
  <2>5. \A a \in 1 .. n : m[a] # i
    BY <1>1, <1>3
  <2>6. \A a \in 1 .. n + 1 : a = n + 1 \/ a \in 1 .. n
    BY <1>1
  <2>7. \A a, b \in 1 .. n + 1 : l[a] = l[b] => a = b
    BY <1>3, <2>3, <2>5, <2>6
  <2>8. \A a \in 1 .. n + 1 : y[a] = q[l[a]]
    BY <1>3, <2>2, <2>3, <2>6
  <2>9. Picks(y, q, i, l)
    BY <2>2, <2>4, <2>7, <2>8 DEF Picks
  <2> QED
    BY <2>1, <2>2, <2>9 DEF Picked
<1> QED
  BY <1>4, <1>5

\* What is kept over a restart is some of the calls.
LEMMA KeptPicked ==
    ASSUME NEW q \in Seq(Call)
    PROVE  Picked(FoldLeft(Keep, <<>>, q), q, Len(q))
<1> DEFINE n == Len(q)
           Some(i) == {x \in Seq(Call) : Picked(x, q, i)}
           S == [i \in 0 .. n |-> Some(i)]
           kept == FoldLeft(Keep, <<>>, q)
<1>1. n \in Nat /\ DOMAIN q = 1 .. n
  OBVIOUS
<1>2. kept = Keeping!Folded(n, 0, <<>>, q)
  BY <1>1 DEF FoldLeft, MapThenFoldSet, Keeping!Folded, Keeping!Max, Max
<1>3. <<>> \in Some(0)
  <2> DEFINE m == [i \in 1 .. 0 |-> 1]
             x == <<>>
  <2>1. m \in [1 .. 0 -> 1 .. 0] /\ x \in Seq(Call) /\ Len(x) = 0 /\ \A i \in 1 .. 0 : FALSE
    OBVIOUS
  <2> HIDE DEF m, x
  <2>2. Picks(x, q, 0, m)
    BY <2>1 DEF Picks
  <2>3. Picked(x, q, 0)
    BY <2>1, <2>2 DEF Picked
  <2> QED
    BY <2>1, <2>3 DEF x
<1>4. ASSUME NEW i \in 1 .. n, NEW x \in Some(i - 1) PROVE Keep(x, q[i]) \in Some(i)
  <2>1. Picked(Keep(x, q[i]), q, i)
    BY KeepPicked
  <2> QED
    BY <2>1 DEF Picked
<1> HIDE DEF Some
<1>5. S[0] = Some(0) /\ S[n] = Some(n) /\ \A i \in 1 .. n : S[i - 1] = Some(i - 1) /\ S[i] = Some(i)
  BY <1>1
<1> HIDE DEF S, kept, n
<1>6. <<>> \in S[0] /\ \A i \in 1 .. n : \A x \in S[i - 1] : Keep(x, q[i]) \in S[i]
  BY <1>3, <1>4, <1>5
<1>7. Keeping!Folded(n, 0, <<>>, q) \in S[n]
  BY <1>1, <1>6, Keeping!FoldedThrough
<1>8. kept \in Some(n)
  BY <1>2, <1>5, <1>7
<1> QED
  BY <1>8 DEF Some, kept, n

\* Nothing is there any more of what made them.
LEMMA KeptThinned ==
    ASSUME NEW q \in Seq(Call)
    PROVE  Thinned(Unmount(FoldLeft(Keep, <<>>, q), Parts), q, 1, Parts)
<1> DEFINE n == Len(q)
           kept == FoldLeft(Keep, <<>>, q)
<1>8. Picked(kept, q, n)
  BY KeptPicked
<1> HIDE DEF kept, n
<1>9. /\ kept \in Seq(Call)
      /\ \E m \in [1 .. Len(kept) -> 1 .. n] :
            /\ \A a, b \in 1 .. Len(kept) : m[a] = m[b] => a = b
            /\ \A a \in 1 .. Len(kept) : kept[a] = q[m[a]]
  BY <1>8 DEF Picked, Picks
<1> DEFINE r == Unmount(kept, Parts)
<1>10. Rest(r, kept, 1, Parts)
  BY <1>9, UnmountRest
<1>11. /\ r \in Seq(Call) /\ Len(r) = Len(kept) /\ \A i \in 1 .. Len(r) : Same(r[i], kept[i], Parts)
  <2>1. Len(kept) \in Nat
    BY <1>9
  <2>2. \A i \in Nat : i + 1 - 1 = i /\ i - 1 + 1 = i
    OBVIOUS
  <2>3. Len(r) = Len(kept)
    BY <1>10, <2>1, <2>2 DEF Rest
  <2> QED
    BY <1>10, <2>1, <2>2, <2>3 DEF Rest
<1> HIDE DEF r
<1>12. Thinned(r, q, 1, Parts)
  BY <1>9, <1>11 DEF Thinned, n
<1> QED
  BY <1>12 DEF r, kept

----------------------------------------------------------------------------
(* What page, dialog, import and calls of one device have to do with each  *)
(* other.                                                                  *)

\* A row whose answer the import awaits.
Importing(c) == c.call = "add" /\ "app" \in c.mounted

\* The call c can have been made by the dialog dlg.
Fits(c, dlg) ==
    /\ dlg # NoDialog
    /\ c.call = CASE dlg.kind = "new" -> "set"
                  [] dlg.kind = "update" -> "update"
                  [] OTHER -> "price"
    /\ c.call = "price" => c.customer = dlg.customer

\* Dialogs for a product lie on its page; what a call belongs to is there: the
\* page, the import, of which there is one, the dialog it was made from.
Attached(pg, dlg, rs, q) ==
    /\ dlg # NoDialog /\ dlg.kind \in {"update", "price"} => pg # List
    /\ \A i \in 1 .. Len(q) : "page" \in q[i].mounted => pg # List
    /\ \A i \in 1 .. Len(q) : Importing(q[i]) => rs # <<>>
    /\ \A i, j \in 1 .. Len(q) : Importing(q[i]) /\ Importing(q[j]) => i = j
    /\ \A i \in 1 .. Len(q) : "dialog" \in q[i].mounted => Fits(q[i], dlg)

\* A dialog that shows it is loading awaits a call, unless its code threw.
Awaiting(dlg, q) ==
    dlg # NoDialog /\ dlg.loading
        => dlg.stuck \/ \E i \in 1 .. Len(q) : "dialog" \in q[i].mounted

DeviceInv ==
    \A e \in Editors : /\ Attached(page[e], dialog[e], rows[e], calls[e])
                       /\ Awaiting(dialog[e], calls[e])

\* The dialog d1 is d, except perhaps for its fields and flags.
Alike(d1, d) ==
    d # NoDialog => /\ d1 # NoDialog /\ d1.kind = d.kind
                    /\ d.kind \notin {"new", "update"} => d1.customer = d.customer

\* Some calls fewer, with parts of what made them gone.
LEMMA AttachedThinned ==
    ASSUME NEW q \in Seq(Call), NEW r, NEW k \in {1, 2}, NEW parts, Thinned(r, q, k, parts),
           NEW pg, NEW dlg, NEW rs, Attached(pg, dlg, rs, q),
           NEW pg1, NEW dlg1, NEW rs1,
           dlg1 # NoDialog /\ dlg1.kind \in {"update", "price"} => pg1 # List,
           pg1 # List \/ pg = List \/ "page" \in parts,
           "dialog" \in parts \/ Alike(dlg1, dlg),
           rs1 # <<>> \/ rs = <<>> \/ "app" \in parts \/ (k = 2 /\ Importing(q[1]))
    PROVE  Attached(pg1, dlg1, rs1, r)
<1>1. PICK m \in [1 .. Len(r) -> k .. Len(q)] :
          /\ \A i, j \in 1 .. Len(r) : m[i] = m[j] => i = j
          /\ \A i \in 1 .. Len(r) : Same(r[i], q[m[i]], parts)
  BY DEF Thinned
<1>2. \A i \in 1 .. Len(r) : m[i] \in 1 .. Len(q) /\ (k = 2 => m[i] # 1)
  BY <1>1
<1>3. \A i \in 1 .. Len(r) : "page" \in r[i].mounted => pg1 # List
  BY <1>1, <1>2 DEF Same, Attached
<1>4. ASSUME NEW i \in 1 .. Len(r), Importing(r[i])
      PROVE  Importing(q[m[i]]) /\ "app" \notin parts
  BY <1>1, <1>4 DEF Same, Importing
<1>5. ASSUME NEW i \in 1 .. Len(r), Importing(r[i]) PROVE rs1 # <<>>
  <2>1. Importing(q[m[i]]) /\ "app" \notin parts /\ m[i] \in 1 .. Len(q) /\ (k = 2 => m[i] # 1)
    BY <1>2, <1>4, <1>5
  <2>2. rs # <<>>
    BY <2>1 DEF Attached
  <2>3. ~(k = 2 /\ Importing(q[1]))
    <3> SUFFICES ASSUME k = 2, Importing(q[1]) PROVE FALSE
      OBVIOUS
    <3>1. 1 \in 1 .. Len(q)
      BY <2>1
    <3> QED
      BY <2>1, <3>1 DEF Attached
  <2> QED
    BY <2>1, <2>2, <2>3
<1>6. \A i, j \in 1 .. Len(r) : Importing(r[i]) /\ Importing(r[j]) => i = j
  <2> SUFFICES ASSUME NEW i \in 1 .. Len(r), NEW j \in 1 .. Len(r),
                      Importing(r[i]), Importing(r[j])
               PROVE  i = j
    OBVIOUS
  <2>1. m[i] = m[j]
    BY <1>2, <1>4 DEF Attached
  <2> QED
    BY <1>1, <2>1
<1>7. ASSUME NEW i \in 1 .. Len(r), "dialog" \in r[i].mounted PROVE Fits(r[i], dlg1)
  <2>1. "dialog" \in q[m[i]].mounted /\ "dialog" \notin parts /\ Same(r[i], q[m[i]], parts)
    BY <1>1, <1>7 DEF Same
  <2>2. Fits(q[m[i]], dlg) /\ Alike(dlg1, dlg)
    BY <1>2, <2>1 DEF Attached
  <2> QED
    BY <2>1, <2>2 DEF Fits, Alike, Same
<1> QED
  BY <1>3, <1>5, <1>6, <1>7 DEF Attached

\* One call more.
LEMMA AttachedAppend ==
    ASSUME NEW r \in Seq(Call), NEW c \in Call, NEW pg, NEW dlg, NEW rs,
           Attached(pg, dlg, rs, r),
           "page" \in c.mounted => pg # List,
           Importing(c) => rs # <<>> /\ \A i \in 1 .. Len(r) : ~Importing(r[i]),
           "dialog" \in c.mounted => Fits(c, dlg)
    PROVE  Attached(pg, dlg, rs, Append(r, c))
<1> DEFINE s == Append(r, c)
           n == Len(r)
<1>1. /\ n \in Nat /\ Len(s) = n + 1 /\ s[n + 1] = c /\ \A i \in 1 .. n : s[i] = r[i]
      /\ \A i \in 1 .. n + 1 : i \in 1 .. n \/ i = n + 1
  OBVIOUS
<1> HIDE DEF s
<1>2. \A i \in 1 .. n + 1 : /\ "page" \in s[i].mounted => pg # List
                            /\ Importing(s[i]) => rs # <<>>
                            /\ "dialog" \in s[i].mounted => Fits(s[i], dlg)
  BY <1>1 DEF Attached
<1>3. \A i, j \in 1 .. n + 1 : Importing(s[i]) /\ Importing(s[j]) => i = j
  BY <1>1 DEF Attached
<1>4. Attached(pg, dlg, rs, s)
  BY <1>1, <1>2, <1>3 DEF Attached
<1> QED
  BY <1>4 DEF s

\* Whoever awaits a call still awaits it when others are answered.
LEMMA AwaitingRest ==
    ASSUME NEW q \in Seq(Call), NEW r, NEW k \in {1, 2}, NEW parts, Rest(r, q, k, parts),
           "dialog" \notin parts, NEW dlg, Awaiting(dlg, q),
           k = 2 => q # <<>> /\ "dialog" \notin q[1].mounted
    PROVE  Awaiting(dlg, r)
<1> SUFFICES ASSUME dlg # NoDialog, dlg.loading, ~dlg.stuck
             PROVE  \E i \in 1 .. Len(r) : "dialog" \in r[i].mounted
  BY DEF Awaiting
<1>1. PICK j \in 1 .. Len(q) : "dialog" \in q[j].mounted
  BY DEF Awaiting
<1>2. /\ Len(r) = Len(q) - k + 1 /\ Len(q) \in Nat /\ j >= k
      /\ \A i \in 1 .. Len(r) : Same(r[i], q[i + k - 1], parts)
  BY <1>1 DEF Rest
<1> DEFINE i == j - k + 1
<1>3. i \in 1 .. Len(r) /\ i + k - 1 = j
  BY <1>2
<1> HIDE DEF i
<1>4. Same(r[i], q[j], parts)
  BY <1>2, <1>3
<1>5. "dialog" \in r[i].mounted
  BY <1>1, <1>4 DEF Same
<1> QED
  BY <1>3, <1>5

----------------------------------------------------------------------------
(* The steps of a device.                                                  *)

\* The documents change by the first call of the device alone, which stays in its
\* queue only if its answer is lost.
Served(e, k) ==
    /\ toasts' \subseteq Time
    /\ \/ UNCHANGED <<products, gone, inDoubt>>
       \/ /\ calls[e] # <<>> /\ k = 2 /\ Effect(Head(calls[e])) /\ UNCHANGED inDoubt
       \/ /\ calls[e] # <<>> /\ k = 1 /\ calls' = calls /\ rows' = rows /\ clock' = clock
          /\ Effect(Head(calls[e]))
          /\ inDoubt' = IF Head(calls[e]).call = "set"
                        THEN inDoubt \cup {DocOf(Head(calls[e]).n)} ELSE inDoubt

\* The rows of an import are there before or get readings of the clock of their own.
RowsFrom(e) ==
    /\ clock' \in 0 .. MaxTime /\ clock <= clock'
    /\ \A i \in 1 .. Len(rows'[e]) :
          \/ \E j \in 1 .. Len(rows[e]) : rows'[e][i] = rows[e][j]
          \/ clock < rows'[e][i] /\ rows'[e][i] <= clock'

\* A new product gets a reading of the clock of its own, a row is one of the sheet.
NewCall(e, c) ==
    /\ c \in Call
    /\ c.call = "set" => c.n = clock + 1 /\ clock' = clock + 1 /\ rows' = rows
    /\ c.call = "add" => \E i \in 1 .. Len(rows'[e]) : rows'[e][i] = c.n

\* What a step of device e does with the calls, the rows and the documents.
Traced(e, r, k, parts) ==
    /\ Thinned(r, calls[e], k, parts)
    /\ \/ calls' = [calls EXCEPT ![e] = r]
       \/ \E c \in Call : calls' = [calls EXCEPT ![e] = Append(r, c)] /\ NewCall(e, c)
    /\ Served(e, k) /\ RowsFrom(e)
    /\ \A f \in Editors : f # e => rows'[f] = rows[f]

Step(e) == \E r, k, parts : k \in {1, 2} /\ Traced(e, r, k, parts)

\* What a device has before a step.
LEMMA Here ==
    ASSUME TypeOK, DeviceInv, NEW e \in Editors
    PROVE  /\ page[e] \in Page /\ page = [page EXCEPT ![e] = page[e]]
           /\ dialog[e] \in Dialog /\ dialog = [dialog EXCEPT ![e] = dialog[e]]
           /\ rows[e] \in Seq(Time) /\ rows = [rows EXCEPT ![e] = rows[e]]
           /\ calls[e] \in Seq(Call) /\ calls = [calls EXCEPT ![e] = calls[e]]
           /\ alert[e] \in BOOLEAN /\ alert = [alert EXCEPT ![e] = alert[e]]
           /\ leaving \in [Editors -> Form]
           /\ Attached(page[e], dialog[e], rows[e], calls[e]) /\ Awaiting(dialog[e], calls[e])
BY DEF TypeOK, DeviceInv

\* A call that takes effect.
LEMMA EffectType ==
    ASSUME TypeOK, NEW c \in Call, Effect(c)
    PROVE  /\ products \in Docs /\ CallEffect(products, products', c)
           /\ products' \in Docs /\ gone' = gone \cup (DOMAIN products \ DOMAIN products')
           /\ gone' \subseteq Doc
<1>1. products \in Docs /\ DOMAIN products \subseteq Doc /\ gone \subseteq Doc
  BY DocsType DEF TypeOK
<1>2. products' = After(products, c) /\ gone' = gone \cup (DOMAIN products \ DOMAIN products')
  BY DEF Effect
<1>3. CallEffect(products, After(products, c), c)
  BY <1>1, AfterEffect
<1>4. CallEffect(products, products', c)
  BY <1>2, <1>3
<1>5. products' \in Docs
  BY <1>4 DEF CallEffect
<1> QED
  BY <1>1, <1>2, <1>4, <1>5

\* The documents keep their types.
LEMMA ServedType ==
    ASSUME TypeOK, NEW e \in Editors, NEW k, Served(e, k)
    PROVE  products' \in Docs /\ gone' \subseteq Doc /\ inDoubt' \subseteq Doc /\ toasts' \subseteq Time
<1>1. CASE UNCHANGED <<products, gone, inDoubt>>
  BY <1>1, DocsType DEF TypeOK, Served
<1>2. ASSUME calls[e] # <<>>, Effect(Head(calls[e])),
             \/ inDoubt' = inDoubt
             \/ inDoubt' = IF Head(calls[e]).call = "set"
                           THEN inDoubt \cup {DocOf(Head(calls[e]).n)} ELSE inDoubt
      PROVE  products' \in Docs /\ gone' \subseteq Doc /\ inDoubt' \subseteq Doc /\ toasts' \subseteq Time
  <2> DEFINE c == Head(calls[e])
  <2>1. c \in Call
    BY <1>2 DEF TypeOK
  <2>2. Effect(c)
    BY <1>2
  <2>3. inDoubt' \subseteq inDoubt \cup {DocOf(c.n)}
    BY <1>2
  <2> HIDE DEF c
  <2>4. products' \in Docs /\ gone' \subseteq Doc
    BY <2>1, <2>2, EffectType
  <2>5. DocOf(c.n) \in Doc
    BY <2>1, CallParts, DocNames
  <2> QED
    BY <2>3, <2>4, <2>5 DEF TypeOK, Served
<1> QED
  BY <1>1, <1>2 DEF Served

\* The device goes on with another page, dialog, sheet, alert and queue.
Turns(e, pg, dlg, rs, al, q) ==
    /\ leaving' \in [Editors -> Form]
    /\ pg \in Page /\ dlg \in Dialog /\ rs \in Seq(Time) /\ al \in BOOLEAN
    /\ page' = [page EXCEPT ![e] = pg] /\ dialog' = [dialog EXCEPT ![e] = dlg]
    /\ rows' = [rows EXCEPT ![e] = rs] /\ alert' = [alert EXCEPT ![e] = al]
    /\ calls' = [calls EXCEPT ![e] = q]

\* The calls r that are left of its queue still belong to something.
Fitting(e, pg, dlg, rs, r, k, parts) ==
    /\ k \in {1, 2} /\ Thinned(r, calls[e], k, parts)
    /\ dlg # NoDialog /\ dlg.kind \in {"update", "price"} => pg # List
    /\ pg # List \/ page[e] = List \/ "page" \in parts
    /\ "dialog" \in parts \/ Alike(dlg, dialog[e])
    /\ rs # <<>> \/ rows[e] = <<>> \/ "app" \in parts \/ (k = 2 /\ Importing(calls[e][1]))
    /\ Served(e, k) /\ RowsFrom(e)

\* So does the call c that is made.
Belongs(e, pg, dlg, rs, r, k, c) ==
    /\ "page" \in c.mounted => pg # List
    /\ Importing(c) => rs # <<>> /\ (rows[e] = <<>> \/ (k = 2 /\ Importing(calls[e][1])))
    /\ "dialog" \in c.mounted => Fits(c, dlg)
    /\ "dialog" \in c.mounted \/ Awaiting(dlg, r)
    /\ NewCall(e, c)

\* The step of a device that makes no call.
LEMMA DeviceMove ==
    ASSUME TypeOK, DeviceInv, UNCHANGED patient, NEW e \in Editors,
           NEW pg, NEW dlg, NEW rs, NEW al, NEW r, NEW k, NEW parts,
           Turns(e, pg, dlg, rs, al, r), Fitting(e, pg, dlg, rs, r, k, parts), Awaiting(dlg, r)
    PROVE  TypeOK' /\ DeviceInv' /\ Step(e)
<1> USE DEF Turns, Fitting
<1>1. r \in Seq(Call)
  BY DEF Thinned
<1>2. /\ page[e] \in Page /\ dialog[e] \in Dialog /\ rows[e] \in Seq(Time) /\ calls[e] \in Seq(Call)
      /\ Attached(page[e], dialog[e], rows[e], calls[e])
  BY Here
<1>3. Attached(pg, dlg, rs, r)
  BY <1>2, AttachedThinned
<1>4. TypeOK'
  <2>1. products' \in Docs /\ gone' \subseteq Doc /\ inDoubt' \subseteq Doc /\ toasts' \subseteq Time
    BY ServedType
  <2>2. DOMAIN products' \subseteq Doc /\ products' \in [DOMAIN products' -> ProductModel]
    BY <2>1, DocsType
  <2>3. clock' \in 0 .. MaxTime
    BY DEF RowsFrom
  <2> QED
    BY <1>1, <2>1, <2>2, <2>3 DEF TypeOK
<1>5. /\ page'[e] = pg /\ dialog'[e] = dlg /\ rows'[e] = rs /\ calls'[e] = r
      /\ \A f \in Editors : f # e => /\ page'[f] = page[f] /\ dialog'[f] = dialog[f]
                                     /\ rows'[f] = rows[f] /\ calls'[f] = calls[f]
  BY DEF TypeOK
<1>6. DeviceInv'
  BY <1>3, <1>5 DEF DeviceInv
<1>7. Traced(e, r, k, parts)
  BY <1>5 DEF Traced
<1> QED
  BY <1>4, <1>6, <1>7 DEF Step

\* The step of a device that makes a call.
LEMMA DeviceSend ==
    ASSUME TypeOK, DeviceInv, UNCHANGED patient, NEW e \in Editors,
           NEW pg, NEW dlg, NEW rs, NEW al, NEW r, NEW k, NEW parts, NEW c \in Call,
           Turns(e, pg, dlg, rs, al, Append(r, c)), Fitting(e, pg, dlg, rs, r, k, parts),
           Belongs(e, pg, dlg, rs, r, k, c)
    PROVE  TypeOK' /\ DeviceInv' /\ Step(e)
<1> USE DEF Turns, Fitting, Belongs
<1>1. r \in Seq(Call)
  BY DEF Thinned
<1>2. /\ page[e] \in Page /\ dialog[e] \in Dialog /\ rows[e] \in Seq(Time) /\ calls[e] \in Seq(Call)
      /\ Attached(page[e], dialog[e], rows[e], calls[e])
  BY Here
<1>3. Attached(pg, dlg, rs, r)
  <2>1. /\ k \in {1, 2} /\ Thinned(r, calls[e], k, parts)
        /\ dlg # NoDialog /\ dlg.kind \in {"update", "price"} => pg # List
        /\ pg # List \/ page[e] = List \/ "page" \in parts
        /\ "dialog" \in parts \/ Alike(dlg, dialog[e])
        /\ rs # <<>> \/ rows[e] = <<>> \/ "app" \in parts \/ (k = 2 /\ Importing(calls[e][1]))
        /\ pg \in Page /\ dlg \in Dialog /\ rs \in Seq(Time)
    OBVIOUS
  <2> HIDE DEF Turns, Fitting, Belongs
  <2> QED
    BY <1>2, <2>1, AttachedThinned
<1>4. ASSUME Importing(c), NEW i \in 1 .. Len(r) PROVE ~Importing(r[i])
  <2> SUFFICES ASSUME Importing(r[i]) PROVE FALSE
    OBVIOUS
  <2>1. PICK m \in [1 .. Len(r) -> k .. Len(calls[e])] :
                Same(r[i], calls[e][m[i]], parts)
    BY DEF Thinned
  <2>2. Importing(calls[e][m[i]]) /\ m[i] \in 1 .. Len(calls[e]) /\ (k = 2 => m[i] # 1)
    BY <2>1 DEF Same, Importing
  <2>3. rows[e] # <<>>
    BY <1>2, <2>2 DEF Attached
  <2>4. k = 2 /\ Importing(calls[e][1])
    BY <1>4, <2>3
  <2>5. 1 \in 1 .. Len(calls[e])
    BY <2>2
  <2> QED
    BY <1>2, <2>2, <2>4, <2>5 DEF Attached
<1>5. Attached(pg, dlg, rs, Append(r, c))
  BY <1>1, <1>3, <1>4, AttachedAppend
<1> DEFINE q == Append(r, c)
           n == Len(r)
<1>6. /\ q \in Seq(Call) /\ n \in Nat /\ Len(q) = n + 1 /\ q[n + 1] = c
      /\ \A i \in 1 .. n : q[i] = r[i] /\ i \in 1 .. n + 1
      /\ n + 1 \in 1 .. n + 1
  BY <1>1
<1> HIDE DEF q
<1>7. Awaiting(dlg, q)
  BY <1>6 DEF Awaiting
<1>8. TypeOK'
  <2>1. products' \in Docs /\ gone' \subseteq Doc /\ inDoubt' \subseteq Doc /\ toasts' \subseteq Time
    BY ServedType
  <2>2. DOMAIN products' \subseteq Doc /\ products' \in [DOMAIN products' -> ProductModel]
    BY <2>1, DocsType
  <2>3. clock' \in 0 .. MaxTime
    BY DEF RowsFrom
  <2>4. calls' \in [Editors -> Seq(Call)]
    BY <1>6 DEF TypeOK, q
  <2> QED
    BY <2>1, <2>2, <2>3, <2>4 DEF TypeOK
<1>9. /\ page'[e] = pg /\ dialog'[e] = dlg /\ rows'[e] = rs /\ calls'[e] = q
      /\ \A f \in Editors : f # e => /\ page'[f] = page[f] /\ dialog'[f] = dialog[f]
                                     /\ rows'[f] = rows[f] /\ calls'[f] = calls[f]
  BY DEF TypeOK, q
<1>10. DeviceInv'
  BY <1>5, <1>7, <1>9 DEF DeviceInv, q
<1>11. Traced(e, r, k, parts)
  BY <1>9 DEF Traced
<1> QED
  BY <1>8, <1>10, <1>11 DEF Step

\* The calls themselves.
LEMMA SelfThinned ==
    ASSUME NEW q \in Seq(Call)
    PROVE  Rest(q, q, 1, {}) /\ Thinned(q, q, 1, {})
<1>1. Len(q) \in Nat /\ \A i \in 1 .. Len(q) : i + 1 - 1 = i
  OBVIOUS
<1>2. Rest(q, q, 1, {})
  BY <1>1 DEF Rest, Same
<1> QED
  BY <1>2, RestThinned

\* A step that leaves the server, the clock and the rows alone.
LEMMA Quiet ==
    ASSUME TypeOK, NEW e \in Editors, NEW k, UNCHANGED stored, UNCHANGED <<clock, rows>>
    PROVE  Served(e, k) /\ RowsFrom(e)
<1>1. Served(e, k)
  BY DEF Served, TypeOK, stored
<1>2. RowsFrom(e)
  BY DEF RowsFrom, TypeOK
<1> QED
  BY <1>1, <1>2

\* What a call made now belongs to.
LEMMA MountedParts ==
    ASSUME NEW e
    PROVE  /\ Mounted(e) \in SUBSET Parts /\ "app" \in Mounted(e)
           /\ "page" \in Mounted(e) <=> Editing(e)
           /\ "dialog" \in Mounted(e) <=> dialog[e] # NoDialog
BY DEF Mounted, Parts

\* A product that is shown.
LEMMA PageParts ==
    ASSUME NEW pg \in Page, pg # List
    PROVE  /\ pg.model \in ProductModel /\ pg.doc \in Doc /\ pg.swiped \in SUBSET Customers
           /\ pg.model.id \in Time /\ pg.model.details \in Details \cup {Blank}
           /\ pg.model.specialUsers \in Special
           /\ \A m \in ProductModel : [pg EXCEPT !.model = m] \in Page /\ [pg EXCEPT !.model = m] # List
           /\ \A cs \in SUBSET Customers :
                 [pg EXCEPT !.swiped = cs] \in Page /\ [pg EXCEPT !.swiped = cs] # List
           /\ \A m \in ProductModel :
                 /\ [pg EXCEPT !.model = m, !.swiped = {}] \in Page
                 /\ [pg EXCEPT !.model = m, !.swiped = {}] # List
<1>1. pg \in [model : ProductModel, swiped : SUBSET Customers, doc : Doc]
  BY DEF Page, List
<1>2. \A p \in [model : ProductModel, swiped : SUBSET Customers, doc : Doc] : p # List /\ p \in Page
  BY DEF Page, List
<1> QED
  BY <1>1, <1>2 DEF ProductModel

\* A product is opened.
LEMMA OpenProductStep ==
    ASSUME TypeOK, DeviceInv, UNCHANGED patient, NEW e \in Editors,
           NEW d \in DOMAIN View(e), OpenProduct(e, d)
    PROVE  TypeOK' /\ DeviceInv' /\ Step(e)
<1> DEFINE pg == [model |-> View(e)[d], swiped |-> {}, doc |-> d]
           q == calls[e]
<1>1. View(e) \in Docs
  BY ViewType
<1>2. pg \in Page /\ pg # List
  <2>1. d \in Doc /\ View(e)[d] \in ProductModel
    BY <1>1, DocsType
  <2> HIDE DEF View
  <2> QED
    BY <2>1 DEF Page, List
<1>3. /\ page' = [page EXCEPT ![e] = pg] /\ dialog[e] = NoDialog
      /\ UNCHANGED leaving /\ dialog' = dialog /\ rows' = rows /\ alert' = alert /\ calls' = calls
      /\ UNCHANGED stored /\ UNCHANGED <<clock, rows>>
  BY DEF OpenProduct, Free
<1> HIDE DEF pg
<1>4. Served(e, 1) /\ RowsFrom(e)
  BY <1>3, Quiet
<1>5. Thinned(q, q, 1, {})
  BY Here, SelfThinned
<1>6. Alike(dialog[e], dialog[e])
  BY DEF Alike
<1>7. Turns(e, pg, dialog[e], rows[e], alert[e], q)
  BY <1>2, <1>3, Here DEF Turns
<1>8. Fitting(e, pg, dialog[e], rows[e], q, 1, {})
  BY <1>2, <1>3, <1>4, <1>5, <1>6 DEF Fitting
<1> QED
  BY <1>7, <1>8, Here, DeviceMove

\* The page is left.
LEMMA BackStep ==
    ASSUME TypeOK, DeviceInv, UNCHANGED patient, NEW e \in Editors, Back(e)
    PROVE  TypeOK' /\ DeviceInv' /\ Step(e)
<1> DEFINE q == calls[e]
           r == Unmount(q, {"page"})
<1>1. /\ page' = [page EXCEPT ![e] = List] /\ dialog[e] = NoDialog
      /\ UNCHANGED leaving /\ dialog' = dialog /\ rows' = rows /\ alert' = alert /\ calls' = [calls EXCEPT ![e] = r]
      /\ UNCHANGED stored /\ UNCHANGED <<clock, rows>>
  BY DEF Back, Free, Leave
<1>2. Served(e, 1) /\ RowsFrom(e)
  BY <1>1, Quiet
<1>3. Thinned(r, q, 1, {"page"})
  BY Here, UnmountRest, RestThinned
<1>4. Alike(dialog[e], dialog[e]) /\ Awaiting(dialog[e], r) /\ List \in Page
  BY <1>1 DEF Alike, Awaiting, Page, List
<1> HIDE DEF r
<1>5. Turns(e, List, dialog[e], rows[e], alert[e], r)
  BY <1>1, <1>4, Here DEF Turns
<1>6. Fitting(e, List, dialog[e], rows[e], r, 1, {"page"})
  BY <1>1, <1>2, <1>3, <1>4 DEF Fitting
<1> QED
  BY <1>4, <1>5, <1>6, DeviceMove

\* The product is to be read again.
LEMMA RefreshStep ==
    ASSUME TypeOK, DeviceInv, UNCHANGED patient, NEW e \in Editors, Refresh(e)
    PROVE  TypeOK' /\ DeviceInv' /\ Step(e)
<1> DEFINE q == calls[e]
           c == [call |-> "get", n |-> page[e].model.id, mounted |-> Mounted(e)]
<1>1. /\ page' = page /\ dialog[e] = NoDialog /\ page[e] # List
      /\ UNCHANGED leaving /\ dialog' = dialog /\ rows' = rows /\ alert' = alert
      /\ calls' = [calls EXCEPT ![e] = Append(q, c)]
      /\ UNCHANGED stored /\ UNCHANGED <<clock, rows>>
  BY DEF Refresh, Free, Send, Editing
<1>2. Served(e, 1) /\ RowsFrom(e)
  BY <1>1, Quiet
<1>3. Thinned(q, q, 1, {})
  BY Here, SelfThinned
<1>4. Alike(dialog[e], dialog[e]) /\ Awaiting(dialog[e], q)
  BY <1>1 DEF Alike, Awaiting
<1>5. c \in Call
  BY <1>1, Here, PageParts, MountedParts DEF Call
<1>6. c.call = "get" /\ "dialog" \notin c.mounted
  BY <1>1, MountedParts
<1> HIDE DEF c
<1>7. NewCall(e, c) /\ ~Importing(c)
  BY <1>5, <1>6 DEF NewCall, Importing
<1>8. Turns(e, page[e], dialog[e], rows[e], alert[e], Append(q, c))
  BY <1>1, Here DEF Turns
<1>9. Fitting(e, page[e], dialog[e], rows[e], q, 1, {})
  BY <1>1, <1>2, <1>3, <1>4 DEF Fitting
<1>10. Belongs(e, page[e], dialog[e], rows[e], q, 1, c)
  BY <1>1, <1>4, <1>6, <1>7 DEF Belongs
<1> QED
  BY <1>5, <1>8, <1>9, <1>10, DeviceSend

\* A product is to be deleted.
LEMMA DeleteStep ==
    ASSUME TypeOK, DeviceInv, UNCHANGED patient, NEW e \in Editors, Delete(e)
    PROVE  TypeOK' /\ DeviceInv' /\ Step(e)
<1> DEFINE q == calls[e]
           r == Unmount(q, {"page"})
           c == [call |-> "delete", n |-> page[e].model.id, mounted |-> {"app"}]
<1>1. /\ page' = [page EXCEPT ![e] = List] /\ dialog[e] = NoDialog /\ page[e] # List
      /\ UNCHANGED leaving /\ dialog' = dialog /\ rows' = rows /\ alert' = alert
      /\ calls' = [calls EXCEPT ![e] = Append(r, c)]
      /\ UNCHANGED stored /\ UNCHANGED <<clock, rows>>
  BY DEF Delete, Free, Leave, Editing
<1>2. Served(e, 1) /\ RowsFrom(e)
  BY <1>1, Quiet
<1>3. Thinned(r, q, 1, {"page"})
  BY Here, UnmountRest, RestThinned
<1>4. Alike(dialog[e], dialog[e]) /\ Awaiting(dialog[e], r) /\ List \in Page
  BY <1>1 DEF Alike, Awaiting, Page, List
<1>5. c \in Call
  BY <1>1, Here, PageParts DEF Call, Parts
<1>6. c.call = "delete" /\ c.mounted = {"app"}
  OBVIOUS
<1> HIDE DEF c, r
<1>7. NewCall(e, c) /\ ~Importing(c)
  BY <1>5, <1>6 DEF NewCall, Importing
<1>8. Turns(e, List, dialog[e], rows[e], alert[e], Append(r, c))
  BY <1>1, <1>4, Here DEF Turns
<1>9. Fitting(e, List, dialog[e], rows[e], r, 1, {"page"})
  BY <1>1, <1>2, <1>3, <1>4 DEF Fitting
<1>10. Belongs(e, List, dialog[e], rows[e], r, 1, c)
  BY <1>1, <1>4, <1>6, <1>7 DEF Belongs
<1> QED
  BY <1>5, <1>8, <1>9, <1>10, DeviceSend

\* The application starts again.
LEMMA RestartStep ==
    ASSUME TypeOK, DeviceInv, UNCHANGED patient, NEW e \in Editors,
           NEW kept \in BOOLEAN, Restart(e, kept)
    PROVE  TypeOK' /\ DeviceInv' /\ Step(e)
<1> DEFINE q == calls[e]
           r == IF kept THEN Unmount(FoldLeft(Keep, <<>>, q), Parts) ELSE <<>>
<1>1. /\ page' = [page EXCEPT ![e] = List] /\ dialog' = [dialog EXCEPT ![e] = NoDialog]
      /\ alert' = [alert EXCEPT ![e] = FALSE] /\ rows' = [rows EXCEPT ![e] = <<>>]
      /\ calls' = [calls EXCEPT ![e] = r]
      /\ UNCHANGED stored /\ UNCHANGED clock
      /\ leaving' = [leaving EXCEPT ![e] = NoForm]
  BY DEF Restart, Leave, Show
<1>2. Served(e, 1)
  BY <1>1 DEF Served, TypeOK, stored
<1>3. RowsFrom(e)
  <2>1. rows'[e] = <<>> /\ Len(<<>>) = 0
    BY <1>1 DEF TypeOK
  <2> QED
    BY <1>1, <2>1 DEF RowsFrom, TypeOK
<1>4. Thinned(r, q, 1, Parts)
  <2>1. q \in Seq(Call)
    BY Here
  <2> QED
    BY <2>1, KeptThinned, NoneThinned
<1> HIDE DEF r
<1>5. Awaiting(NoDialog, r) /\ List \in Page /\ NoDialog \in Dialog /\ <<>> \in Seq(Time)
  BY DEF Awaiting, Page, List, NoDialog, Dialog
<1>9. leaving' \in [Editors -> Form]
  BY <1>1, Here DEF NoForm, Form
<1>6. "page" \in Parts /\ "dialog" \in Parts /\ "app" \in Parts
  BY DEF Parts
<1>7. Turns(e, List, NoDialog, <<>>, FALSE, r)
  BY <1>1, <1>5, <1>9 DEF Turns
<1>8. Fitting(e, List, NoDialog, <<>>, r, 1, Parts)
  BY <1>2, <1>3, <1>4, <1>6 DEF Fitting
<1> QED
  BY <1>5, <1>7, <1>8, DeviceMove

\* A step that changes nothing but the dialog.
LEMMA DialogMove ==
    ASSUME TypeOK, DeviceInv, UNCHANGED patient, NEW e \in Editors,
           NEW dlg \in Dialog, dialog' = [dialog EXCEPT ![e] = dlg],
           UNCHANGED stored, UNCHANGED <<clock, page, leaving, alert, rows, calls>>,
           dlg # NoDialog /\ dlg.kind \in {"update", "price"} => page[e] # List,
           Alike(dlg, dialog[e]), Awaiting(dlg, calls[e])
    PROVE  TypeOK' /\ DeviceInv' /\ Step(e)
<1>1. Served(e, 1) /\ RowsFrom(e)
  BY Quiet
<1>2. Thinned(calls[e], calls[e], 1, {})
  BY Here, SelfThinned
<1>3. Turns(e, page[e], dlg, rows[e], alert[e], calls[e])
  BY Here DEF Turns
<1>4. Fitting(e, page[e], dlg, rows[e], calls[e], 1, {})
  BY <1>1, <1>2 DEF Fitting
<1> QED
  BY <1>3, <1>4, DeviceMove

\* The parts of a dialog.
LEMMA DialogParts ==
    ASSUME NEW dlg \in Dialog, dlg # NoDialog
    PROVE  /\ dlg.kind \in {"new", "update", "price"}
           /\ dlg.loading \in BOOLEAN /\ dlg.stuck \in BOOLEAN
           /\ dlg.kind \in {"new", "update"} => /\ dlg.text \in Details \cup {Blank}
                                                /\ dlg.own \in BOOLEAN
           /\ dlg.kind = "price" => dlg.customer \in Customers
BY DEF Dialog, NoDialog

\* The form of a new product is opened.
LEMMA AddNewItemStep ==
    ASSUME TypeOK, DeviceInv, UNCHANGED patient, NEW e \in Editors, AddNewItem(e)
    PROVE  TypeOK' /\ DeviceInv' /\ Step(e)
<1> DEFINE v == IF Editing(e) THEN page[e].model.details ELSE Blank
           dlg == [kind |-> "new", loading |-> FALSE, own |-> FALSE, stuck |-> FALSE, text |-> v]
<1>1. /\ dialog[e] = NoDialog /\ dialog' = [dialog EXCEPT ![e] = dlg]
      /\ UNCHANGED stored /\ UNCHANGED <<clock, page, leaving, alert, rows, calls>>
  BY DEF AddNewItem, Free, Show
<1>2. v \in Details \cup {Blank}
  BY Here, PageParts DEF Editing
<1> HIDE DEF v
<1>3. dlg \in Dialog /\ dlg.kind = "new" /\ dlg.loading = FALSE
  BY <1>2 DEF Dialog
<1> HIDE DEF dlg
<1>4. Alike(dlg, dialog[e]) /\ Awaiting(dlg, calls[e])
  BY <1>1, <1>3 DEF Alike, Awaiting
<1>5. ~(dlg.kind \in {"update", "price"})
  BY <1>3
<1> QED
  BY <1>1, <1>3, <1>4, <1>5, DialogMove

\* The form of the product that is shown is opened.
LEMMA UpdateItemStep ==
    ASSUME TypeOK, DeviceInv, UNCHANGED patient, NEW e \in Editors, UpdateItem(e)
    PROVE  TypeOK' /\ DeviceInv' /\ Step(e)
<1> DEFINE v == page[e].model.details
           dlg == [kind |-> "update", loading |-> FALSE, own |-> TRUE, stuck |-> FALSE, text |-> v]
<1>1. /\ dialog[e] = NoDialog /\ page[e] # List /\ dialog' = [dialog EXCEPT ![e] = dlg]
      /\ UNCHANGED stored /\ UNCHANGED <<clock, page, leaving, alert, rows, calls>>
  BY DEF UpdateItem, Free, Show, Editing
<1>2. v \in Details \cup {Blank}
  BY <1>1, Here, PageParts
<1> HIDE DEF v
<1>3. dlg \in Dialog /\ dlg.loading = FALSE
  BY <1>2 DEF Dialog
<1> HIDE DEF dlg
<1>4. Alike(dlg, dialog[e]) /\ Awaiting(dlg, calls[e])
  BY <1>1, <1>3 DEF Alike, Awaiting
<1> QED
  BY <1>1, <1>3, <1>4, DialogMove

\* The dialog for a price is opened.
LEMMA AskPriceStep ==
    ASSUME TypeOK, DeviceInv, UNCHANGED patient, NEW e \in Editors, NEW c \in Customers,
           AskPrice(e, c)
    PROVE  TypeOK' /\ DeviceInv' /\ Step(e)
<1> DEFINE dlg == [kind |-> "price", customer |-> c, loading |-> FALSE, stuck |-> FALSE]
<1>1. /\ dialog[e] = NoDialog /\ page[e] # List /\ dialog' = [dialog EXCEPT ![e] = dlg]
      /\ UNCHANGED stored /\ UNCHANGED <<clock, page, leaving, alert, rows, calls>>
  BY DEF AskPrice, Free, Show, Editing
<1>2. dlg \in Dialog /\ dlg.loading = FALSE
  BY DEF Dialog
<1> HIDE DEF dlg
<1>3. Alike(dlg, dialog[e]) /\ Awaiting(dlg, calls[e])
  BY <1>1, <1>2 DEF Alike, Awaiting
<1> QED
  BY <1>1, <1>2, <1>3, DialogMove

\* The dialog that is there loads, or does not.
LEMMA DialogLoads ==
    ASSUME NEW dlg \in Dialog, dlg # NoDialog, NEW b \in BOOLEAN
    PROVE  /\ [dlg EXCEPT !.loading = b] \in Dialog
           /\ [dlg EXCEPT !.loading = b] # NoDialog
           /\ [dlg EXCEPT !.loading = b].kind = dlg.kind
           /\ [dlg EXCEPT !.loading = b].loading = b
           /\ Alike([dlg EXCEPT !.loading = b], dlg)
<1> DEFINE d == [dlg EXCEPT !.loading = b]
<1>1. d \in Dialog /\ d # NoDialog
  BY DEF Dialog, NoDialog
<1>2. d.kind = dlg.kind /\ d.loading = b
  BY DEF Dialog, NoDialog
<1>3. dlg.kind \notin {"new", "update"} => d.customer = dlg.customer
  BY DEF Dialog, NoDialog
<1> HIDE DEF d
<1>4. Alike(d, dlg)
  BY <1>1, <1>2, <1>3 DEF Alike
<1> QED
  BY <1>1, <1>2, <1>4 DEF d

\* Its code throws.
LEMMA DialogThrows ==
    ASSUME NEW dlg \in Dialog, dlg # NoDialog
    PROVE  /\ [dlg EXCEPT !.stuck = TRUE] \in Dialog
           /\ [dlg EXCEPT !.stuck = TRUE] # NoDialog
           /\ [dlg EXCEPT !.stuck = TRUE].kind = dlg.kind
           /\ [dlg EXCEPT !.stuck = TRUE].stuck
           /\ Alike([dlg EXCEPT !.stuck = TRUE], dlg)
<1> DEFINE d == [dlg EXCEPT !.stuck = TRUE]
           Fields == [kind : {"new", "update"}, text : Details \cup {Blank},
                      loading : BOOLEAN, own : BOOLEAN, stuck : BOOLEAN]
           Price == [kind : {"price"}, customer : Customers, loading : BOOLEAN, stuck : BOOLEAN]
<1>1. d \in Dialog /\ d # NoDialog
  <2>1. dlg \in Fields \/ dlg \in Price
    BY DEF Dialog, NoDialog
  <2>2. CASE dlg \in Fields
    <3>1. d \in Fields
      BY <2>2
    <3> QED
      BY <3>1 DEF Dialog, NoDialog
  <2>3. CASE dlg \in Price
    <3>1. d \in Price
      BY <2>3
    <3> QED
      BY <3>1 DEF Dialog, NoDialog
  <2> QED
    BY <2>1, <2>2, <2>3
<1>2. d.kind = dlg.kind /\ d.stuck = TRUE
  BY DEF Dialog, NoDialog
<1>3. dlg.kind \notin {"new", "update"} => d.customer = dlg.customer
  BY DEF Dialog, NoDialog
<1> HIDE DEF d
<1>4. Alike(d, dlg)
  BY <1>1, <1>2, <1>3 DEF Alike
<1> QED
  BY <1>1, <1>2, <1>4 DEF d

\* A field is edited.
LEMMA TypeStep ==
    ASSUME TypeOK, DeviceInv, UNCHANGED patient, NEW e \in Editors,
           NEW v \in Details \cup {Blank}, Type(e, v)
    PROVE  TypeOK' /\ DeviceInv' /\ Step(e)
<1> DEFINE d == dialog[e]
           dlg == [d EXCEPT !.text = v]
<1>1. /\ d # NoDialog /\ d.kind \in {"new", "update"} /\ d \in Dialog
      /\ UNCHANGED stored /\ UNCHANGED <<clock, page, leaving, alert, rows, calls>>
  BY Here DEF Type, Shows
<1>2. dialog' = [dialog EXCEPT ![e] = dlg]
  BY DEF Type
<1> HIDE DEF d
<1>3. /\ dlg \in Dialog /\ dlg # NoDialog /\ dlg.kind = d.kind /\ dlg.loading = d.loading
      /\ dlg.stuck = d.stuck
  BY <1>1 DEF Dialog, NoDialog
<1> HIDE DEF dlg
<1>4. Alike(dlg, d) /\ Awaiting(dlg, calls[e])
  <2>1. Awaiting(d, calls[e])
    BY Here DEF d
  <2> QED
    BY <1>1, <1>3, <2>1 DEF Alike, Awaiting
<1>5. dlg.kind \in {"update", "price"} => page[e] # List
  <2>1. Attached(page[e], d, rows[e], calls[e])
    BY Here DEF d
  <2> QED
    BY <1>1, <1>3, <2>1 DEF Attached
<1> QED
  BY <1>1, <1>2, <1>3, <1>4, <1>5, DialogMove DEF d

\* The price is not a number.
LEMMA OkPriceEmptyStep ==
    ASSUME TypeOK, DeviceInv, UNCHANGED patient, NEW e \in Editors, OkPriceEmpty(e)
    PROVE  TypeOK' /\ DeviceInv' /\ Step(e)
<1> DEFINE d == dialog[e]
           dlg == [d EXCEPT !.loading = TRUE, !.stuck = TRUE]
<1>1. /\ d # NoDialog /\ d.kind = "price" /\ d \in Dialog
      /\ UNCHANGED stored /\ UNCHANGED <<clock, page, leaving, alert, rows, calls>>
  BY Here DEF OkPriceEmpty, Shows
<1>2. dialog' = [dialog EXCEPT ![e] = dlg]
  BY Here DEF OkPriceEmpty, TypeOK
<1> HIDE DEF d
<1>3. dlg \in Dialog /\ dlg # NoDialog /\ dlg.kind = d.kind /\ dlg.stuck /\ dlg.customer = d.customer
  <2>1. d \in [kind : {"price"}, customer : Customers, loading : BOOLEAN, stuck : BOOLEAN]
    BY <1>1 DEF Dialog, NoDialog
  <2>2. /\ dlg \in [kind : {"price"}, customer : Customers, loading : BOOLEAN, stuck : BOOLEAN]
        /\ dlg.stuck = TRUE
    BY <2>1
  <2>3. dlg.kind = d.kind /\ dlg.customer = d.customer
    BY <2>1
  <2> HIDE DEF dlg
  <2>4. dlg \in Dialog /\ dlg # NoDialog
    BY <2>2 DEF Dialog, NoDialog
  <2> QED
    BY <2>2, <2>3, <2>4
<1> HIDE DEF dlg
<1>4. Alike(dlg, d) /\ Awaiting(dlg, calls[e])
  BY <1>1, <1>3 DEF Alike, Awaiting
<1>5. page[e] # List
  <2>1. Attached(page[e], d, rows[e], calls[e])
    BY Here DEF d
  <2> QED
    BY <1>1, <2>1 DEF Attached
<1> QED
  BY <1>1, <1>2, <1>3, <1>4, <1>5, DialogMove DEF d

\* What is left of a dialog that is closed.
LEMMA FormType ==
    ASSUME TypeOK, NEW e \in Editors
    PROVE  FormOf(dialog[e]) \in Form /\ NoForm \in Form
BY DialogParts DEF TypeOK, FormOf, Form, NoForm

\* The dialog on top is closed.
LEMMA CloseDialogChanges ==
    ASSUME TypeOK, NEW e \in Editors, NEW q \in Seq(Call), CloseDialog(e, q)
    PROVE  /\ dialog' = [dialog EXCEPT ![e] = NoDialog]
           /\ calls' = [calls EXCEPT ![e] = Closing(q)] /\ Rest(Closing(q), q, 1, {"dialog"})
           /\ leaving' \in [Editors -> Form]
<1>1. \E lv \in Form : leaving' = [leaving EXCEPT ![e] = lv]
  BY FormType DEF CloseDialog
<1>2. leaving' \in [Editors -> Form]
  BY <1>1 DEF TypeOK
<1> QED
  BY <1>2, ClosingRest DEF CloseDialog

\* A dialog is cancelled.
LEMMA CancelStep ==
    ASSUME TypeOK, DeviceInv, UNCHANGED patient, NEW e \in Editors, Cancel(e)
    PROVE  TypeOK' /\ DeviceInv' /\ Step(e)
<1> DEFINE q == calls[e]
           r == Closing(q)
<1>1. CloseDialog(e, q) /\ UNCHANGED stored /\ UNCHANGED <<clock, page, alert, rows>>
  BY DEF Cancel
<1>2. q \in Seq(Call)
  BY Here
<1>3. /\ dialog' = [dialog EXCEPT ![e] = NoDialog] /\ calls' = [calls EXCEPT ![e] = r]
      /\ Rest(r, q, 1, {"dialog"}) /\ leaving' \in [Editors -> Form]
  BY <1>1, <1>2, CloseDialogChanges
<1> HIDE DEF r
<1>4. Served(e, 1) /\ RowsFrom(e)
  BY <1>1, Quiet
<1>5. Thinned(r, q, 1, {"dialog"})
  BY <1>2, <1>3, RestThinned
<1>6. Awaiting(NoDialog, r) /\ NoDialog \in Dialog
  BY DEF Awaiting, NoDialog, Dialog
<1>7. Turns(e, page[e], NoDialog, rows[e], alert[e], r)
  BY <1>1, <1>3, <1>6, Here DEF Turns
<1>8. Fitting(e, page[e], NoDialog, rows[e], r, 1, {"dialog"})
  BY <1>4, <1>5 DEF Fitting
<1> QED
  BY <1>6, <1>7, <1>8, DeviceMove

\* A closed dialog has left the screen.
LEMMA LeftStep ==
    ASSUME TypeOK, DeviceInv, UNCHANGED patient, NEW e \in Editors, Left(e)
    PROVE  TypeOK' /\ DeviceInv' /\ Step(e)
<1> DEFINE q == calls[e]
           r == Unmount(q, {"leaving"})
<1>1. /\ leaving' = [leaving EXCEPT ![e] = NoForm] /\ calls' = [calls EXCEPT ![e] = r]
      /\ UNCHANGED stored /\ UNCHANGED <<clock, page, dialog, alert, rows>>
  BY DEF Left
<1>2. q \in Seq(Call) /\ Awaiting(dialog[e], q)
  BY Here
<1>3. Rest(r, q, 1, {"leaving"})
  BY <1>2, UnmountRest
<1> HIDE DEF r
<1>4. Served(e, 1) /\ RowsFrom(e)
  BY <1>1, Quiet
<1>5. Thinned(r, q, 1, {"leaving"})
  BY <1>2, <1>3, RestThinned
<1>6. Awaiting(dialog[e], r) /\ Alike(dialog[e], dialog[e])
  <2>1. "dialog" \notin {"leaving"} /\ 1 \in {1, 2} /\ 1 # 2
    OBVIOUS
  <2>2. Awaiting(dialog[e], r)
    BY <1>2, <1>3, <2>1, AwaitingRest
  <2> QED
    BY <2>2 DEF Alike
<1>7. leaving' \in [Editors -> Form]
  BY <1>1, FormType DEF TypeOK
<1>8. Turns(e, page[e], dialog[e], rows[e], alert[e], r)
  BY <1>1, <1>7, Here DEF Turns
<1>9. Fitting(e, page[e], dialog[e], rows[e], r, 1, {"leaving"})
  BY <1>4, <1>5, <1>6, Here DEF Fitting, Attached
<1> QED
  BY <1>6, <1>8, <1>9, DeviceMove

\* The alert appears or goes away.
LEMMA AlertStep ==
    ASSUME TypeOK, DeviceInv, UNCHANGED patient, NEW e \in Editors,
           CancelPick(e) \/ DismissAlert(e)
    PROVE  TypeOK' /\ DeviceInv' /\ Step(e)
<1> DEFINE q == calls[e]
<1>1. PICK al \in BOOLEAN : alert' = [alert EXCEPT ![e] = al]
  BY DEF CancelPick, DismissAlert
<1>2. UNCHANGED stored /\ UNCHANGED <<clock, page, dialog, leaving, rows, calls>>
  BY DEF CancelPick, DismissAlert
<1>3. Served(e, 1) /\ RowsFrom(e)
  BY <1>2, Quiet
<1>4. Thinned(q, q, 1, {})
  BY Here, SelfThinned
<1>5. Turns(e, page[e], dialog[e], rows[e], al, q)
  BY <1>1, <1>2, Here DEF Turns
<1>6. Alike(dialog[e], dialog[e])
  BY DEF Alike
<1>7. dialog[e] # NoDialog /\ dialog[e].kind \in {"update", "price"} => page[e] # List
  BY Here DEF Attached
<1>8. Fitting(e, page[e], dialog[e], rows[e], q, 1, {})
  BY <1>3, <1>4, <1>6, <1>7 DEF Fitting
<1> QED
  BY <1>5, <1>8, Here, DeviceMove

\* A dialog makes a call: it loads, and the call belongs to it.
LEMMA DialogSend ==
    ASSUME TypeOK, DeviceInv, UNCHANGED patient, NEW e \in Editors, NEW c \in Call,
           dialog[e] # NoDialog, dialog' = [dialog EXCEPT ![e].loading = TRUE],
           calls' = [calls EXCEPT ![e] = Append(calls[e], c)], c.mounted = Mounted(e),
           Fits(c, dialog[e]), ~Importing(c), NewCall(e, c),
           UNCHANGED stored, UNCHANGED <<page, leaving, alert, rows>>, Served(e, 1), RowsFrom(e)
    PROVE  TypeOK' /\ DeviceInv' /\ Step(e)
<1> DEFINE d == dialog[e]
           dlg == [d EXCEPT !.loading = TRUE]
           q == calls[e]
<1>1. d \in Dialog /\ d # NoDialog /\ dialog' = [dialog EXCEPT ![e] = dlg] /\ Fits(c, d)
  BY Here
<1>2. Attached(page[e], d, rows[e], q) /\ q \in Seq(Call)
  BY Here
<1> HIDE DEF d
<1>3. dlg \in Dialog /\ dlg # NoDialog /\ dlg.kind = d.kind /\ Alike(dlg, d)
  BY <1>1, DialogLoads
<1> HIDE DEF dlg
<1>4. Fits(c, dlg)
  BY <1>1, <1>3 DEF Fits, Alike
<1>5. "dialog" \in c.mounted /\ ("page" \in c.mounted => page[e] # List)
  BY MountedParts DEF Editing
<1>6. Thinned(q, q, 1, {})
  BY <1>2, SelfThinned
<1>7. Turns(e, page[e], dlg, rows[e], alert[e], Append(q, c))
  BY <1>1, <1>3, Here DEF Turns
<1>8. Fitting(e, page[e], dlg, rows[e], q, 1, {})
  BY <1>1, <1>2, <1>3, <1>6 DEF Fitting, Attached, d
<1>9. Belongs(e, page[e], dlg, rows[e], q, 1, c)
  BY <1>4, <1>5 DEF Belongs
<1> QED
  BY <1>7, <1>8, <1>9, DeviceSend

\* Done and Update.
LEMMA DoneStep ==
    ASSUME TypeOK, DeviceInv, UNCHANGED patient, NEW e \in Editors, Done(e)
    PROVE  TypeOK' /\ DeviceInv' /\ Step(e)
<1> DEFINE d == dialog[e]
           C(call, n) == [call |-> call, n |-> n, details |-> d.text, mounted |-> Mounted(e)]
<1>1. /\ d \in Dialog /\ d # NoDialog /\ d.kind \in {"new", "update"} /\ d.text # Blank
      /\ dialog' = [dialog EXCEPT ![e].loading = TRUE]
      /\ UNCHANGED stored /\ UNCHANGED <<page, leaving, alert, rows>>
  BY Here DEF Done, Shows
<1>2. d.text \in Details /\ Mounted(e) \in SUBSET Parts
  BY <1>1, DialogParts, MountedParts
<1>3. Served(e, 1)
  BY <1>1 DEF Served, TypeOK, stored
<1>4. clock \in Nat /\ clock <= MaxTime /\ MaxTime \in Nat
  BY BoundsAssumption DEF TypeOK
<1>5. CASE d.kind = "update"
  <2> DEFINE c == C("update", page[e].model.id)
  <2>1. calls' = [calls EXCEPT ![e] = Append(calls[e], c)] /\ clock' = clock
    BY <1>5 DEF Done, Send
  <2>2. page[e] # List
    BY <1>1, <1>5, Here DEF Attached
  <2>3. c \in Call
    BY <1>2, <2>2, Here, PageParts DEF Call
  <2>4. c.call = "update" /\ c.mounted = Mounted(e)
    OBVIOUS
  <2> HIDE DEF c
  <2>5. Fits(c, d)
    BY <1>1, <1>5, <2>4 DEF Fits
  <2>6. ~Importing(c) /\ NewCall(e, c)
    BY <2>3, <2>4 DEF Importing, NewCall
  <2>7. RowsFrom(e)
    BY <1>1, <2>1 DEF RowsFrom, TypeOK
  <2> QED
    BY <1>1, <1>3, <2>1, <2>3, <2>4, <2>5, <2>6, <2>7, DialogSend
<1>6. CASE d.kind = "new"
  <2> DEFINE c == C("set", clock + 1)
  <2>1. calls' = [calls EXCEPT ![e] = Append(calls[e], c)] /\ clock' = clock + 1 /\ clock < MaxTime
    BY <1>6 DEF Done, Send
  <2>2. clock + 1 \in Time
    BY <1>4, <2>1 DEF Time
  <2>3. c \in Call
    BY <1>2, <2>2 DEF Call
  <2>4. c.call = "set" /\ c.mounted = Mounted(e) /\ c.n = clock + 1
    OBVIOUS
  <2> HIDE DEF c
  <2>5. Fits(c, d)
    BY <1>1, <1>6, <2>4 DEF Fits
  <2>6. ~Importing(c) /\ NewCall(e, c)
    BY <1>1, <2>1, <2>3, <2>4 DEF Importing, NewCall
  <2>7. RowsFrom(e)
    BY <1>1, <1>4, <2>1 DEF RowsFrom
  <2> QED
    BY <1>1, <1>3, <2>1, <2>3, <2>4, <2>5, <2>6, <2>7, DialogSend
<1> QED
  BY <1>1, <1>5, <1>6

\* A price is to be stored.
LEMMA OkPriceStep ==
    ASSUME TypeOK, DeviceInv, UNCHANGED patient, NEW e \in Editors,
           NEW p \in Prices, OkPrice(e, p)
    PROVE  TypeOK' /\ DeviceInv' /\ Step(e)
<1> DEFINE d == dialog[e]
           c == [call |-> "price", n |-> page[e].model.id, customer |-> d.customer,
                 price |-> p, mounted |-> Mounted(e)]
<1>1. /\ d \in Dialog /\ d # NoDialog /\ d.kind = "price"
      /\ dialog' = [dialog EXCEPT ![e].loading = TRUE]
      /\ UNCHANGED stored /\ UNCHANGED <<page, leaving, alert, rows>> /\ clock' = clock
      /\ calls' = [calls EXCEPT ![e] = Append(calls[e], c)]
  BY Here DEF OkPrice, Shows, SetSpecialPrice, Send
<1>2. d.customer \in Customers /\ Mounted(e) \in SUBSET Parts
  BY <1>1, DialogParts, MountedParts
<1>3. Served(e, 1) /\ RowsFrom(e)
  BY <1>1, Quiet
<1>4. page[e] # List
  BY <1>1, Here DEF Attached
<1>5. c \in Call
  BY <1>2, <1>4, Here, PageParts DEF Call
<1>6. c.call = "price" /\ c.mounted = Mounted(e) /\ c.customer = d.customer
  OBVIOUS
<1> HIDE DEF c
<1>7. Fits(c, d)
  BY <1>1, <1>6 DEF Fits
<1>8. ~Importing(c) /\ NewCall(e, c)
  BY <1>5, <1>6 DEF Importing, NewCall
<1> QED
  BY <1>1, <1>3, <1>5, <1>6, <1>7, <1>8, DialogSend

\* A card is swiped away.
LEMMA DismissStep ==
    ASSUME TypeOK, DeviceInv, UNCHANGED patient, NEW e \in Editors,
           NEW cu \in Customers, Dismiss(e, cu)
    PROVE  TypeOK' /\ DeviceInv' /\ Step(e)
<1> DEFINE q == calls[e]
           c == [call |-> "dismiss", n |-> page[e].model.id, customer |-> cu,
                 price |-> NoPrice, mounted |-> Mounted(e)]
           cs == page[e].swiped \cup {cu}
           pg == [page[e] EXCEPT !.swiped = cs]
<1>1. /\ page[e] # List /\ dialog[e] = NoDialog
      /\ UNCHANGED stored /\ UNCHANGED <<dialog, leaving, alert, rows>> /\ clock' = clock
      /\ calls' = [calls EXCEPT ![e] = Append(q, c)]
  BY Here DEF Dismiss, Free, Editing, SetSpecialPrice, Send
<1>2. page' = [page EXCEPT ![e] = pg]
  BY DEF Dismiss
<1>3. Served(e, 1) /\ RowsFrom(e)
  BY <1>1, Quiet
<1>4. cs \in SUBSET Customers
  BY <1>1, Here, PageParts
<1> HIDE DEF cs
<1>5. pg \in Page /\ pg # List
  <2>1. page[e] \in Page
    BY Here
  <2> QED
    BY <1>1, <1>4, <2>1, PageParts
<1> HIDE DEF pg
<1>6. c \in Call
  BY <1>1, Here, PageParts, MountedParts DEF Call
<1>7. c.call = "dismiss" /\ "dialog" \notin c.mounted
  BY <1>1, MountedParts
<1> HIDE DEF c
<1>8. ~Importing(c) /\ NewCall(e, c)
  BY <1>6, <1>7 DEF Importing, NewCall
<1>9. Thinned(q, q, 1, {})
  BY Here, SelfThinned
<1>10. Alike(dialog[e], dialog[e]) /\ Awaiting(dialog[e], q)
  BY Here DEF Alike
<1>11. Turns(e, pg, dialog[e], rows[e], alert[e], Append(q, c))
  BY <1>1, <1>2, <1>5, Here DEF Turns
<1>12. Fitting(e, pg, dialog[e], rows[e], q, 1, {})
  BY <1>3, <1>5, <1>9, <1>10 DEF Fitting
<1>13. Belongs(e, pg, dialog[e], rows[e], q, 1, c)
  BY <1>5, <1>7, <1>8, <1>10 DEF Belongs
<1> QED
  BY <1>6, <1>11, <1>12, <1>13, DeviceSend

\* A sheet is picked.
LEMMA ImportStep ==
    ASSUME TypeOK, DeviceInv, UNCHANGED patient, NEW e \in Editors,
           NEW k \in 1 .. MaxRows, Import(e, k)
    PROVE  TypeOK' /\ DeviceInv' /\ Step(e)
<1> DEFINE q == calls[e]
           c == AddRow(clock + 1)
           rs == [i \in 1 .. k |-> clock + i]
<1>1. /\ rows[e] = <<>> /\ clock + k <= MaxTime /\ clock' = clock + k /\ dialog[e] = NoDialog
      /\ alert' = [alert EXCEPT ![e] = TRUE] /\ rows' = [rows EXCEPT ![e] = rs]
      /\ calls' = [calls EXCEPT ![e] = Append(q, c)]
      /\ UNCHANGED stored /\ UNCHANGED <<page, dialog, leaving>>
  BY DEF Import, Free, Send
<1>2. k \in Nat /\ k >= 1 /\ clock \in Nat /\ MaxTime \in Nat
  BY BoundsAssumption DEF TypeOK
<1>3. rs \in Seq(Time) /\ Len(rs) = k /\ \A i \in 1 .. k : rs[i] = clock + i
  BY <1>1, <1>2 DEF Time
<1>4. rows'[e] = rs
  BY <1>1 DEF TypeOK
<1> HIDE DEF rs
<1>5. rs # <<>>
  BY <1>2, <1>3
<1>6. RowsFrom(e)
  BY <1>1, <1>2, <1>3, <1>4 DEF RowsFrom
<1>7. Served(e, 1)
  BY <1>1 DEF Served, TypeOK, stored
<1>8. c \in Call /\ c.call = "add" /\ c.mounted = {"app"} /\ c.n = clock + 1
  BY <1>1, <1>2 DEF Call, AddRow, Time, Parts
<1> HIDE DEF c
<1>9. NewCall(e, c)
  <2>1. 1 \in 1 .. k /\ rs[1] = clock + 1
    BY <1>2, <1>3
  <2> QED
    BY <1>3, <1>4, <1>8, <2>1 DEF NewCall
<1>10. Thinned(q, q, 1, {})
  BY Here, SelfThinned
<1>11. Alike(dialog[e], dialog[e]) /\ Awaiting(dialog[e], q)
  BY Here DEF Alike
<1>12. Turns(e, page[e], dialog[e], rs, TRUE, Append(q, c))
  BY <1>1, <1>3, Here DEF Turns
<1>13. Fitting(e, page[e], dialog[e], rs, q, 1, {})
  BY <1>1, <1>6, <1>7, <1>10, <1>11 DEF Fitting
<1>14. Belongs(e, page[e], dialog[e], rs, q, 1, c)
  BY <1>1, <1>5, <1>8, <1>9, <1>11 DEF Belongs
<1> QED
  BY <1>8, <1>12, <1>13, <1>14, DeviceSend

----------------------------------------------------------------------------
(* Answers.                                                                *)

\* The call that is answered.
LEMMA FirstCall ==
    ASSUME TypeOK, DeviceInv, NEW e \in Editors, calls[e] # <<>>
    PROVE  /\ Head(calls[e]) \in Call /\ Head(calls[e]) = calls[e][1]
           /\ 1 \in 1 .. Len(calls[e]) /\ Tail(calls[e]) \in Seq(Call)
           /\ Thinned(Tail(calls[e]), calls[e], 2, {}) /\ Rest(Tail(calls[e]), calls[e], 2, {})
<1>1. calls[e] \in Seq(Call)
  BY Here
<1>2. /\ Head(calls[e]) \in Call /\ Head(calls[e]) = calls[e][1] /\ 1 \in 1 .. Len(calls[e])
      /\ Tail(calls[e]) \in Seq(Call)
  BY <1>1
<1>3. Rest(Tail(calls[e]), calls[e], 2, {})
  BY <1>1, TailRest
<1> QED
  BY <1>1, <1>2, <1>3, RestThinned

\* The answer takes effect and the rows stay.
LEMMA Answering ==
    ASSUME TypeOK, NEW e \in Editors, calls[e] # <<>>, Effect(Head(calls[e])),
           UNCHANGED <<clock, rows, inDoubt>>, toasts' \subseteq Time
    PROVE  Served(e, 2) /\ RowsFrom(e)
<1>1. Served(e, 2)
  BY DEF Served
<1>2. RowsFrom(e)
  BY DEF RowsFrom, TypeOK
<1> QED
  BY <1>1, <1>2

\* A call that belongs to the dialog was made by it.
LEMMA OwnCall ==
    ASSUME TypeOK, DeviceInv, NEW e \in Editors, NEW c, calls[e] # <<>>, c = Head(calls[e]),
           "dialog" \in c.mounted
    PROVE  Fits(c, dialog[e])
<1>1. c = calls[e][1] /\ 1 \in 1 .. Len(calls[e])
  BY FirstCall
<1>2. Attached(page[e], dialog[e], rows[e], calls[e])
  BY Here
<1> QED
  BY <1>1, <1>2 DEF Attached

\* Calls that no dialog makes.
LEMMA NotOwnCall ==
    ASSUME TypeOK, DeviceInv, NEW e \in Editors, NEW c, calls[e] # <<>>, c = Head(calls[e]),
           c.call \in {"dismiss", "get", "delete", "add"}
    PROVE  "dialog" \notin c.mounted
<1> SUFFICES ASSUME "dialog" \in c.mounted PROVE FALSE
  OBVIOUS
<1>1. Fits(c, dialog[e])
  BY OwnCall
<1>2. dialog[e] # NoDialog /\ dialog[e].kind \in {"new", "update", "price"}
  BY <1>1, Here, DialogParts DEF Fits
<1> QED
  BY <1>1, <1>2 DEF Fits

\* The dialog d can be what was there, once the first call has been answered.
GoesOn(d, e) ==
    /\ d \in Dialog /\ Alike(d, dialog[e]) /\ Awaiting(d, Tail(calls[e]))
    /\ d # NoDialog => dialog[e] # NoDialog /\ d.kind = dialog[e].kind

\* What awaits another call goes on waiting.
LEMMA OthersAwait ==
    ASSUME TypeOK, DeviceInv, NEW e \in Editors, calls[e] # <<>>,
           "dialog" \notin Head(calls[e]).mounted
    PROVE  Awaiting(dialog[e], Tail(calls[e])) /\ Alike(dialog[e], dialog[e])
           /\ GoesOn(dialog[e], e)
<1>1. /\ calls[e] \in Seq(Call) /\ Awaiting(dialog[e], calls[e])
      /\ Rest(Tail(calls[e]), calls[e], 2, {}) /\ "dialog" \notin calls[e][1].mounted
  BY Here, FirstCall
<1>2. Awaiting(dialog[e], Tail(calls[e]))
  BY <1>1, AwaitingRest
<1>3. Alike(dialog[e], dialog[e])
  BY DEF Alike
<1> QED
  BY <1>2, <1>3, Here DEF GoesOn

\* The dialog once the code of the call c has ended.
EndedDialog(e, c) ==
    IF "dialog" \notin c.mounted THEN dialog[e]
    ELSE IF c.call = "set" THEN [dialog[e] EXCEPT !.stuck = TRUE]
    ELSE [dialog[e] EXCEPT !.loading = FALSE]

\* It is the dialog of that call, if any, and awaits nothing in vain.
LEMMA EndedChanges ==
    ASSUME TypeOK, DeviceInv, NEW e \in Editors, calls[e] # <<>>, NEW c, c = Head(calls[e])
    PROVE  GoesOn(EndedDialog(e, c), e) /\ Ended(e, c) = [dialog EXCEPT ![e] = EndedDialog(e, c)]
<1> DEFINE d == dialog[e]
<1>1. d \in Dialog
  BY Here
<1>2. CASE "dialog" \notin c.mounted
  BY <1>2, Here, OthersAwait DEF EndedDialog, Ended
<1>3. CASE "dialog" \in c.mounted /\ c.call = "set"
  <2> DEFINE dlg == [d EXCEPT !.stuck = TRUE]
  <2>1. EndedDialog(e, c) = dlg /\ Ended(e, c) = [dialog EXCEPT ![e] = dlg]
    BY <1>3 DEF EndedDialog, Ended
  <2>2. d # NoDialog
    BY <1>3, OwnCall DEF Fits
  <2> HIDE DEF d
  <2>3. dlg \in Dialog /\ dlg.stuck /\ dlg.kind = d.kind /\ Alike(dlg, d)
    BY <1>1, <2>2, DialogThrows
  <2> HIDE DEF dlg
  <2>4. Awaiting(dlg, Tail(calls[e]))
    BY <2>3 DEF Awaiting
  <2> QED
    BY <2>1, <2>2, <2>3, <2>4 DEF GoesOn, d
<1>4. CASE "dialog" \in c.mounted /\ c.call # "set"
  <2> DEFINE dlg == [d EXCEPT !.loading = FALSE]
  <2>1. EndedDialog(e, c) = dlg /\ Ended(e, c) = [dialog EXCEPT ![e] = dlg]
    BY <1>4 DEF EndedDialog, Ended
  <2>2. d # NoDialog
    BY <1>4, OwnCall DEF Fits
  <2> HIDE DEF d
  <2>3. dlg \in Dialog /\ dlg.loading = FALSE /\ dlg.kind = d.kind /\ Alike(dlg, d)
    BY <1>1, <2>2, DialogLoads
  <2> HIDE DEF dlg
  <2>4. Awaiting(dlg, Tail(calls[e]))
    BY <2>3 DEF Awaiting
  <2> QED
    BY <2>1, <2>2, <2>3, <2>4 DEF GoesOn, d
<1> QED
  BY <1>2, <1>3, <1>4

\* Device e goes on with page pg1, dialog dlg1 and calls r, which are pg, dlg and q
\* or what a pop leaves of them.
Leaves(e, pg, dlg, q, pg1, dlg1, al, r, parts) ==
    /\ page' = [page EXCEPT ![e] = pg1] /\ dialog' = [dialog EXCEPT ![e] = dlg1]
    /\ alert' = [alert EXCEPT ![e] = al] /\ calls' = [calls EXCEPT ![e] = r]
    /\ leaving' \in [Editors -> Form]
    /\ Rest(r, q, 1, parts)
    /\ pg1 = pg \/ (pg1 = List /\ "page" \in parts /\ dlg1 = NoDialog)
    /\ \/ dlg1 = dlg /\ "dialog" \notin parts
       \/ dlg1 = NoDialog /\ "dialog" \in parts

Popped(e, pg, dlg, q) ==
    \E pg1 \in Page, dlg1 \in Dialog, al \in BOOLEAN : \E r, parts :
        Leaves(e, pg, dlg, q, pg1, dlg1, al, r, parts)

\* Nothing is popped.
LEMMA NonePopped ==
    ASSUME TypeOK, NEW e \in Editors, NEW pg \in Page, NEW dlg \in Dialog,
           NEW q \in Seq(Call), NEW al \in BOOLEAN,
           page' = [page EXCEPT ![e] = pg], dialog' = [dialog EXCEPT ![e] = dlg],
           alert' = [alert EXCEPT ![e] = al], calls' = [calls EXCEPT ![e] = q],
           leaving' \in [Editors -> Form]
    PROVE  Popped(e, pg, dlg, q)
<1>1. Rest(q, q, 1, {}) /\ "dialog" \notin {}
  BY SelfThinned
<1>2. Leaves(e, pg, dlg, q, pg, dlg, al, q, {})
  BY <1>1 DEF Leaves
<1> QED
  BY <1>2 DEF Popped

\* Pop, as a change of the device.
LEMMA PopChanges ==
    ASSUME TypeOK, DeviceInv, NEW e \in Editors, NEW pg \in Page, NEW dlg \in Dialog,
           dlg # NoDialog => dialog[e] # NoDialog, NEW q \in Seq(Call),
           Pop(e, [page EXCEPT ![e] = pg], [dialog EXCEPT ![e] = dlg], q)
    PROVE  Popped(e, pg, dlg, q)
<1>1. leaving \in [Editors -> Form] /\ alert[e] \in BOOLEAN /\ alert = [alert EXCEPT ![e] = alert[e]]
  BY Here
<1>2. CASE /\ alert' = [alert EXCEPT ![e] = FALSE]
           /\ page' = [page EXCEPT ![e] = pg] /\ dialog' = [dialog EXCEPT ![e] = dlg]
           /\ calls' = [calls EXCEPT ![e] = q] /\ UNCHANGED leaving
  BY <1>1, <1>2, NonePopped
<1>3. CASE CloseDialog(e, q) /\ page' = [page EXCEPT ![e] = pg] /\ UNCHANGED alert
  <2> DEFINE r == Closing(q)
             parts == {"dialog"}
  <2>1. /\ dialog' = [dialog EXCEPT ![e] = NoDialog]
        /\ calls' = [calls EXCEPT ![e] = r] /\ Rest(r, q, 1, parts)
        /\ leaving' \in [Editors -> Form]
    BY <1>3, CloseDialogChanges
  <2>2. "dialog" \in parts /\ NoDialog \in Dialog
    BY DEF NoDialog, Dialog
  <2> HIDE DEF r, parts
  <2>3. Leaves(e, pg, dlg, q, pg, NoDialog, alert[e], r, parts)
    BY <1>1, <1>3, <2>1, <2>2 DEF Leaves
  <2> QED
    BY <1>1, <2>2, <2>3 DEF Popped
<1>4. CASE /\ dialog[e] = NoDialog
           /\ page' = [[page EXCEPT ![e] = pg] EXCEPT ![e] = List]
           /\ calls' = [calls EXCEPT ![e] = Unmount(q, {"page"})]
           /\ UNCHANGED <<alert, dialog, leaving>>
  <2> DEFINE r == Unmount(q, {"page"})
             parts == {"page"}
  <2>1. page' = [page EXCEPT ![e] = List]
    BY <1>4
  <2>2. dlg = NoDialog /\ dialog' = [dialog EXCEPT ![e] = dlg]
    BY <1>4, Here
  <2>3. Rest(r, q, 1, parts)
    BY UnmountRest
  <2>4. "page" \in parts /\ "dialog" \notin parts /\ List \in Page
    BY DEF List, Page
  <2>5. calls' = [calls EXCEPT ![e] = r]
    BY <1>4
  <2> HIDE DEF r, parts
  <2>6. Leaves(e, pg, dlg, q, List, dlg, alert[e], r, parts)
    BY <1>1, <1>4, <2>1, <2>2, <2>3, <2>4, <2>5 DEF Leaves
  <2> QED
    BY <1>1, <2>4, <2>6 DEF Popped
<1> QED
  BY <1>2, <1>3, <1>4 DEF Pop

\* Close, as a change of the device.
LEMMA CloseChanges ==
    ASSUME TypeOK, DeviceInv, NEW e \in Editors, calls[e] # <<>>, NEW c, c = Head(calls[e]),
           NEW pg \in Page, NEW more, Tail(calls[e]) \o more \in Seq(Call),
           Close(e, c, [page EXCEPT ![e] = pg], more)
    PROVE  Popped(e, pg, EndedDialog(e, c), Tail(calls[e]) \o more)
<1> DEFINE q == Tail(calls[e]) \o more
           d == EndedDialog(e, c)
<1>1. GoesOn(d, e) /\ Ended(e, c) = [dialog EXCEPT ![e] = d]
  BY EndedChanges
<1>2. d \in Dialog /\ (d # NoDialog => dialog[e] # NoDialog)
  BY <1>1 DEF GoesOn
<1>3. CASE Pop(e, [page EXCEPT ![e] = pg], Ended(e, c), q)
  <2>1. q \in Seq(Call)
    OBVIOUS
  <2> HIDE DEF d, q
  <2>2. Pop(e, [page EXCEPT ![e] = pg], [dialog EXCEPT ![e] = d], q)
    BY <1>1, <1>3
  <2>3. Popped(e, pg, d, q)
    BY <1>2, <2>1, <2>2, PopChanges
  <2> QED
    BY <2>3 DEF d, q
<1>4. CASE /\ c.mounted \cap {"dialog", "leaving"} = {}
           /\ calls' = [calls EXCEPT ![e] = q]
           /\ page' = [page EXCEPT ![e] = pg]
           /\ UNCHANGED <<dialog, leaving, alert>>
  <2>1. d = dialog[e]
    BY <1>4 DEF EndedDialog
  <2>2. dialog' = [dialog EXCEPT ![e] = d] /\ alert' = [alert EXCEPT ![e] = alert[e]]
    BY <1>4, <2>1, Here
  <2>3. alert[e] \in BOOLEAN /\ leaving' \in [Editors -> Form]
    BY <1>4, Here
  <2>4. q \in Seq(Call)
    OBVIOUS
  <2> HIDE DEF d, q
  <2>5. Popped(e, pg, d, q)
    BY <1>2, <1>4, <2>2, <2>3, <2>4, NonePopped
  <2> QED
    BY <2>5 DEF d, q
<1> QED
  BY <1>3, <1>4 DEF Close

\* An answer after which no call is made.
LEMMA PoppedStep ==
    ASSUME TypeOK, DeviceInv, UNCHANGED patient, NEW e \in Editors, calls[e] # <<>>,
           NEW pg \in Page, pg # List \/ page[e] = List, NEW dlg, GoesOn(dlg, e),
           Popped(e, pg, dlg, Tail(calls[e])), NEW rs \in Seq(Time),
           rows' = [rows EXCEPT ![e] = rs],
           rs # <<>> \/ rows[e] = <<>> \/ Importing(calls[e][1]),
           Served(e, 2), RowsFrom(e)
    PROVE  TypeOK' /\ DeviceInv' /\ Step(e)
<1> DEFINE q == calls[e]
           t == Tail(q)
<1>0. PICK pg1 \in Page, dlg1 \in Dialog, al \in BOOLEAN :
           \E r, parts : Leaves(e, pg, dlg, t, pg1, dlg1, al, r, parts)
  BY DEF Popped
<1>1. PICK r, parts :
      /\ page' = [page EXCEPT ![e] = pg1] /\ dialog' = [dialog EXCEPT ![e] = dlg1]
      /\ alert' = [alert EXCEPT ![e] = al] /\ calls' = [calls EXCEPT ![e] = r]
      /\ leaving' \in [Editors -> Form]
      /\ Rest(r, t, 1, parts)
      /\ pg1 = pg \/ (pg1 = List /\ "page" \in parts /\ dlg1 = NoDialog)
      /\ \/ dlg1 = dlg /\ "dialog" \notin parts
         \/ dlg1 = NoDialog /\ "dialog" \in parts
  BY <1>0 DEF Leaves
<1>2. q \in Seq(Call) /\ t \in Seq(Call) /\ Attached(page[e], dialog[e], rows[e], q)
  BY Here, FirstCall
<1>3. Rest(r, q, 2, parts)
  BY <1>1, <1>2, RestOfTail
<1>4. Thinned(r, q, 2, parts)
  BY <1>2, <1>3, RestThinned
<1>5. Awaiting(dlg, t) /\ Alike(dlg, dialog[e])
      /\ (dlg # NoDialog => dialog[e] # NoDialog /\ dlg.kind = dialog[e].kind)
  BY DEF GoesOn
<1> HIDE DEF q, t
<1>6. Awaiting(dlg1, r)
  <2>1. CASE dlg1 = NoDialog
    BY <2>1 DEF Awaiting
  <2>2. CASE dlg1 = dlg /\ "dialog" \notin parts
    <3>1. 1 \in {1, 2} /\ 1 # 2
      OBVIOUS
    <3> QED
      BY <1>1, <1>2, <1>5, <2>2, <3>1, AwaitingRest
  <2> QED
    BY <1>1, <2>1, <2>2
<1>7. Turns(e, pg1, dlg1, rs, al, r)
  BY <1>1 DEF Turns
<1>8. dlg1 # NoDialog /\ dlg1.kind \in {"update", "price"} => pg1 # List
  BY <1>1, <1>2, <1>5 DEF Attached
<1>9. Fitting(e, pg1, dlg1, rs, r, 2, parts)
  BY <1>1, <1>4, <1>5, <1>8 DEF Fitting, q
<1> QED
  BY <1>6, <1>7, <1>9, DeviceMove

\* An answer after which the product is to be read again.
LEMMA PoppedSend ==
    ASSUME TypeOK, DeviceInv, UNCHANGED patient, NEW e \in Editors, calls[e] # <<>>,
           NEW pg \in Page, pg # List \/ page[e] = List, NEW dlg, GoesOn(dlg, e),
           NEW g \in Call, Popped(e, pg, dlg, Append(Tail(calls[e]), g)), g.call = "get",
           "dialog" \notin g.mounted, "page" \in g.mounted => page[e] # List,
           UNCHANGED rows, Served(e, 2), RowsFrom(e)
    PROVE  TypeOK' /\ DeviceInv' /\ Step(e)
<1> DEFINE q == calls[e]
           t == Tail(q)
<1>0. PICK pg1 \in Page, dlg1 \in Dialog, al \in BOOLEAN :
           \E r, parts : Leaves(e, pg, dlg, Append(t, g), pg1, dlg1, al, r, parts)
  BY DEF Popped
<1>1. PICK r, parts :
      /\ page' = [page EXCEPT ![e] = pg1] /\ dialog' = [dialog EXCEPT ![e] = dlg1]
      /\ alert' = [alert EXCEPT ![e] = al] /\ calls' = [calls EXCEPT ![e] = r]
      /\ leaving' \in [Editors -> Form]
      /\ Rest(r, Append(t, g), 1, parts)
      /\ pg1 = pg \/ (pg1 = List /\ "page" \in parts /\ dlg1 = NoDialog)
      /\ \/ dlg1 = dlg /\ "dialog" \notin parts
         \/ dlg1 = NoDialog /\ "dialog" \in parts
  BY <1>0 DEF Leaves
<1>2. q \in Seq(Call) /\ t \in Seq(Call) /\ Attached(page[e], dialog[e], rows[e], q)
  BY Here, FirstCall
<1> HIDE DEF t
<1>3. PICK s \in Seq(Call), h \in Call :
          r = Append(s, h) /\ Rest(s, t, 1, parts) /\ Same(h, g, parts)
  BY <1>1, <1>2, RestOfAppend
<1>4. Rest(s, q, 2, parts)
  BY <1>2, <1>3, RestOfTail DEF t
<1>5. Thinned(s, q, 2, parts)
  BY <1>2, <1>4, RestThinned
<1>6. Awaiting(dlg, t) /\ Alike(dlg, dialog[e])
      /\ (dlg # NoDialog => dialog[e] # NoDialog /\ dlg.kind = dialog[e].kind)
  BY DEF GoesOn, t
<1> HIDE DEF q
<1>7. Awaiting(dlg1, s)
  <2>1. CASE dlg1 = NoDialog
    BY <2>1 DEF Awaiting
  <2>2. CASE dlg1 = dlg /\ "dialog" \notin parts
    <3>1. 1 \in {1, 2} /\ 1 # 2
      OBVIOUS
    <3> QED
      BY <1>2, <1>3, <1>6, <2>2, <3>1, AwaitingRest
  <2> QED
    BY <1>1, <2>1, <2>2
<1>8. h.call = "get" /\ "dialog" \notin h.mounted /\ ("page" \in h.mounted => pg1 # List)
  BY <1>1, <1>3 DEF Same
<1>9. NewCall(e, h) /\ ~Importing(h)
  BY <1>8 DEF NewCall, Importing
<1>10. Turns(e, pg1, dlg1, rows[e], al, Append(s, h))
  BY <1>1, <1>3, Here DEF Turns
<1>11. dlg1 # NoDialog /\ dlg1.kind \in {"update", "price"} => pg1 # List
  BY <1>1, <1>2, <1>6 DEF Attached
<1>12. Fitting(e, pg1, dlg1, rows[e], s, 2, parts)
  BY <1>1, <1>5, <1>6, <1>11 DEF Fitting, q
<1>13. Belongs(e, pg1, dlg1, rows[e], s, 2, h)
  BY <1>7, <1>8, <1>9 DEF Belongs
<1> QED
  BY <1>10, <1>12, <1>13, DeviceSend

\* An answer that closes its dialog, and leaves the sheet alone.
LEMMA ClosingStep ==
    ASSUME TypeOK, DeviceInv, UNCHANGED patient, NEW e \in Editors, calls[e] # <<>>,
           NEW c, c = Head(calls[e]), Effect(c), NEW pg \in Page, pg # List \/ page[e] = List,
           Close(e, c, [page EXCEPT ![e] = pg], <<>>),
           UNCHANGED <<clock, rows, inDoubt, toasts>>
    PROVE  TypeOK' /\ DeviceInv' /\ Step(e)
<1> DEFINE t == Tail(calls[e])
<1>1. t \in Seq(Call)
  BY FirstCall
<1>2. t \o <<>> = t /\ t \o <<>> \in Seq(Call)
  BY <1>1
<1>3. Popped(e, pg, EndedDialog(e, c), t \o <<>>)
  BY <1>2, CloseChanges
<1>4. Popped(e, pg, EndedDialog(e, c), t)
  BY <1>2, <1>3
<1>5. GoesOn(EndedDialog(e, c), e)
  BY EndedChanges
<1>6. Served(e, 2) /\ RowsFrom(e)
  BY Answering DEF TypeOK
<1>7. rows[e] \in Seq(Time) /\ rows' = [rows EXCEPT ![e] = rows[e]]
  BY Here
<1>8. rows[e] # <<>> \/ rows[e] = <<>> \/ Importing(calls[e][1])
  OBVIOUS
<1> QED
  BY <1>4, <1>5, <1>6, <1>7, <1>8, PoppedStep

\* An answer that closes nothing and leaves the rows alone.
LEMMA AnsweredStep ==
    ASSUME TypeOK, DeviceInv, UNCHANGED patient, NEW e \in Editors, calls[e] # <<>>,
           NEW pg \in Page, pg # List \/ page[e] = List, NEW dlg, GoesOn(dlg, e),
           NEW al \in BOOLEAN, page' = [page EXCEPT ![e] = pg],
           dialog' = [dialog EXCEPT ![e] = dlg], alert' = [alert EXCEPT ![e] = al],
           leaving' \in [Editors -> Form],
           calls' = [calls EXCEPT ![e] = Tail(calls[e])], UNCHANGED <<clock, rows>>,
           Served(e, 2)
    PROVE  TypeOK' /\ DeviceInv' /\ Step(e)
<1>1. Tail(calls[e]) \in Seq(Call) /\ dlg \in Dialog
  BY FirstCall DEF GoesOn
<1>2. Popped(e, pg, dlg, Tail(calls[e]))
  BY <1>1, NonePopped
<1>3. RowsFrom(e)
  BY DEF RowsFrom, TypeOK
<1>4. rows[e] \in Seq(Time) /\ rows' = [rows EXCEPT ![e] = rows[e]]
  BY Here
<1>5. rows[e] # <<>> \/ rows[e] = <<>> \/ Importing(calls[e][1])
  OBVIOUS
<1> QED
  BY <1>2, <1>3, <1>4, <1>5, PoppedStep

\* A new product is stored.
LEMMA CreatedStep ==
    ASSUME TypeOK, DeviceInv, UNCHANGED patient, NEW e \in Editors, calls[e] # <<>>,
           NEW c, c = Head(calls[e]), Created(e, c)
    PROVE  TypeOK' /\ DeviceInv' /\ Step(e)
<1>1. Close(e, c, page, <<>>) /\ Effect(c) /\ UNCHANGED <<clock, rows, inDoubt, toasts>>
  BY DEF Created
<1>2. page[e] \in Page /\ page = [page EXCEPT ![e] = page[e]]
  BY Here
<1>3. Close(e, c, [page EXCEPT ![e] = page[e]], <<>>)
  BY <1>1, <1>2
<1> QED
  BY <1>1, <1>2, <1>3, ClosingStep

\* What CopyBack makes of the page.
LEMMA CopyBackChanges ==
    ASSUME TypeOK, DeviceInv, NEW e \in Editors, calls[e] # <<>>, NEW c, c = Head(calls[e])
    PROVE  \E pg \in Page : CopyBack(e, c) = [page EXCEPT ![e] = pg] /\ (pg # List \/ page[e] = List)
<1> DEFINE form == FormFor(e, c)
<1>1. CASE form # NoForm /\ "page" \in c.mounted /\ form.own
  <2>1. form \in Form
    BY FormType DEF FormFor, TypeOK
  <2>2. form.text \in Details \cup {Blank}
    BY <1>1, <2>1 DEF Form, NoForm
  <2>3. page[e] # List
    BY <1>1, FirstCall, Here DEF Attached
  <2> DEFINE m == [page[e].model EXCEPT !.details = form.text]
             pg == [page[e] EXCEPT !.model = m]
  <2>4. CopyBack(e, c) = [page EXCEPT ![e] = pg]
    BY <1>1 DEF CopyBack
  <2> HIDE DEF form
  <2>5. m \in ProductModel
    <3>1. page[e].model \in ProductModel
      BY <2>3, Here, PageParts
    <3> QED
      BY <2>2, <3>1 DEF ProductModel
  <2> HIDE DEF m
  <2>6. pg \in Page /\ pg # List
    BY <2>3, <2>5, Here, PageParts
  <2> HIDE DEF pg
  <2> QED
    BY <2>4, <2>6
<1>2. CASE ~(form # NoForm /\ "page" \in c.mounted /\ form.own)
  <2>1. CopyBack(e, c) = page
    BY <1>2 DEF CopyBack
  <2> QED
    BY <2>1, Here
<1> QED
  BY <1>1, <1>2

\* Details are stored.
LEMMA UpdatedStep ==
    ASSUME TypeOK, DeviceInv, UNCHANGED patient, NEW e \in Editors, calls[e] # <<>>,
           NEW c, c = Head(calls[e]), Updated(e, c)
    PROVE  TypeOK' /\ DeviceInv' /\ Step(e)
<1>1. Effect(c) /\ EndUpdate(e, c) /\ UNCHANGED <<clock, rows, inDoubt, toasts>>
  BY DEF Updated
<1>2. PICK pg \in Page : CopyBack(e, c) = [page EXCEPT ![e] = pg] /\ (pg # List \/ page[e] = List)
  BY CopyBackChanges
<1>3. CASE Close(e, c, CopyBack(e, c), <<>>)
  BY <1>1, <1>2, <1>3, ClosingStep
<1>4. CASE /\ page' = CopyBack(e, c) /\ dialog' = Ended(e, c)
           /\ calls' = [calls EXCEPT ![e] = Tail(@)] /\ UNCHANGED <<leaving, alert>>
  <2>1. GoesOn(EndedDialog(e, c), e) /\ Ended(e, c) = [dialog EXCEPT ![e] = EndedDialog(e, c)]
    BY EndedChanges
  <2>2. Served(e, 2)
    BY <1>1, Answering DEF TypeOK
  <2>3. /\ alert[e] \in BOOLEAN /\ alert' = [alert EXCEPT ![e] = alert[e]]
        /\ leaving' \in [Editors -> Form]
    BY <1>4, Here
  <2> QED
    BY <1>1, <1>2, <1>4, <2>1, <2>2, <2>3, AnsweredStep
<1> QED
  BY <1>1, <1>3, <1>4 DEF EndUpdate

\* A special price is stored.
LEMMA PriceSetStep ==
    ASSUME TypeOK, DeviceInv, UNCHANGED patient, NEW e \in Editors, calls[e] # <<>>,
           NEW c, c = Head(calls[e]), PriceSet(e, c)
    PROVE  TypeOK' /\ DeviceInv' /\ Step(e)
<1> DEFINE g == [call |-> "get", n |-> c.n, mounted |-> c.mounted \cap {"page", "app"}]
           t == Tail(calls[e])
<1>1. /\ Effect(c) /\ UNCHANGED <<clock, rows, inDoubt, toasts>>
      /\ Close(e, c, page, <<>>) \/ Close(e, c, page, <<g>>)
  BY DEF PriceSet
<1>2. page[e] \in Page /\ page = [page EXCEPT ![e] = page[e]]
  BY Here
<1>3. CASE Close(e, c, page, <<>>)
  <2>1. Close(e, c, [page EXCEPT ![e] = page[e]], <<>>)
    BY <1>2, <1>3
  <2> QED
    BY <1>1, <1>2, <2>1, ClosingStep
<1>4. CASE Close(e, c, page, <<g>>)
  <2>1. c \in Call /\ c = calls[e][1] /\ 1 \in 1 .. Len(calls[e]) /\ t \in Seq(Call)
    BY FirstCall
  <2>2. g \in Call
    BY <2>1, CallParts DEF Call
  <2>3. g.call = "get" /\ g.mounted = c.mounted \cap {"page", "app"}
    OBVIOUS
  <2> HIDE DEF g
  <2>4. "dialog" \notin g.mounted /\ ("page" \in g.mounted => page[e] # List)
    BY <2>1, <2>3, Here DEF Attached
  <2>5. t \o <<g>> = Append(t, g) /\ t \o <<g>> \in Seq(Call)
    BY <2>1, <2>2
  <2>6. Close(e, c, [page EXCEPT ![e] = page[e]], <<g>>)
    BY <1>2, <1>4
  <2>7. Popped(e, page[e], EndedDialog(e, c), t \o <<g>>)
    BY <1>2, <2>5, <2>6, CloseChanges
  <2>8. GoesOn(EndedDialog(e, c), e)
    BY EndedChanges
  <2>9. Served(e, 2) /\ RowsFrom(e)
    BY <1>1, Answering DEF TypeOK
  <2>10. UNCHANGED rows /\ Popped(e, page[e], EndedDialog(e, c), Append(t, g))
    BY <1>1, <2>5, <2>7
  <2> QED
    BY <1>2, <2>2, <2>3, <2>4, <2>8, <2>9, <2>10, PoppedSend
<1> QED
  BY <1>1, <1>3, <1>4

\* The price of a swiped card is gone.
LEMMA DismissedStep ==
    ASSUME TypeOK, DeviceInv, UNCHANGED patient, NEW e \in Editors, calls[e] # <<>>,
           NEW c, c = Head(calls[e]), Dismissed(e, c)
    PROVE  TypeOK' /\ DeviceInv' /\ Step(e)
<1> DEFINE al == alert[e] \/ ("page" \in c.mounted /\ c.customer \in page[e].swiped)
<1>1. /\ c.call = "dismiss" /\ Effect(c) /\ alert' = [alert EXCEPT ![e] = al]
      /\ calls' = [calls EXCEPT ![e] = Tail(calls[e])]
      /\ UNCHANGED <<clock, page, dialog, leaving, rows, inDoubt, toasts>>
  BY DEF Dismissed
<1>2. al \in BOOLEAN
  OBVIOUS
<1> HIDE DEF al
<1>3. GoesOn(dialog[e], e)
  BY <1>1, NotOwnCall, OthersAwait
<1>4. Served(e, 2)
  BY <1>1, Answering DEF TypeOK
<1>5. /\ page[e] \in Page /\ page' = [page EXCEPT ![e] = page[e]]
      /\ dialog' = [dialog EXCEPT ![e] = dialog[e]] /\ leaving' \in [Editors -> Form]
  BY <1>1, Here
<1> QED
  BY <1>1, <1>2, <1>3, <1>4, <1>5, AnsweredStep

\* The document is missing.
LEMMA NotFoundStep ==
    ASSUME TypeOK, DeviceInv, UNCHANGED patient, NEW e \in Editors, calls[e] # <<>>,
           NEW c, c = Head(calls[e]), NotFound(e, c)
    PROVE  TypeOK' /\ DeviceInv' /\ Step(e)
<1>1. /\ UNCHANGED stored /\ UNCHANGED <<clock, page, leaving, alert, rows>>
      /\ calls' = [calls EXCEPT ![e] = Tail(calls[e])]
  BY DEF NotFound
<1>2. Served(e, 2)
  BY <1>1, Quiet
<1>3. /\ page[e] \in Page /\ page' = [page EXCEPT ![e] = page[e]]
      /\ alert[e] \in BOOLEAN /\ alert' = [alert EXCEPT ![e] = alert[e]]
      /\ leaving' \in [Editors -> Form]
  BY <1>1, Here
<1>4. CASE "dialog" \in c.mounted
  <2> DEFINE d == dialog[e]
             dlg == [d EXCEPT !.stuck = TRUE]
  <2>1. Fits(c, d)
    BY <1>4, OwnCall
  <2>2. d # NoDialog /\ d \in Dialog
    BY <2>1, Here DEF Fits
  <2>3. dialog' = [dialog EXCEPT ![e] = dlg]
    BY <1>4 DEF NotFound
  <2> HIDE DEF d
  <2>4. dlg \in Dialog /\ dlg.stuck /\ dlg.kind = d.kind /\ Alike(dlg, d)
    BY <2>2, DialogThrows
  <2> HIDE DEF dlg
  <2>5. Awaiting(dlg, Tail(calls[e]))
    BY <2>4 DEF Awaiting
  <2>6. GoesOn(dlg, e)
    BY <2>2, <2>4, <2>5 DEF GoesOn, d
  <2> QED
    BY <1>1, <1>2, <1>3, <2>3, <2>6, AnsweredStep
<1>5. CASE "dialog" \notin c.mounted
  <2>1. dialog' = [dialog EXCEPT ![e] = dialog[e]]
    BY <1>5, Here DEF NotFound
  <2>2. GoesOn(dialog[e], e)
    BY <1>5, OthersAwait
  <2> QED
    BY <1>1, <1>2, <1>3, <2>1, <2>2, AnsweredStep
<1> QED
  BY <1>4, <1>5

\* The dialog no longer edits the object that the page shows.
LEMMA DialogDisowned ==
    ASSUME NEW dlg \in Dialog, dlg # NoDialog, dlg.kind = "update"
    PROVE  /\ [dlg EXCEPT !.own = FALSE] \in Dialog
           /\ [dlg EXCEPT !.own = FALSE] # NoDialog
           /\ [dlg EXCEPT !.own = FALSE].kind = dlg.kind
           /\ [dlg EXCEPT !.own = FALSE].loading = dlg.loading
           /\ [dlg EXCEPT !.own = FALSE].stuck = dlg.stuck
<1> DEFINE Details1 == [kind : {"new", "update"}, text : Details \cup {Blank},
                        loading : BOOLEAN, own : BOOLEAN, stuck : BOOLEAN]
<1>1. dlg \in Details1
  BY DEF Dialog, NoDialog
<1>2. [dlg EXCEPT !.own = FALSE] \in Details1
  BY <1>1
<1>3. [dlg EXCEPT !.own = FALSE] \in Dialog /\ [dlg EXCEPT !.own = FALSE] # NoDialog
  BY <1>2 DEF Dialog, NoDialog
<1> QED
  BY <1>1, <1>3

\* The product is read again.
LEMMA ReloadedStep ==
    ASSUME TypeOK, DeviceInv, UNCHANGED patient, NEW e \in Editors, calls[e] # <<>>,
           NEW c, c = Head(calls[e]), Reloaded(e, c)
    PROVE  TypeOK' /\ DeviceInv' /\ Step(e)
<1> DEFINE d == dialog[e]
<1>1. /\ UNCHANGED stored /\ UNCHANGED <<clock, alert, rows>> /\ c.call = "get"
      /\ calls' = [calls EXCEPT ![e] = Tail(calls[e])]
  BY DEF Reloaded
<1>2. Served(e, 2)
  BY <1>1, Quiet
<1>3. "dialog" \notin c.mounted
  BY <1>1, NotOwnCall
<1>4. Awaiting(d, Tail(calls[e])) /\ Alike(d, d)
  BY <1>3, OthersAwait
<1>5. PICK pg \in Page : page' = [page EXCEPT ![e] = pg] /\ (pg # List \/ page[e] = List)
  <2>1. CASE "page" \in c.mounted /\ DocOf(c.n) \in DOMAIN View(e)
    <3> DEFINE m == View(e)[DocOf(c.n)]
               pg == [page[e] EXCEPT !.model = m, !.swiped = {}]
    <3>1. m \in ProductModel
      BY <2>1, ViewType, DocsType
    <3>2. page[e] # List
      BY <2>1, FirstCall, Here DEF Attached
    <3>3. page' = [page EXCEPT ![e].model = m, ![e].swiped = {}]
      BY <2>1 DEF Reloaded
    <3> HIDE DEF m
    <3>4. page' = [page EXCEPT ![e] = pg]
      BY <3>3, Here
    <3>5. pg \in Page /\ pg # List
      BY <3>1, <3>2, Here, PageParts
    <3> HIDE DEF pg
    <3> QED
      BY <3>4, <3>5
  <2>2. CASE ~("page" \in c.mounted /\ DocOf(c.n) \in DOMAIN View(e))
    <3>1. page' = page
      BY <2>2 DEF Reloaded
    <3> QED
      BY <3>1, Here
  <2> QED
    BY <2>1, <2>2
<1>6. PICK dlg \in Dialog : /\ dialog' = [dialog EXCEPT ![e] = dlg]
                            /\ dlg # NoDialog => d # NoDialog /\ dlg.kind = d.kind
                            /\ Alike(dlg, d) /\ Awaiting(dlg, Tail(calls[e]))
  <2>1. CASE dialog' = dialog
    BY <1>4, <2>1, Here
  <2>2. CASE Shows(e, {"update"}) /\ dialog' = [dialog EXCEPT ![e].own = FALSE]
    <3> DEFINE dlg == [d EXCEPT !.own = FALSE]
    <3>1. d \in Dialog /\ d # NoDialog /\ d.kind = "update" /\ dialog' = [dialog EXCEPT ![e] = dlg]
      BY <2>2, Here DEF Shows
    <3> HIDE DEF d
    <3>2. /\ dlg \in Dialog /\ dlg # NoDialog /\ dlg.kind = d.kind
          /\ dlg.loading = d.loading /\ dlg.stuck = d.stuck
      BY <3>1, DialogDisowned
    <3> HIDE DEF dlg
    <3>3. Alike(dlg, d)
      BY <3>1, <3>2 DEF Alike
    <3>4. Awaiting(dlg, Tail(calls[e]))
      BY <1>4, <3>1, <3>2 DEF Awaiting
    <3> QED
      BY <3>1, <3>2, <3>3, <3>4
  <2> QED
    BY <2>1, <2>2 DEF Reloaded
<1>7. leaving' \in [Editors -> Form]
  <2>1. CASE leaving' = leaving
    BY <2>1, Here
  <2>2. CASE leaving[e] # NoForm /\ leaving' = [leaving EXCEPT ![e].own = FALSE]
    <3> DEFINE lv == [leaving[e] EXCEPT !.own = FALSE]
    <3>1. leaving[e] \in [text : Details \cup {Blank}, own : BOOLEAN]
      BY <2>2, Here DEF Form, NoForm
    <3>2. lv \in [text : Details \cup {Blank}, own : BOOLEAN]
      BY <3>1
    <3>3. leaving' = [leaving EXCEPT ![e] = lv]
      BY <2>2
    <3> HIDE DEF lv
    <3>4. lv \in Form
      BY <3>2 DEF Form
    <3> QED
      BY <3>3, <3>4, Here
  <2> QED
    BY <2>1, <2>2 DEF Reloaded
<1>8. GoesOn(dlg, e)
  BY <1>6 DEF GoesOn
<1>9. alert[e] \in BOOLEAN /\ alert' = [alert EXCEPT ![e] = alert[e]]
  BY <1>1, Here
<1> QED
  BY <1>1, <1>2, <1>5, <1>6, <1>7, <1>8, <1>9, AnsweredStep

\* A call is answered that nothing on the device awaits.
LEMMA UnattendedStep ==
    ASSUME TypeOK, DeviceInv, UNCHANGED patient, NEW e \in Editors, calls[e] # <<>>,
           NEW c, c = Head(calls[e]), c.call \in {"delete", "add"}, Effect(c),
           toasts' \subseteq Time, calls' = [calls EXCEPT ![e] = Tail(calls[e])],
           UNCHANGED <<clock, page, dialog, leaving, alert, rows, inDoubt>>
    PROVE  TypeOK' /\ DeviceInv' /\ Step(e)
<1>1. GoesOn(dialog[e], e)
  BY NotOwnCall, OthersAwait
<1>2. Served(e, 2)
  BY Answering
<1>3. /\ page[e] \in Page /\ page' = [page EXCEPT ![e] = page[e]]
      /\ dialog' = [dialog EXCEPT ![e] = dialog[e]]
      /\ alert[e] \in BOOLEAN /\ alert' = [alert EXCEPT ![e] = alert[e]]
      /\ leaving' \in [Editors -> Form]
  BY Here
<1> QED
  BY <1>1, <1>2, <1>3, AnsweredStep

\* A product is deleted.
LEMMA DeletedStep ==
    ASSUME TypeOK, DeviceInv, UNCHANGED patient, NEW e \in Editors, calls[e] # <<>>,
           NEW c, c = Head(calls[e]), Deleted(e, c)
    PROVE  TypeOK' /\ DeviceInv' /\ Step(e)
<1>1. c.n \in Time
  BY FirstCall, CallParts
<1>2. toasts' \subseteq Time
  BY <1>1 DEF Deleted, TypeOK
<1> QED
  BY <1>2, UnattendedStep DEF Deleted

\* A row is stored whose import is gone.
LEMMA RowKeptStep ==
    ASSUME TypeOK, DeviceInv, UNCHANGED patient, NEW e \in Editors, calls[e] # <<>>,
           NEW c, c = Head(calls[e]), RowKept(e, c)
    PROVE  TypeOK' /\ DeviceInv' /\ Step(e)
<1>1. toasts' \subseteq Time
  BY DEF RowKept, TypeOK
<1> QED
  BY <1>1, UnattendedStep DEF RowKept

\* A row is stored.
LEMMA RowAddedStep ==
    ASSUME TypeOK, DeviceInv, UNCHANGED patient, NEW e \in Editors, calls[e] # <<>>,
           NEW c, c = Head(calls[e]), RowAdded(e, c)
    PROVE  TypeOK' /\ DeviceInv' /\ Step(e)
<1> DEFINE q == calls[e]
           d == dialog[e]
           rs == Tail(rows[e])
<1>1. /\ Effect(c) /\ c.call = "add" /\ "app" \in c.mounted /\ UNCHANGED <<clock, inDoubt, toasts>>
      /\ rows' = [rows EXCEPT ![e] = rs]
  BY DEF RowAdded
<1>2. q \in Seq(Call) /\ q # <<>> /\ Importing(q[1]) /\ 1 \in 1 .. Len(q)
  BY <1>1, FirstCall, Here DEF Importing
<1>3. rows[e] # <<>> /\ rows[e] \in Seq(Time)
  BY <1>2, Here DEF Attached
<1>4. /\ rs \in Seq(Time) /\ Len(rs) \in Nat /\ Len(rs) = Len(rows[e]) - 1
      /\ \A i \in 1 .. Len(rs) : rs[i] = rows[e][i + 1] /\ i + 1 \in 1 .. Len(rows[e])
  BY <1>3
<1> HIDE DEF rs
<1>5. rows'[e] = rs
  BY <1>1 DEF TypeOK
<1>6. RowsFrom(e)
  <2>1. \A i \in 1 .. Len(rs) : \E j \in 1 .. Len(rows[e]) : rs[i] = rows[e][j]
    BY <1>4
  <2>2. clock' \in 0 .. MaxTime /\ clock <= clock'
    BY <1>1 DEF TypeOK
  <2> QED
    BY <1>5, <2>1, <2>2 DEF RowsFrom
<1>7. Served(e, 2)
  BY <1>1 DEF Served, TypeOK
<1>8. "dialog" \notin c.mounted
  BY <1>1, NotOwnCall
<1>9. CASE /\ rs # <<>> /\ calls' = [calls EXCEPT ![e] = Append(Tail(q), AddRow(rows[e][2]))]
           /\ UNCHANGED <<page, dialog, leaving, alert>>
  <2> DEFINE a == AddRow(rows[e][2])
  <2>1. 1 \in 1 .. Len(rs) /\ rs[1] = rows[e][2] /\ rs[1] \in Time
    BY <1>4, <1>9
  <2>2. a \in Call
    BY <2>1 DEF AddRow, Call, Parts
  <2>3. a.call = "add" /\ a.n = rs[1] /\ a.mounted = {"app"}
    BY <2>1 DEF AddRow
  <2>4. calls' = [calls EXCEPT ![e] = Append(Tail(q), a)]
    BY <1>9
  <2> HIDE DEF a
  <2>5. NewCall(e, a)
    BY <1>5, <2>1, <2>2, <2>3 DEF NewCall
  <2>6. Thinned(Tail(q), q, 2, {}) /\ Awaiting(d, Tail(q)) /\ Alike(d, d)
    BY <1>8, FirstCall, OthersAwait
  <2>7. Turns(e, page[e], d, rs, alert[e], Append(Tail(q), a))
    BY <1>1, <1>4, <1>9, <2>4, Here DEF Turns
  <2>8. d # NoDialog /\ d.kind \in {"update", "price"} => page[e] # List
    BY Here DEF Attached
  <2>9. Fitting(e, page[e], d, rs, Tail(q), 2, {})
    BY <1>6, <1>7, <1>9, <2>6, <2>8 DEF Fitting
  <2>10. Belongs(e, page[e], d, rs, Tail(q), 2, a)
    BY <1>2, <1>9, <2>3, <2>5, <2>6 DEF Belongs
  <2> QED
    BY <2>2, <2>7, <2>9, <2>10, DeviceSend
<1>10. CASE Pop(e, page, dialog, Tail(q))
  <2>1. /\ page[e] \in Page /\ page = [page EXCEPT ![e] = page[e]]
        /\ d \in Dialog /\ dialog = [dialog EXCEPT ![e] = d] /\ Tail(q) \in Seq(Call)
    BY <1>2, Here
  <2>2. Pop(e, [page EXCEPT ![e] = page[e]], [dialog EXCEPT ![e] = d], Tail(q))
    BY <1>10, <2>1
  <2>3. Popped(e, page[e], d, Tail(q))
    BY <2>1, <2>2, PopChanges
  <2>4. GoesOn(d, e)
    BY <1>8, OthersAwait
  <2> QED
    BY <1>1, <1>2, <1>4, <1>6, <1>7, <2>1, <2>3, <2>4, PoppedStep
<1> QED
  BY <1>9, <1>10 DEF RowAdded, rs

\* The answer of a write is lost.
LEMMA UnansweredStep ==
    ASSUME TypeOK, DeviceInv, UNCHANGED patient, NEW e \in Editors, Unanswered(e)
    PROVE  TypeOK' /\ DeviceInv' /\ Step(e)
<1> DEFINE q == calls[e]
<1>1. Served(e, 1)
  BY DEF Unanswered, Served, TypeOK
<1>2. RowsFrom(e)
  BY DEF Unanswered, RowsFrom, TypeOK
<1>3. Thinned(q, q, 1, {})
  BY Here, SelfThinned
<1>4. Turns(e, page[e], dialog[e], rows[e], alert[e], q)
  BY Here DEF Turns, Unanswered
<1>5. dialog[e] # NoDialog /\ dialog[e].kind \in {"update", "price"} => page[e] # List
  BY Here DEF Attached
<1>6. Alike(dialog[e], dialog[e])
  BY DEF Alike
<1>7. Fitting(e, page[e], dialog[e], rows[e], q, 1, {})
  BY <1>1, <1>2, <1>3, <1>5, <1>6 DEF Fitting
<1> QED
  BY <1>4, <1>7, Here, DeviceMove

----------------------------------------------------------------------------
(* The results about the devices.                                          *)

\* Every step is the step of a device.
LEMMA NextStep ==
    ASSUME TypeOK, DeviceInv, Next
    PROVE  TypeOK' /\ DeviceInv' /\ \E e \in Editors : Step(e)
<1> UNCHANGED patient
  BY DEF Next
<1>1. PICK e \in Editors :
           \/ \E d \in DOMAIN View(e) : OpenProduct(e, d)
           \/ Back(e)
           \/ \E kept \in BOOLEAN : Restart(e, kept)
           \/ Refresh(e)
           \/ Delete(e)
           \/ AddNewItem(e)
           \/ UpdateItem(e)
           \/ \E v \in Details \cup {Blank} : Type(e, v)
           \/ Done(e)
           \/ Cancel(e)
           \/ Left(e)
           \/ \E c \in Customers : AskPrice(e, c) \/ Dismiss(e, c)
           \/ \E p \in Prices : OkPrice(e, p)
           \/ OkPriceEmpty(e)
           \/ \E k \in 1 .. MaxRows : Import(e, k)
           \/ CancelPick(e)
           \/ DismissAlert(e)
           \/ Answer(e)
           \/ Unanswered(e)
  BY DEF Next
<1> SUFFICES TypeOK' /\ DeviceInv' /\ Step(e)
  OBVIOUS
<1>2. CASE \E d \in DOMAIN View(e) : OpenProduct(e, d)
  BY <1>2, OpenProductStep
<1>3. CASE \E kept \in BOOLEAN : Restart(e, kept)
  BY <1>3, RestartStep
<1>4. CASE Back(e) \/ Refresh(e) \/ Delete(e)
  BY <1>4, BackStep, RefreshStep, DeleteStep
<1>5. CASE AddNewItem(e) \/ UpdateItem(e) \/ (\E v \in Details \cup {Blank} : Type(e, v))
  BY <1>5, AddNewItemStep, UpdateItemStep, TypeStep
<1>6. CASE Done(e) \/ Cancel(e) \/ Left(e) \/ OkPriceEmpty(e) \/ (\E p \in Prices : OkPrice(e, p))
  BY <1>6, DoneStep, CancelStep, LeftStep, OkPriceEmptyStep, OkPriceStep
<1>7. CASE \E c \in Customers : AskPrice(e, c) \/ Dismiss(e, c)
  BY <1>7, AskPriceStep, DismissStep
<1>8. CASE \E k \in 1 .. MaxRows : Import(e, k)
  BY <1>8, ImportStep
<1>9. CASE CancelPick(e) \/ DismissAlert(e)
  BY <1>9, AlertStep
<1>10. CASE Unanswered(e)
  BY <1>10, UnansweredStep
<1>11. CASE Answer(e)
  <2> DEFINE c == Head(calls[e])
  <2>1. /\ calls[e] # <<>>
        /\ \/ Created(e, c) \/ Updated(e, c) \/ PriceSet(e, c) \/ Dismissed(e, c)
           \/ NotFound(e, c) \/ Reloaded(e, c) \/ Deleted(e, c) \/ RowAdded(e, c) \/ RowKept(e, c)
    BY <1>11 DEF Answer
  <2>2. CASE Created(e, c) \/ Updated(e, c) \/ PriceSet(e, c) \/ Dismissed(e, c) \/ NotFound(e, c)
    BY <2>1, <2>2, CreatedStep, UpdatedStep, PriceSetStep, DismissedStep, NotFoundStep
  <2>3. CASE Reloaded(e, c) \/ Deleted(e, c) \/ RowAdded(e, c) \/ RowKept(e, c)
    BY <2>1, <2>3, ReloadedStep, DeletedStep, RowAddedStep, RowKeptStep
  <2> QED
    BY <2>1, <2>2, <2>3
<1> QED
  BY <1>1, <1>2, <1>3, <1>4, <1>5, <1>6, <1>7, <1>8, <1>9, <1>10, <1>11

\* The two parts of the invariant that speak of one device each.
LEMMA DevicesInductive ==
    Spec => [](TypeOK /\ DeviceInv)
<1>1. Init => TypeOK /\ DeviceInv
  <2> SUFFICES ASSUME Init PROVE TypeOK /\ DeviceInv
    OBVIOUS
  <2>1. DOMAIN products = {} /\ products \in [DOMAIN products -> ProductModel]
    BY DEF Init
  <2>2. /\ clock \in 0 .. MaxTime /\ patient \in BOOLEAN
        /\ gone = {} /\ inDoubt = {} /\ toasts = {}
    BY BoundsAssumption, PatienceAssumption DEF Init
  <2>3. /\ page \in [Editors -> Page] /\ dialog \in [Editors -> Dialog]
        /\ rows \in [Editors -> Seq(Time)] /\ calls \in [Editors -> Seq(Call)]
        /\ alert \in [Editors -> BOOLEAN] /\ leaving \in [Editors -> Form]
    BY DEF Init, Page, List, Dialog, NoDialog, Form, NoForm
  <2>4. TypeOK
    BY <2>1, <2>2, <2>3 DEF TypeOK
  <2>5. ASSUME NEW e \in Editors
        PROVE  Attached(page[e], dialog[e], rows[e], calls[e]) /\ Awaiting(dialog[e], calls[e])
    <3>1. page[e] = List /\ dialog[e] = NoDialog /\ rows[e] = <<>> /\ calls[e] = <<>>
      BY DEF Init
    <3>2. Len(calls[e]) = 0 /\ \A i \in 1 .. 0 : FALSE
      BY <3>1
    <3> QED
      BY <3>1, <3>2 DEF Attached, Awaiting
  <2> QED
    BY <2>4, <2>5 DEF DeviceInv
<1>2. TypeOK /\ DeviceInv /\ [Next]_vars => (TypeOK /\ DeviceInv)'
  <2> SUFFICES ASSUME TypeOK, DeviceInv, [Next]_vars PROVE TypeOK' /\ DeviceInv'
    OBVIOUS
  <2>1. CASE Next
    BY <2>1, NextStep
  <2>2. CASE UNCHANGED vars
    BY <2>2 DEF vars, TypeOK, DeviceInv
  <2> QED
    BY <2>1, <2>2
<1> QED
  BY <1>1, <1>2, PTL DEF Spec

\* Every variable of the catalogue keeps its type, whatever is pressed while calls
\* are under way, answered late, sent again or dropped by a restart.
THEOREM ProductsTypeCorrect == Spec => []TypeOK
<1>1. TypeOK /\ DeviceInv => TypeOK
  OBVIOUS
<1> QED
  BY <1>1, DevicesInductive, PTL

----------------------------------------------------------------------------
(* What an administrator who waits for the answers can rely on.            *)

\* None of the calls q belongs to a dialog.
Plain(q) ==
    \A i \in 1 .. Len(q) : "dialog" \notin q[i].mounted /\ "leaving" \notin q[i].mounted

\* No dialog is on its way out, and the call of a dialog is the only one under way,
\* with no alert on top.
Calm(q, al) ==
    /\ \A i \in 1 .. Len(q) : "leaving" \notin q[i].mounted
    /\ \A i \in 1 .. Len(q) : "dialog" \in q[i].mounted => Len(q) = 1 /\ ~al

PatientInv == patient => \A e \in Editors : Calm(calls[e], alert[e])

\* The step of device e leaves it so.
Calmed(e) ==
    \E r, al : /\ calls' = [calls EXCEPT ![e] = r] /\ alert' = [alert EXCEPT ![e] = al]
               /\ Calm(r, al)

\* When its own answer is there, no other call of a dialog is under way.
LEMMA PlainTail ==
    ASSUME NEW q \in Seq(Call), q # <<>>, NEW al, Calm(q, al)
    PROVE  Plain(Tail(q)) /\ Tail(q) \in Seq(Call)
<1>1. /\ Tail(q) \in Seq(Call) /\ Len(Tail(q)) = Len(q) - 1 /\ Len(q) \in Nat
      /\ \A i \in 1 .. Len(Tail(q)) : Tail(q)[i] = q[i + 1] /\ i + 1 \in 1 .. Len(q)
  OBVIOUS
<1> DEFINE t == Tail(q)
<1> HIDE DEF t
<1>2. ASSUME NEW i \in 1 .. Len(t) PROVE "dialog" \notin t[i].mounted /\ "leaving" \notin t[i].mounted
  <2>1. t[i] = q[i + 1] /\ i + 1 \in 1 .. Len(q) /\ Len(q) # 1
    BY <1>1 DEF t
  <2> QED
    BY <2>1 DEF Calm
<1> QED
  BY <1>1, <1>2 DEF Plain, t

\* Calls of no dialog remain so when something is closed.
LEMMA PlainUnmount ==
    ASSUME NEW q \in Seq(Call), Plain(q)
    PROVE  Plain(Closing(q)) /\ \A parts : Plain(Unmount(q, parts))
<1>1. Len(q) \in Nat /\ DOMAIN q = 1 .. Len(q) /\ \A i \in 1 .. Len(q) : q[i] \in Call
  OBVIOUS
<1>2. \A c \in Call : \A on : [c EXCEPT !.mounted = on].mounted = on
  BY DEF Call
<1>3. Plain(Closing(q))
  <2> DEFINE On(c) == (c.mounted \ {"dialog", "leaving"})
                      \cup (IF "dialog" \in c.mounted THEN {"leaving"} ELSE {})
             r == Closing(q)
  <2>1. r = [i \in 1 .. Len(q) |-> [q[i] EXCEPT !.mounted = On(q[i])]]
    BY <1>1 DEF Closing
  <2>2. Len(r) = Len(q) /\ \A i \in 1 .. Len(q) : r[i] = [q[i] EXCEPT !.mounted = On(q[i])]
    BY <1>1, <2>1
  <2>4. \A i \in 1 .. Len(q) : "dialog" \notin On(q[i]) /\ "leaving" \notin On(q[i])
    BY DEF Plain
  <2> HIDE DEF r, On
  <2>3. ASSUME NEW i \in 1 .. Len(q) PROVE r[i].mounted = On(q[i])
    <3>1. q[i] \in Call /\ r[i] = [q[i] EXCEPT !.mounted = On(q[i])]
      BY <1>1, <2>2
    <3> QED
      BY <1>2, <3>1
  <2> QED
    BY <2>2, <2>3, <2>4 DEF Plain, r
<1>4. ASSUME NEW parts PROVE Plain(Unmount(q, parts))
  <2> DEFINE r == Unmount(q, parts)
  <2>1. r = [i \in 1 .. Len(q) |-> [q[i] EXCEPT !.mounted = q[i].mounted \ parts]]
    BY <1>1 DEF Unmount
  <2>2. Len(r) = Len(q)
        /\ \A i \in 1 .. Len(q) : r[i] = [q[i] EXCEPT !.mounted = q[i].mounted \ parts]
    BY <1>1, <2>1
  <2> HIDE DEF r
  <2>3. ASSUME NEW i \in 1 .. Len(q) PROVE r[i].mounted = q[i].mounted \ parts
    <3> DEFINE on == q[i].mounted \ parts
    <3>1. q[i] \in Call /\ r[i] = [q[i] EXCEPT !.mounted = on]
      BY <1>1, <2>2
    <3> HIDE DEF on
    <3>2. r[i].mounted = on
      BY <1>2, <3>1
    <3> QED
      BY <3>2 DEF on
  <2> QED
    BY <2>2, <2>3 DEF Plain, r
<1> QED
  BY <1>3, <1>4

\* They remain so when a call of no dialog is made.
LEMMA PlainAppend ==
    ASSUME NEW q \in Seq(Call), Plain(q), NEW c \in Call,
           "dialog" \notin c.mounted, "leaving" \notin c.mounted
    PROVE  Plain(Append(q, c)) /\ Append(q, c) \in Seq(Call)
<1>1. /\ Len(q) \in Nat /\ Len(Append(q, c)) = Len(q) + 1 /\ Append(q, c)[Len(q) + 1] = c
      /\ \A i \in 1 .. Len(q) : Append(q, c)[i] = q[i]
      /\ \A i \in 1 .. Len(q) + 1 : i \in 1 .. Len(q) \/ i = Len(q) + 1
  OBVIOUS
<1> DEFINE s == Append(q, c)
<1>2. s \in Seq(Call)
  OBVIOUS
<1> HIDE DEF s
<1>3. \A i \in 1 .. Len(q) + 1 : "dialog" \notin s[i].mounted /\ "leaving" \notin s[i].mounted
  BY <1>1 DEF Plain, s
<1> QED
  BY <1>1, <1>2, <1>3 DEF Plain, s

\* A pop leaves calls of no dialog.
LEMMA PlainPop ==
    ASSUME TypeOK, NEW e \in Editors, NEW q \in Seq(Call), Plain(q), NEW pages, NEW dialogs,
           Pop(e, pages, dialogs, q)
    PROVE  Calmed(e)
<1>1. ASSUME NEW r, Plain(r), calls' = [calls EXCEPT ![e] = r]
      PROVE  Calmed(e)
  <2>1. PICK al : alert' = [alert EXCEPT ![e] = al]
    <3>1. alert = [alert EXCEPT ![e] = alert[e]]
      BY DEF TypeOK
    <3> QED
      BY <3>1 DEF Pop
  <2>2. Calm(r, al)
    BY <1>1 DEF Plain, Calm
  <2> QED
    BY <1>1, <2>1, <2>2 DEF Calmed
<1>2. Plain(Closing(q)) /\ Plain(Unmount(q, {"page"}))
  BY PlainUnmount
<1>3. \/ calls' = [calls EXCEPT ![e] = q]
      \/ calls' = [calls EXCEPT ![e] = Closing(q)]
      \/ calls' = [calls EXCEPT ![e] = Unmount(q, {"page"})]
  BY DEF Pop, CloseDialog
<1> QED
  BY <1>1, <1>2, <1>3

\* No call of an administrator who waits is under way when a button is pressed.
LEMMA CalmPress ==
    ASSUME TypeOK, patient, NEW e \in Editors, Ready(e)
    PROVE  /\ calls[e] = <<>> /\ ~alert[e] /\ alert = [alert EXCEPT ![e] = alert[e]]
           /\ Closing(calls[e]) = <<>> /\ \A parts : Unmount(calls[e], parts) = <<>>
           /\ \A al : Calm(<<>>, al)
           /\ \A c, al : "leaving" \notin c.mounted /\ ("dialog" \in c.mounted => ~al)
                             => Calm(Append(<<>>, c), al)
<1>1. calls[e] = <<>> /\ ~alert[e] /\ alert = [alert EXCEPT ![e] = alert[e]]
  BY DEF Ready, TypeOK
<1>2. DOMAIN <<>> = {} /\ Len(<<>>) = 0
  OBVIOUS
<1>3. Closing(<<>>) = <<>> /\ \A parts : Unmount(<<>>, parts) = <<>>
  BY <1>2 DEF Closing, Unmount
<1>4. \A al : Calm(<<>>, al)
  BY <1>2 DEF Calm
<1>5. ASSUME NEW c, NEW al, "leaving" \notin c.mounted, "dialog" \in c.mounted => ~al
      PROVE  Calm(Append(<<>>, c), al)
  <2> DEFINE s == Append(<<>>, c)
  <2>1. Len(s) = 1 /\ s[1] = c /\ \A i \in 1 .. 1 : i = 1
    OBVIOUS
  <2> HIDE DEF s
  <2> QED
    BY <1>5, <2>1 DEF Calm, s
<1> QED
  BY <1>1, <1>3, <1>4, <1>5

\* Nothing is sent, nor an alert shown.
LEMMA CalmStays ==
    ASSUME TypeOK, PatientInv, patient, NEW e \in Editors, calls' = calls,
           alert' = alert \/ alert' = [alert EXCEPT ![e] = FALSE]
    PROVE  Calmed(e)
<1>1. /\ calls = [calls EXCEPT ![e] = calls[e]] /\ alert = [alert EXCEPT ![e] = alert[e]]
      /\ Calm(calls[e], alert[e])
  BY DEF TypeOK, PatientInv
<1>2. Calm(calls[e], FALSE)
  BY <1>1 DEF Calm
<1>3. CASE alert' = alert
  BY <1>1, <1>3 DEF Calmed
<1>4. CASE alert' = [alert EXCEPT ![e] = FALSE]
  BY <1>1, <1>2, <1>4 DEF Calmed
<1> QED
  BY <1>3, <1>4

\* A press.
LEMMA CalmPressed ==
    ASSUME TypeOK, DeviceInv, patient, NEW e \in Editors,
           \/ Back(e) \/ Refresh(e) \/ Delete(e) \/ Done(e) \/ Cancel(e) \/ CancelPick(e)
           \/ \E c \in Customers : Dismiss(e, c)
           \/ \E p \in Prices : OkPrice(e, p)
           \/ \E k \in 1 .. MaxRows : Import(e, k)
    PROVE  Calmed(e)
<1>1. Ready(e)
  BY DEF Back, Refresh, Delete, Done, Cancel, CancelPick, Dismiss, OkPrice, Import, Free
<1>2. "leaving" \notin Mounted(e)
  BY DEF Mounted
<1>3. ASSUME calls' = [calls EXCEPT ![e] = <<>>],
             alert' = alert \/ alert' = [alert EXCEPT ![e] = TRUE]
      PROVE  Calmed(e)
  BY <1>1, <1>3, CalmPress DEF Calmed
<1>4. ASSUME NEW c, "leaving" \notin c.mounted, calls' = [calls EXCEPT ![e] = Append(<<>>, c)],
             \/ alert' = alert
             \/ alert' = [alert EXCEPT ![e] = TRUE] /\ "dialog" \notin c.mounted
      PROVE  Calmed(e)
  <2>1. PICK al : alert' = [alert EXCEPT ![e] = al] /\ ("dialog" \in c.mounted => ~al)
    BY <1>1, <1>4, CalmPress
  <2>2. Calm(Append(<<>>, c), al)
    BY <1>1, <1>4, <2>1, CalmPress
  <2> QED
    BY <1>4, <2>1, <2>2 DEF Calmed
<1>5. CASE Back(e) \/ Cancel(e)
  BY <1>1, <1>3, <1>5, CalmPress DEF Back, Cancel, CloseDialog
<1>6. CASE CancelPick(e)
  <2>1. calls' = [calls EXCEPT ![e] = calls[e]] /\ alert' = [alert EXCEPT ![e] = TRUE]
    BY <1>6, Here DEF CancelPick
  <2> QED
    BY <1>1, <1>3, <2>1, CalmPress
<1>7. CASE Refresh(e)
  <2> DEFINE c == [call |-> "get", n |-> page[e].model.id, mounted |-> Mounted(e)]
  <2>1. calls' = [calls EXCEPT ![e] = Append(<<>>, c)] /\ alert' = alert
    BY <1>1, <1>7, CalmPress DEF Refresh, Send
  <2>2. "leaving" \notin c.mounted
    BY <1>2
  <2> HIDE DEF c
  <2> QED
    BY <1>4, <2>1, <2>2
<1>8. CASE Delete(e)
  <2> DEFINE c == [call |-> "delete", n |-> page[e].model.id, mounted |-> {"app"}]
  <2>1. calls' = [calls EXCEPT ![e] = Append(<<>>, c)] /\ alert' = alert
    BY <1>1, <1>8, CalmPress DEF Delete
  <2>2. "leaving" \notin c.mounted
    OBVIOUS
  <2> HIDE DEF c
  <2> QED
    BY <1>4, <2>1, <2>2
<1>9. CASE Done(e)
  <2> DEFINE C(call, n) == [call |-> call, n |-> n, details |-> dialog[e].text,
                            mounted |-> Mounted(e)]
  <2>1. PICK call, n : calls' = [calls EXCEPT ![e] = Append(<<>>, C(call, n))]
    BY <1>1, <1>9, CalmPress DEF Done, Send
  <2>2. alert' = alert
    BY <1>9 DEF Done
  <2> DEFINE c == C(call, n)
  <2>3. "leaving" \notin c.mounted /\ calls' = [calls EXCEPT ![e] = Append(<<>>, c)]
    BY <1>2, <2>1
  <2> HIDE DEF c
  <2> QED
    BY <1>4, <2>2, <2>3
<1>10. CASE \E cu \in Customers : Dismiss(e, cu)
  <2>1. PICK cu \in Customers : Dismiss(e, cu)
    BY <1>10
  <2> DEFINE c == [call |-> "dismiss", n |-> page[e].model.id, customer |-> cu,
                   price |-> NoPrice, mounted |-> Mounted(e)]
  <2>2. calls' = [calls EXCEPT ![e] = Append(<<>>, c)] /\ alert' = alert
    BY <1>1, <2>1, CalmPress DEF Dismiss, SetSpecialPrice, Send
  <2>3. "leaving" \notin c.mounted
    BY <1>2
  <2> HIDE DEF c
  <2> QED
    BY <1>4, <2>2, <2>3
<1>11. CASE \E p \in Prices : OkPrice(e, p)
  <2>1. PICK p \in Prices : OkPrice(e, p)
    BY <1>11
  <2> DEFINE c == [call |-> "price", n |-> page[e].model.id, customer |-> dialog[e].customer,
                   price |-> p, mounted |-> Mounted(e)]
  <2>2. calls' = [calls EXCEPT ![e] = Append(<<>>, c)] /\ alert' = alert
    BY <1>1, <2>1, CalmPress DEF OkPrice, SetSpecialPrice, Send
  <2>3. "leaving" \notin c.mounted
    BY <1>2
  <2> HIDE DEF c
  <2> QED
    BY <1>4, <2>2, <2>3
<1>12. CASE \E k \in 1 .. MaxRows : Import(e, k)
  <2> DEFINE c == AddRow(clock + 1)
  <2>1. calls' = [calls EXCEPT ![e] = Append(<<>>, c)] /\ alert' = [alert EXCEPT ![e] = TRUE]
    BY <1>1, <1>12, CalmPress DEF Import, Send
  <2>2. "leaving" \notin c.mounted /\ "dialog" \notin c.mounted
    BY DEF AddRow
  <2> HIDE DEF c
  <2> QED
    BY <1>4, <2>1, <2>2
<1> QED
  BY <1>5, <1>6, <1>7, <1>8, <1>9, <1>10, <1>11, <1>12

\* The application starts again.
LEMMA CalmRestart ==
    ASSUME TypeOK, DeviceInv, NEW e \in Editors, NEW kept \in BOOLEAN, Restart(e, kept)
    PROVE  Calmed(e)
<1> DEFINE k == FoldLeft(Keep, <<>>, calls[e])
           r == IF kept THEN Unmount(k, Parts) ELSE <<>>
<1>1. calls' = [calls EXCEPT ![e] = r] /\ alert' = [alert EXCEPT ![e] = FALSE]
  BY DEF Restart
<1>2. k \in Seq(Call)
  BY Here, KeptPicked DEF Picked
<1> HIDE DEF k
<1>3. Plain(r)
  <2>1. CASE kept
    <3>1. Len(k) \in Nat /\ DOMAIN k = 1 .. Len(k) /\ \A i \in 1 .. Len(k) : k[i] \in Call
      BY <1>2
    <3>2. r = [i \in 1 .. Len(k) |-> [k[i] EXCEPT !.mounted = k[i].mounted \ Parts]]
      BY <2>1, <3>1 DEF Unmount
    <3> HIDE DEF r
    <3>3. \A c \in Call : [c EXCEPT !.mounted = c.mounted \ Parts].mounted = c.mounted \ Parts
      BY DEF Call
    <3>4. /\ Len(r) = Len(k)
          /\ \A i \in 1 .. Len(k) : r[i] = [k[i] EXCEPT !.mounted = k[i].mounted \ Parts]
      BY <3>1, <3>2
    <3>5. \A i \in 1 .. Len(k) : r[i].mounted = k[i].mounted \ Parts
      BY <3>1, <3>3, <3>4
    <3> QED
      BY <3>4, <3>5 DEF Plain, Parts
  <2>2. CASE ~kept
    <3>1. r = <<>> /\ Len(<<>>) = 0
      BY <2>2
    <3> HIDE DEF r
    <3> QED
      BY <3>1 DEF Plain
  <2> QED
    BY <2>1, <2>2
<1> HIDE DEF r
<1>4. Calm(r, FALSE)
  BY <1>3 DEF Plain, Calm
<1> QED
  BY <1>1, <1>4 DEF Calmed

\* An answer.
LEMMA CalmAnswer ==
    ASSUME TypeOK, DeviceInv, PatientInv, patient, NEW e \in Editors, Answer(e)
    PROVE  Calmed(e)
<1> DEFINE c == Head(calls[e])
           t == Tail(calls[e])
<1>1. /\ calls[e] # <<>> /\ calls[e] \in Seq(Call) /\ Calm(calls[e], alert[e]) /\ c \in Call
      /\ rows[e] \in Seq(Time) /\ alert = [alert EXCEPT ![e] = alert[e]]
  BY Here DEF Answer, PatientInv
<1>2. Plain(t) /\ t \in Seq(Call)
  BY <1>1, PlainTail
<1>3. ASSUME NEW r, Plain(r), calls' = [calls EXCEPT ![e] = r],
             \E al : alert' = [alert EXCEPT ![e] = al]
      PROVE  Calmed(e)
  BY <1>3 DEF Plain, Calm, Calmed
<1>4. ASSUME NEW pages, NEW more, Close(e, c, pages, more), t \o more \in Seq(Call), Plain(t \o more)
      PROVE  Calmed(e)
  <2>1. CASE Pop(e, pages, Ended(e, c), t \o more)
    BY <1>4, <2>1, PlainPop
  <2>2. CASE calls' = [calls EXCEPT ![e] = t \o more] /\ UNCHANGED alert
    BY <1>1, <1>3, <1>4, <2>2
  <2> QED
    BY <1>4, <2>1, <2>2 DEF Close
<1>5. t \o <<>> = t /\ \A g \in Call : t \o <<g>> = Append(t, g)
  BY <1>2
<1>6. /\ t \o <<>> \in Seq(Call) /\ Plain(t \o <<>>)
  BY <1>2, <1>5
<1>7. c.n \in Time /\ c.mounted \in SUBSET Parts
  BY <1>1, CallParts
<1> HIDE DEF c, t
<1>8. CASE Created(e, c)
  BY <1>4, <1>6, <1>8 DEF Created
<1>9. CASE Updated(e, c)
  <2>1. EndUpdate(e, c)
    BY <1>9 DEF Updated
  <2>2. CASE Close(e, c, CopyBack(e, c), <<>>)
    BY <1>4, <1>6, <2>2
  <2>3. CASE calls' = [calls EXCEPT ![e] = t] /\ UNCHANGED alert
    BY <1>1, <1>2, <1>3, <2>3
  <2> QED
    BY <2>1, <2>2, <2>3 DEF EndUpdate, t
<1>10. CASE PriceSet(e, c)
  <2> DEFINE g == [call |-> "get", n |-> c.n, mounted |-> c.mounted \cap {"page", "app"}]
  <2>1. Close(e, c, page, <<>>) \/ Close(e, c, page, <<g>>)
    BY <1>10 DEF PriceSet
  <2>2. g \in Call /\ "dialog" \notin g.mounted /\ "leaving" \notin g.mounted
    BY <1>7 DEF Call
  <2> HIDE DEF g
  <2>3. t \o <<g>> \in Seq(Call) /\ Plain(t \o <<g>>)
    BY <1>2, <1>5, <2>2, PlainAppend
  <2> QED
    BY <1>4, <1>6, <2>1, <2>3
<1>11. CASE Dismissed(e, c) \/ NotFound(e, c) \/ Reloaded(e, c) \/ Deleted(e, c) \/ RowKept(e, c)
  <2>1. calls' = [calls EXCEPT ![e] = t]
    BY <1>11 DEF Dismissed, NotFound, Reloaded, Deleted, RowKept, t
  <2>2. \E al : alert' = [alert EXCEPT ![e] = al]
    BY <1>1, <1>11 DEF Dismissed, NotFound, Reloaded, Deleted, RowKept
  <2> QED
    BY <1>2, <1>3, <2>1, <2>2
<1>12. CASE RowAdded(e, c)
  <2>1. CASE Pop(e, page, dialog, t)
    BY <1>2, <2>1, PlainPop
  <2>2. CASE /\ Tail(rows[e]) # <<>> /\ UNCHANGED alert
             /\ calls' = [calls EXCEPT ![e] = Append(t, AddRow(rows[e][2]))]
    <3> DEFINE a == AddRow(rows[e][2])
    <3>0. rows[e] # <<>>
      BY <1>12, FirstCall, Here DEF RowAdded, Attached, Importing, Answer, c
    <3>1. rows[e][2] \in Time
      <4> DEFINE rs == Tail(rows[e])
      <4>1. rs \in Seq(Time) /\ \A i \in 1 .. Len(rs) : rs[i] = rows[e][i + 1]
        BY <1>1, <3>0
      <4>2. rs # <<>>
        BY <2>2
      <4> HIDE DEF rs
      <4>3. 1 \in 1 .. Len(rs) /\ rs[1] \in Time
        BY <4>1, <4>2
      <4>4. rs[1] = rows[e][2]
        BY <4>1, <4>3
      <4> QED
        BY <4>3, <4>4
    <3>2. a \in Call
      BY <3>1 DEF AddRow, Call, Parts
    <3>3. a.mounted = {"app"}
      BY DEF AddRow
    <3>4. calls' = [calls EXCEPT ![e] = Append(t, a)]
      BY <2>2
    <3> HIDE DEF a
    <3>5. Plain(Append(t, a))
      BY <1>2, <3>2, <3>3, PlainAppend
    <3> QED
      BY <1>1, <1>3, <2>2, <3>4, <3>5
  <2> QED
    BY <1>12, <2>1, <2>2 DEF RowAdded, t
<1> QED
  BY <1>8, <1>9, <1>10, <1>11, <1>12 DEF Answer, c

\* What the devices have to do with each other, and what waiting buys.
LEMMA PatientInductive ==
    Spec => [](TypeOK /\ DeviceInv /\ PatientInv)
<1>1. Init => PatientInv
  <2> SUFFICES ASSUME Init, NEW e \in Editors PROVE Calm(calls[e], alert[e])
    BY DEF PatientInv
  <2>1. calls[e] = <<>> /\ Len(<<>>) = 0
    BY DEF Init
  <2> QED
    BY <2>1 DEF Calm
<1>2. TypeOK /\ DeviceInv /\ PatientInv /\ [Next]_vars => PatientInv'
  <2> SUFFICES ASSUME TypeOK, DeviceInv, PatientInv, [Next]_vars PROVE PatientInv'
    OBVIOUS
  <2>1. CASE UNCHANGED vars
    BY <2>1 DEF vars, PatientInv
  <2>2. CASE Next
    <3> SUFFICES ASSUME patient PROVE PatientInv'
      BY <2>2 DEF Next, PatientInv
    <3>1. PICK e \in Editors :
               \/ \E d \in DOMAIN View(e) : OpenProduct(e, d)
               \/ Back(e)
               \/ \E kept \in BOOLEAN : Restart(e, kept)
               \/ Refresh(e)
               \/ Delete(e)
               \/ AddNewItem(e)
               \/ UpdateItem(e)
               \/ \E v \in Details \cup {Blank} : Type(e, v)
               \/ Done(e)
               \/ Cancel(e)
               \/ Left(e)
               \/ \E c \in Customers : AskPrice(e, c) \/ Dismiss(e, c)
               \/ \E p \in Prices : OkPrice(e, p)
               \/ OkPriceEmpty(e)
               \/ \E k \in 1 .. MaxRows : Import(e, k)
               \/ CancelPick(e)
               \/ DismissAlert(e)
               \/ Answer(e)
               \/ Unanswered(e)
      BY <2>2 DEF Next
    <3>2. Calmed(e)
      <4>1. CASE \/ \E d \in DOMAIN View(e) : OpenProduct(e, d)
                 \/ AddNewItem(e) \/ UpdateItem(e) \/ OkPriceEmpty(e)
                 \/ \E v \in Details \cup {Blank} : Type(e, v)
                 \/ \E c \in Customers : AskPrice(e, c)
                 \/ DismissAlert(e) \/ Unanswered(e)
        <5>1. calls' = calls /\ (alert' = alert \/ alert' = [alert EXCEPT ![e] = FALSE])
          BY <4>1 DEF OpenProduct, AddNewItem, UpdateItem, OkPriceEmpty, Type, AskPrice,
                      DismissAlert, Unanswered
        <5> QED
          BY <5>1, CalmStays
      <4>2. CASE \/ Back(e) \/ Refresh(e) \/ Delete(e) \/ Done(e) \/ Cancel(e) \/ CancelPick(e)
                 \/ \E c \in Customers : Dismiss(e, c)
                 \/ \E p \in Prices : OkPrice(e, p)
                 \/ \E k \in 1 .. MaxRows : Import(e, k)
        BY <4>2, CalmPressed
      <4>3. CASE \E kept \in BOOLEAN : Restart(e, kept)
        BY <4>3, CalmRestart
      <4>4. CASE Answer(e)
        BY <4>4, CalmAnswer
      <4>5. CASE Left(e)
        <5>1. PICK c \in ToSet(calls[e]) : "leaving" \in c.mounted
          BY <4>5 DEF Left
        <5>2. calls[e] \in Seq(Call) /\ Calm(calls[e], alert[e])
          BY Here DEF PatientInv
        <5>3. \E i \in 1 .. Len(calls[e]) : c = calls[e][i]
          BY <5>2 DEF ToSet
        <5> QED
          BY <5>1, <5>2, <5>3 DEF Calm
      <4> QED
        BY <3>1, <4>1, <4>2, <4>3, <4>4, <4>5
    <3>3. PICK r, al : /\ calls' = [calls EXCEPT ![e] = r] /\ alert' = [alert EXCEPT ![e] = al]
                       /\ Calm(r, al)
      BY <3>2 DEF Calmed
    <3>4. \A f \in Editors : Calm(calls'[f], alert'[f])
      BY <3>3 DEF TypeOK, PatientInv
    <3> QED
      BY <3>4 DEF PatientInv
  <2> QED
    BY <2>1, <2>2
<1>3. QED
  BY <1>1, <1>2, DevicesInductive, PTL DEF Spec

\* An answer finds the dialog its call was made from, or none; a dialog that shows
\* it is loading awaits an answer, or its code has ended and left it so; and the
\* answers of an administrator who waits close nothing but their own dialog.
THEOREM AnswersOwnDialogHolds == Spec => []AnswersOwnDialog
<1>1. ASSUME TypeOK, DeviceInv, PatientInv PROVE AnswersOwnDialog
  <2> SUFFICES ASSUME NEW e \in Editors
               PROVE  LET waiting == {c \in ToSet(calls[e]) : "dialog" \in c.mounted}
                          callOf == [new |-> "set", update |-> "update", price |-> "price"]
                      IN  /\ \A c \in waiting :
                                 /\ dialog[e] # NoDialog
                                 /\ c.call = callOf[dialog[e].kind]
                                 /\ c.call = "price" => c.customer = dialog[e].customer
                          /\ dialog[e] # NoDialog /\ dialog[e].loading
                                 => waiting # {} \/ dialog[e].stuck
                          /\ patient => /\ \A c \in ToSet(calls[e]) : "leaving" \notin c.mounted
                                        /\ waiting # {} => ~alert[e]
    BY DEF AnswersOwnDialog
  <2> DEFINE waiting == {c \in ToSet(calls[e]) : "dialog" \in c.mounted}
             callOf == [new |-> "set", update |-> "update", price |-> "price"]
             d == dialog[e]
  <2>1. /\ Attached(page[e], d, rows[e], calls[e]) /\ Awaiting(d, calls[e])
        /\ d \in Dialog /\ calls[e] \in Seq(Call)
    BY <1>1, Here
  <2>2. \A c : c \in ToSet(calls[e]) <=> \E i \in 1 .. Len(calls[e]) : c = calls[e][i]
    BY <2>1 DEF ToSet
  <2>3. callOf["new"] = "set" /\ callOf["update"] = "update" /\ callOf["price"] = "price"
    OBVIOUS
  <2> HIDE DEF callOf
  <2>4. ASSUME NEW c \in waiting
        PROVE  /\ d # NoDialog /\ c.call = callOf[d.kind]
               /\ c.call = "price" => c.customer = d.customer
    <3>1. Fits(c, d)
      BY <2>1, <2>2, <2>4 DEF Attached
    <3>2. d # NoDialog /\ d.kind \in {"new", "update", "price"}
      BY <2>1, <3>1, DialogParts DEF Fits
    <3> QED
      BY <2>3, <3>1, <3>2 DEF Fits
  <2>5. d # NoDialog /\ d.loading => waiting # {} \/ d.stuck
    BY <2>1, <2>2 DEF Awaiting
  <2>6. patient => /\ \A c \in ToSet(calls[e]) : "leaving" \notin c.mounted
                   /\ waiting # {} => ~alert[e]
    BY <1>1, <2>2 DEF PatientInv, Calm
  <2> QED
    BY <2>4, <2>5, <2>6 DEF callOf
<1> QED
  BY <1>1, PatientInductive, PTL

----------------------------------------------------------------------------
(* The results about the documents.                                        *)

\* The number n names a product that was created, or is being created.
SetNo(n) ==
    \/ DocOf(n) \in DOMAIN products \cup gone
    \/ \E e \in Editors : \E i \in 1 .. Len(calls[e]) :
          calls[e][i].call = "set" /\ calls[e][i].n = n

\* The number n belongs to a row of a sheet.
RowNo(n) ==
    \/ [auto |-> TRUE, n |-> n] \in DOMAIN products
    \/ \E e \in Editors : \E i \in 1 .. Len(calls[e]) :
          calls[e][i].call = "add" /\ calls[e][i].n = n
    \/ \E e \in Editors : \E i \in 1 .. Len(rows[e]) : rows[e][i] = n

\* A reading of the clock names one product, or one row, only.
NumbersInv ==
    /\ \A n \in Time : SetNo(n) => n <= clock /\ ~RowNo(n)
    /\ \A n \in Time : RowNo(n) => n <= clock

\* A product is created by one call, and when that is still under way though the
\* product is there or gone again, its answer was lost.
CreationInv ==
    /\ \A e, f \in Editors : \A i \in 1 .. Len(calls[e]), j \in 1 .. Len(calls[f]) :
          calls[e][i].call = "set" /\ calls[f][j].call = "set" /\ calls[e][i].n = calls[f][j].n
              => e = f /\ i = j
    /\ \A e \in Editors : \A i \in 1 .. Len(calls[e]) :
          calls[e][i].call = "set" /\ DocOf(calls[e][i].n) \in DOMAIN products \cup gone
              => DocOf(calls[e][i].n) \in inDoubt

\* A document of an import is out of reach: nothing deletes it or gives it a
\* special price.
AutoInv ==
    /\ \A d \in gone : d.auto = FALSE
    /\ \A d \in DOMAIN products : d.auto = TRUE => products[d].specialUsers = NoSpecial

IdsInv == NumbersInv /\ CreationInv /\ AutoInv /\ NotRevived

\* The calls of all devices after a step: call i of device f was at place m[f][i]
\* before, or was made in this step.
Places(e, k, m) ==
    /\ \A f \in Editors : \A i \in 1 .. Len(calls'[f]) :
          \/ m[f][i] = 0 /\ f = e /\ i = Len(calls'[e]) /\ NewCall(e, calls'[f][i])
          \/ /\ m[f][i] \in 1 .. Len(calls[f]) /\ (f = e /\ k = 2 => m[f][i] # 1)
             /\ calls'[f][i].call = calls[f][m[f][i]].call
             /\ calls'[f][i].n = calls[f][m[f][i]].n
    /\ \A f \in Editors : \A i, j \in 1 .. Len(calls'[f]) :
          m[f][i] = m[f][j] => i = j

\* Where the calls were before.
LEMMA StepPlaces ==
    ASSUME TypeOK, NEW e \in Editors, Step(e)
    PROVE  \E k \in {1, 2} : /\ Served(e, k) /\ RowsFrom(e)
                             /\ \A f \in Editors : f # e => rows'[f] = rows[f]
                             /\ \E m : Places(e, k, m)
<1>1. PICK r, k, parts : k \in {1, 2} /\ Traced(e, r, k, parts)
  BY DEF Step
<1> DEFINE q == calls[e]
<1>2. /\ Thinned(r, q, k, parts) /\ Served(e, k) /\ RowsFrom(e)
      /\ \A f \in Editors : f # e => rows'[f] = rows[f]
  BY <1>1 DEF Traced
<1>3. q \in Seq(Call) /\ r \in Seq(Call) /\ Len(q) \in Nat /\ Len(r) \in Nat /\ k \in {1, 2}
  BY <1>1, <1>2 DEF Thinned, TypeOK
<1>4. PICK a \in [1 .. Len(r) -> k .. Len(q)] :
          /\ \A i, j \in 1 .. Len(r) : a[i] = a[j] => i = j
          /\ \A i \in 1 .. Len(r) : Same(r[i], q[a[i]], parts)
  BY <1>2 DEF Thinned
<1>5. \A i \in 1 .. Len(r) : /\ a[i] \in 1 .. Len(q) /\ (k = 2 => a[i] # 1) /\ a[i] # 0
                             /\ r[i].call = q[a[i]].call /\ r[i].n = q[a[i]].n
  <2>1. \A i \in 1 .. Len(r) : a[i] \in 1 .. Len(q) /\ (k = 2 => a[i] # 1) /\ a[i] # 0
    BY <1>3, <1>4
  <2> QED
    BY <1>4, <2>1 DEF Same
<1> DEFINE n == Len(r)
           b == [i \in 1 .. n + 1 |-> IF i = n + 1 THEN 0 ELSE a[i]]
           m == [f \in Editors |-> IF f = e THEN b ELSE [i \in 1 .. Len(calls[f]) |-> i]]
<1>6. /\ b[n + 1] = 0 /\ \A i \in 1 .. n : b[i] = a[i]
      /\ \A i \in 1 .. n + 1 : i \in 1 .. n \/ i = n + 1
      /\ \A i \in 1 .. n : i \in 1 .. n + 1
  BY <1>3
<1>7. \A i, j \in 1 .. n + 1 : b[i] = b[j] => i = j
  BY <1>4, <1>5, <1>6
<1> HIDE DEF b
<1>8. m[e] = b /\ \A f \in Editors : f # e => \A i \in 1 .. Len(calls[f]) : m[f][i] = i
  OBVIOUS
<1> HIDE DEF m
<1>9. \A f \in Editors : f # e => calls'[f] = calls[f] /\ Len(calls[f]) \in Nat
  BY <1>1 DEF Traced, TypeOK
<1>10. ASSUME NEW f \in Editors, f # e, NEW i \in 1 .. Len(calls'[f])
       PROVE  m[f][i] \in 1 .. Len(calls[f]) /\ m[f][i] = i /\ calls'[f][i] = calls[f][m[f][i]]
  BY <1>8, <1>9, <1>10
<1>11. CASE calls' = [calls EXCEPT ![e] = r]
  <2>1. calls'[e] = r
    BY <1>11 DEF TypeOK
  <2>2. \A i \in 1 .. Len(calls'[e]) :
           /\ m[e][i] \in 1 .. Len(calls[e]) /\ (k = 2 => m[e][i] # 1)
           /\ calls'[e][i].call = calls[e][m[e][i]].call /\ calls'[e][i].n = calls[e][m[e][i]].n
    BY <1>5, <1>6, <1>8, <2>1
  <2>3. \A i, j \in 1 .. Len(calls'[e]) : m[e][i] = m[e][j] => i = j
    BY <1>6, <1>7, <1>8, <2>1
  <2>4. Places(e, k, m)
    BY <1>10, <2>2, <2>3 DEF Places
  <2> QED
    BY <1>2, <1>3, <2>4
<1>12. ASSUME NEW c \in Call, calls' = [calls EXCEPT ![e] = Append(r, c)], NewCall(e, c)
       PROVE  Places(e, k, m)
  <2> DEFINE s == Append(r, c)
  <2>1. s[n + 1] = c /\ Len(s) = n + 1 /\ \A i \in 1 .. n : s[i] = r[i]
    BY <1>3
  <2>2. calls'[e] = s
    BY <1>12 DEF TypeOK
  <2> HIDE DEF s
  <2>3. ASSUME NEW i \in 1 .. Len(calls'[e])
        PROVE  \/ m[e][i] = 0 /\ i = Len(calls'[e]) /\ NewCall(e, calls'[e][i])
               \/ /\ m[e][i] \in 1 .. Len(calls[e]) /\ (k = 2 => m[e][i] # 1)
                  /\ calls'[e][i].call = calls[e][m[e][i]].call
                  /\ calls'[e][i].n = calls[e][m[e][i]].n
    <3>1. CASE i \in 1 .. n
      BY <1>5, <1>6, <1>8, <2>1, <2>2, <3>1
    <3>2. CASE i = n + 1
      BY <1>6, <1>8, <1>12, <2>1, <2>2, <3>2
    <3> QED
      BY <1>6, <2>1, <2>2, <3>1, <3>2
  <2>4. \A i, j \in 1 .. Len(calls'[e]) : m[e][i] = m[e][j] => i = j
    BY <1>7, <1>8, <2>1, <2>2
  <2>5. ASSUME NEW f \in Editors, NEW i \in 1 .. Len(calls'[f])
        PROVE  \/ m[f][i] = 0 /\ f = e /\ i = Len(calls'[e]) /\ NewCall(e, calls'[f][i])
               \/ /\ m[f][i] \in 1 .. Len(calls[f]) /\ (f = e /\ k = 2 => m[f][i] # 1)
                  /\ calls'[f][i].call = calls[f][m[f][i]].call
                  /\ calls'[f][i].n = calls[f][m[f][i]].n
    <3>1. CASE f = e
      BY <2>3, <3>1
    <3>2. CASE f # e
      BY <1>10, <3>2
    <3> QED
      BY <3>1, <3>2
  <2>6. \A f \in Editors : \A i, j \in 1 .. Len(calls'[f]) : m[f][i] = m[f][j] => i = j
    BY <1>10, <2>4
  <2> QED
    BY <2>5, <2>6 DEF Places
<1> QED
  BY <1>1, <1>2, <1>3, <1>11, <1>12 DEF Traced

\* What the first call of a device may do to the documents.
Grows(h) ==
    /\ \A d \in DOMAIN products' : \/ d \in DOMAIN products
                                   \/ h.call = "set" /\ d = DocOf(h.n)
                                   \/ h.call = "add" /\ d = [auto |-> TRUE, n |-> h.n]
    /\ \A d \in gone' : \/ d \in gone
                        \/ d \in DOMAIN products /\ d \notin DOMAIN products' /\ d.auto = FALSE
    /\ \A d \in DOMAIN products' :
          d.auto = TRUE => \/ d \in DOMAIN products /\ products'[d] = products[d]
                           \/ products'[d].specialUsers = NoSpecial

\* A call that takes effect does no more.
LEMMA EffectGrows ==
    ASSUME TypeOK, NEW h \in Call, Effect(h)
    PROVE  Grows(h)
<1>1. CallEffect(products, products', h) /\ gone' = gone \cup (DOMAIN products \ DOMAIN products')
  BY EffectType
<1>2. /\ h.n \in Time
      /\ h.call \in {"set", "update", "price", "dismiss", "get", "delete", "add"}
  BY CallParts
<1>3. DocOf(h.n).auto = FALSE
  BY <1>2, DocNames
<1> DEFINE D == DocOf(h.n)
           A == [auto |-> TRUE, n |-> h.n]
<1>4. A.auto = TRUE
  OBVIOUS
<1>5. /\ h.call = "set" => /\ DOMAIN products' = DOMAIN products \cup {D}
                           /\ \A x \in DOMAIN products : x # D => products'[x] = products[x]
      /\ h.call = "add" => /\ DOMAIN products' = DOMAIN products \cup {A}
                           /\ products'[A].specialUsers = NoSpecial
                           /\ \A x \in DOMAIN products : x # A => products'[x] = products[x]
      /\ h.call = "delete" => /\ DOMAIN products' = DOMAIN products \ {D}
                              /\ \A x \in DOMAIN products' : products'[x] = products[x]
      /\ h.call \in {"update", "price", "dismiss"} =>
            /\ DOMAIN products' = DOMAIN products
            /\ \A x \in DOMAIN products : x # D => products'[x] = products[x]
      /\ h.call = "get" => products' = products
  BY <1>1 DEF CallEffect
<1>6. \A d \in DOMAIN products' : \/ d \in DOMAIN products
                                  \/ h.call = "set" /\ d = D
                                  \/ h.call = "add" /\ d = A
  BY <1>2, <1>5
<1>7. \A d \in gone' : \/ d \in gone
                       \/ d \in DOMAIN products /\ d \notin DOMAIN products' /\ d.auto = FALSE
  BY <1>1, <1>2, <1>3, <1>5
<1>8. \A d \in DOMAIN products' :
         d.auto = TRUE => \/ d \in DOMAIN products /\ products'[d] = products[d]
                          \/ products'[d].specialUsers = NoSpecial
  BY <1>2, <1>3, <1>4, <1>5
<1> QED
  BY <1>6, <1>7, <1>8 DEF Grows

\* The documents after a step, with the call h that may have changed them.
DocsStep(e, k, h) ==
    /\ gone \subseteq gone' /\ inDoubt \subseteq inDoubt'
    /\ \/ UNCHANGED <<products, gone, inDoubt>>
       \/ /\ 1 \in 1 .. Len(calls[e]) /\ h = calls[e][1] /\ h \in Call /\ Grows(h) /\ Effect(h)
          /\ h.call = "set" => k = 2 \/ DocOf(h.n) \in inDoubt'

\* Only the first call of the device changes them.
LEMMA ServedDocs ==
    ASSUME TypeOK, NEW e \in Editors, NEW k, Served(e, k)
    PROVE  DocsStep(e, k, Head(calls[e]))
<1>1. CASE UNCHANGED <<products, gone, inDoubt>>
  BY <1>1 DEF DocsStep
<1>2. ASSUME calls[e] # <<>>, Effect(Head(calls[e])), inDoubt \subseteq inDoubt',
             Head(calls[e]).call = "set" => k = 2 \/ DocOf(Head(calls[e]).n) \in inDoubt'
      PROVE  DocsStep(e, k, Head(calls[e]))
  <2> DEFINE h == Head(calls[e])
  <2>1. h \in Call /\ h = calls[e][1] /\ 1 \in 1 .. Len(calls[e])
    BY <1>2 DEF TypeOK
  <2>2. Effect(h) /\ (h.call = "set" => k = 2 \/ DocOf(h.n) \in inDoubt')
    BY <1>2
  <2> HIDE DEF h
  <2>3. Grows(h)
    BY <2>1, <2>2, EffectGrows
  <2>4. gone \subseteq gone'
    BY <2>2 DEF Effect
  <2>5. DocsStep(e, k, h)
    BY <1>2, <2>1, <2>2, <2>3, <2>4 DEF DocsStep
  <2> QED
    BY <2>5 DEF h
<1> QED
  BY <1>1, <1>2 DEF Served

\* A number that names a product did so before, or is the reading of the clock that
\* was made in this step.
LEMMA SetNoOrigin ==
    ASSUME TypeOK, NEW e \in Editors, NEW k, NEW h, NEW m,
           Places(e, k, m), DocsStep(e, k, h), NEW n \in Time, SetNo(n)'
    PROVE  SetNo(n) \/ (n = clock + 1 /\ clock' = clock + 1 /\ rows' = rows)
<1>1. CASE DocOf(n) \in DOMAIN products' \cup gone'
  <2>1. CASE UNCHANGED <<products, gone, inDoubt>>
    BY <1>1, <2>1 DEF SetNo
  <2>2. CASE 1 \in 1 .. Len(calls[e]) /\ h = calls[e][1] /\ h \in Call /\ Grows(h)
    <3>1. DocOf(n).auto = FALSE /\ [auto |-> TRUE, n |-> h.n].auto = TRUE
      BY DocNames
    <3>2. \/ DocOf(n) \in DOMAIN products \cup gone
          \/ h.call = "set" /\ DocOf(n) = DocOf(h.n)
      BY <1>1, <2>2, <3>1 DEF Grows
    <3>3. h.n \in Time
      BY <2>2, CallParts
    <3>4. DocOf(n) = DocOf(h.n) => n = h.n
      BY <3>3, DocNames
    <3> QED
      BY <2>2, <3>2, <3>4 DEF SetNo
  <2> QED
    BY <2>1, <2>2 DEF DocsStep
<1>2. ASSUME NEW f \in Editors, NEW i \in 1 .. Len(calls'[f]),
             calls'[f][i].call = "set", calls'[f][i].n = n
      PROVE  SetNo(n) \/ (n = clock + 1 /\ clock' = clock + 1 /\ rows' = rows)
  <2>1. \/ NewCall(e, calls'[f][i])
        \/ /\ m[f][i] \in 1 .. Len(calls[f])
           /\ calls'[f][i].call = calls[f][m[f][i]].call
           /\ calls'[f][i].n = calls[f][m[f][i]].n
    BY DEF Places
  <2>2. CASE NewCall(e, calls'[f][i])
    BY <1>2, <2>2 DEF NewCall
  <2>3. CASE /\ m[f][i] \in 1 .. Len(calls[f])
             /\ calls'[f][i].call = calls[f][m[f][i]].call
             /\ calls'[f][i].n = calls[f][m[f][i]].n
    BY <1>2, <2>3 DEF SetNo
  <2> QED
    BY <2>1, <2>2, <2>3
<1> QED
  BY <1>1, <1>2 DEF SetNo

\* A number that belongs to a row did so before, or is one of the readings that the
\* import of this step set aside.
LEMMA RowNoOrigin ==
    ASSUME TypeOK, NEW e \in Editors, NEW k, NEW h, NEW m,
           Places(e, k, m), DocsStep(e, k, h), RowsFrom(e),
           \A f \in Editors : f # e => rows'[f] = rows[f], NEW n \in Time, RowNo(n)'
    PROVE  RowNo(n) \/ (clock < n /\ n <= clock' /\ rows' # rows)
<1> DEFINE A == [auto |-> TRUE, n |-> n]
<1>1. CASE A \in DOMAIN products'
  <2>1. CASE UNCHANGED <<products, gone, inDoubt>>
    BY <1>1, <2>1 DEF RowNo
  <2>2. CASE 1 \in 1 .. Len(calls[e]) /\ h = calls[e][1] /\ h \in Call /\ Grows(h)
    <3>1. h.n \in Time
      BY <2>2, CallParts
    <3>2. DocOf(h.n).auto = FALSE /\ A.auto = TRUE
      BY <3>1, DocNames
    <3>3. A \in DOMAIN products \/ (h.call = "add" /\ A = [auto |-> TRUE, n |-> h.n])
      BY <1>1, <2>2, <3>2 DEF Grows
    <3>4. A = [auto |-> TRUE, n |-> h.n] => n = h.n
      <4>1. A.n = n /\ [auto |-> TRUE, n |-> h.n].n = h.n
        OBVIOUS
      <4> QED
        BY <4>1
    <3> QED
      BY <2>2, <3>3, <3>4 DEF RowNo
  <2> QED
    BY <2>1, <2>2 DEF DocsStep
<1>2. ASSUME NEW f \in Editors, NEW i \in 1 .. Len(rows'[f]), rows'[f][i] = n
      PROVE  RowNo(n) \/ (clock < n /\ n <= clock' /\ rows' # rows)
  <2>1. CASE rows' = rows
    BY <1>2, <2>1 DEF RowNo
  <2>2. CASE rows' # rows /\ f # e
    BY <1>2, <2>2 DEF RowNo
  <2>3. CASE rows' # rows /\ f = e
    BY <1>2, <2>3 DEF RowNo, RowsFrom
  <2> QED
    BY <2>1, <2>2, <2>3
<1>3. ASSUME NEW f \in Editors, NEW i \in 1 .. Len(calls'[f]),
             calls'[f][i].call = "add", calls'[f][i].n = n
      PROVE  RowNo(n) \/ (clock < n /\ n <= clock' /\ rows' # rows)
  <2>1. \/ NewCall(e, calls'[f][i])
        \/ /\ m[f][i] \in 1 .. Len(calls[f])
           /\ calls'[f][i].call = calls[f][m[f][i]].call
           /\ calls'[f][i].n = calls[f][m[f][i]].n
    BY DEF Places
  <2>2. CASE NewCall(e, calls'[f][i])
    <3>1. \E j \in 1 .. Len(rows'[e]) : rows'[e][j] = n
      BY <1>3, <2>2 DEF NewCall
    <3> QED
      BY <1>2, <3>1
  <2>3. CASE /\ m[f][i] \in 1 .. Len(calls[f])
             /\ calls'[f][i].call = calls[f][m[f][i]].call
             /\ calls'[f][i].n = calls[f][m[f][i]].n
    BY <1>3, <2>3 DEF RowNo
  <2> QED
    BY <2>1, <2>2, <2>3
<1> QED
  BY <1>1, <1>2, <1>3 DEF RowNo

\* Numbers are not used twice.
LEMMA NumbersStep ==
    ASSUME TypeOK, NumbersInv, NEW e \in Editors, Step(e)
    PROVE  NumbersInv'
<1>1. PICK k \in {1, 2} : /\ Served(e, k) /\ RowsFrom(e)
                          /\ \A f \in Editors : f # e => rows'[f] = rows[f]
                          /\ \E m : Places(e, k, m)
  BY StepPlaces
<1>2. PICK m : Places(e, k, m)
  BY <1>1
<1>3. DocsStep(e, k, Head(calls[e]))
  BY <1>1, ServedDocs
<1>4. clock \in Nat /\ clock' \in Nat /\ clock <= clock' /\ Time \subseteq Nat
  BY <1>1 DEF RowsFrom, TypeOK, Time
<1>5. \A n \in Time : SetNo(n)' =>
          SetNo(n) \/ (n = clock + 1 /\ clock' = clock + 1 /\ rows' = rows)
  BY <1>2, <1>3, SetNoOrigin
<1>6. \A n \in Time : RowNo(n)' => RowNo(n) \/ (clock < n /\ n <= clock' /\ rows' # rows)
  BY <1>1, <1>2, <1>3, RowNoOrigin
<1>7. \A n \in Time : RowNo(n)' => n <= clock'
  BY <1>4, <1>6 DEF NumbersInv
<1>8. ASSUME NEW n \in Time, SetNo(n)' PROVE n <= clock' /\ ~RowNo(n)'
  <2>1. CASE SetNo(n)
    <3>1. n <= clock /\ ~RowNo(n)
      BY <2>1 DEF NumbersInv
    <3> QED
      BY <1>4, <1>6, <3>1
  <2>2. CASE n = clock + 1 /\ clock' = clock + 1 /\ rows' = rows
    <3>1. ~RowNo(n)
      BY <1>4, <2>2 DEF NumbersInv
    <3> QED
      BY <1>4, <1>6, <2>2, <3>1
  <2> QED
    BY <1>5, <1>8, <2>1, <2>2
<1> QED
  BY <1>7, <1>8 DEF NumbersInv

\* A product is not created by two calls.
LEMMA CreationStep ==
    ASSUME TypeOK, NumbersInv, CreationInv, NEW e \in Editors, Step(e)
    PROVE  CreationInv'
<1>1. PICK k \in {1, 2} : /\ Served(e, k) /\ RowsFrom(e)
                          /\ \A f \in Editors : f # e => rows'[f] = rows[f]
                          /\ \E m : Places(e, k, m)
  BY StepPlaces
<1>2. PICK m : Places(e, k, m)
  BY <1>1
<1> DEFINE h == Head(calls[e])
<1>3. DocsStep(e, k, h)
  BY <1>1, ServedDocs
<1> HIDE DEF h
<1>4. clock \in Nat /\ Time \subseteq Nat
  BY DEF TypeOK, Time
<1>5. ASSUME NEW n \in Time, SetNo(n) PROVE n # clock + 1
  BY <1>4, <1>5 DEF NumbersInv
<1>6. ASSUME NEW f \in Editors, NEW i \in 1 .. Len(calls'[f]), calls'[f][i].call = "set"
      PROVE  \/ /\ f = e /\ i = Len(calls'[e]) /\ m[f][i] = 0
                /\ calls'[f][i].n = clock + 1 /\ clock + 1 \in Time
             \/ /\ m[f][i] \in 1 .. Len(calls[f]) /\ (f = e /\ k = 2 => m[f][i] # 1)
                /\ calls[f][m[f][i]].call = "set" /\ calls'[f][i].n = calls[f][m[f][i]].n
                /\ calls'[f][i].n \in Time /\ SetNo(calls'[f][i].n)
  <2>1. \/ m[f][i] = 0 /\ f = e /\ i = Len(calls'[e]) /\ NewCall(e, calls'[f][i])
        \/ /\ m[f][i] \in 1 .. Len(calls[f]) /\ (f = e /\ k = 2 => m[f][i] # 1)
           /\ calls'[f][i].call = calls[f][m[f][i]].call
           /\ calls'[f][i].n = calls[f][m[f][i]].n
    BY <1>2 DEF Places
  <2>2. CASE m[f][i] = 0 /\ f = e /\ i = Len(calls'[e]) /\ NewCall(e, calls'[f][i])
    <3>1. calls'[f][i] \in Call /\ calls'[f][i].n = clock + 1
      BY <1>6, <2>2 DEF NewCall
    <3>2. calls'[f][i].n \in Time
      BY <3>1, CallParts
    <3> QED
      BY <2>2, <3>1, <3>2
  <2>3. CASE /\ m[f][i] \in 1 .. Len(calls[f]) /\ (f = e /\ k = 2 => m[f][i] # 1)
             /\ calls'[f][i].call = calls[f][m[f][i]].call
             /\ calls'[f][i].n = calls[f][m[f][i]].n
    <3>1. calls[f][m[f][i]] \in Call
      BY <2>3 DEF TypeOK
    <3>2. calls[f][m[f][i]].n \in Time
      BY <3>1, CallParts
    <3>3. SetNo(calls[f][m[f][i]].n)
      BY <1>6, <2>3 DEF SetNo
    <3> QED
      BY <1>6, <2>3, <3>2, <3>3
  <2> QED
    BY <2>1, <2>2, <2>3
<1>7. ASSUME NEW f \in Editors, NEW g \in Editors,
             NEW i \in 1 .. Len(calls'[f]), NEW j \in 1 .. Len(calls'[g]),
             calls'[f][i].call = "set", calls'[g][j].call = "set",
             calls'[f][i].n = calls'[g][j].n
      PROVE  f = g /\ i = j
  <2>1. CASE m[f][i] = 0 /\ f = e /\ i = Len(calls'[e]) /\ calls'[f][i].n = clock + 1 /\ clock + 1 \in Time
    BY <1>5, <1>6, <1>7, <2>1
  <2>2. CASE m[g][j] = 0 /\ g = e /\ j = Len(calls'[e]) /\ calls'[g][j].n = clock + 1 /\ clock + 1 \in Time
    BY <1>5, <1>6, <1>7, <2>2
  <2>3. CASE /\ m[f][i] \in 1 .. Len(calls[f]) /\ m[g][j] \in 1 .. Len(calls[g])
             /\ calls[f][m[f][i]].call = "set" /\ calls[g][m[g][j]].call = "set"
             /\ calls[f][m[f][i]].n = calls[g][m[g][j]].n
    <3> DEFINE a == m[f][i]
               b == m[g][j]
    <3>1. f = g /\ a = b
      <4>1. /\ a \in 1 .. Len(calls[f]) /\ b \in 1 .. Len(calls[g])
            /\ calls[f][a].call = "set" /\ calls[g][b].call = "set" /\ calls[f][a].n = calls[g][b].n
        BY <2>3
      <4> HIDE DEF a, b
      <4> QED
        BY <4>1 DEF CreationInv
    <3> QED
      BY <1>2, <3>1 DEF Places
  <2> QED
    BY <1>6, <1>7, <2>1, <2>2, <2>3
<1>8. ASSUME NEW n \in Time, DocOf(n) \in DOMAIN products' \cup gone'
      PROVE  \/ DocOf(n) \in DOMAIN products \cup gone
             \/ /\ 1 \in 1 .. Len(calls[e]) /\ h = calls[e][1] /\ h.call = "set" /\ h.n = n
                /\ k = 2 \/ DocOf(n) \in inDoubt'
  <2>1. CASE UNCHANGED <<products, gone, inDoubt>>
    BY <1>8, <2>1
  <2>2. CASE /\ 1 \in 1 .. Len(calls[e]) /\ h = calls[e][1] /\ h \in Call /\ Grows(h)
             /\ h.call = "set" => k = 2 \/ DocOf(h.n) \in inDoubt'
    <3>1. DocOf(n).auto = FALSE /\ [auto |-> TRUE, n |-> h.n].auto = TRUE
      BY DocNames
    <3>2. \/ DocOf(n) \in DOMAIN products \cup gone
          \/ h.call = "set" /\ DocOf(n) = DocOf(h.n)
      BY <1>8, <2>2, <3>1 DEF Grows
    <3>3. h.n \in Time
      BY <2>2, CallParts
    <3>4. DocOf(n) = DocOf(h.n) => n = h.n
      BY <3>3, DocNames
    <3> QED
      BY <2>2, <3>2, <3>4
  <2> QED
    BY <1>3, <2>1, <2>2 DEF DocsStep
<1>9. ASSUME NEW f \in Editors, NEW i \in 1 .. Len(calls'[f]), calls'[f][i].call = "set",
             DocOf(calls'[f][i].n) \in DOMAIN products' \cup gone'
      PROVE  DocOf(calls'[f][i].n) \in inDoubt'
  <2> DEFINE n == calls'[f][i].n
  <2>1. inDoubt \subseteq inDoubt'
    BY <1>3 DEF DocsStep
  <2>2. n \in Time
    BY <1>6, <1>9
  <2>3. \/ DocOf(n) \in DOMAIN products \cup gone
        \/ /\ 1 \in 1 .. Len(calls[e]) /\ h = calls[e][1] /\ h.call = "set" /\ h.n = n
           /\ k = 2 \/ DocOf(n) \in inDoubt'
    BY <1>8, <1>9, <2>2
  <2>4. SetNo(n)
    BY <2>3 DEF SetNo
  <2>5. /\ m[f][i] \in 1 .. Len(calls[f]) /\ (f = e /\ k = 2 => m[f][i] # 1)
        /\ calls[f][m[f][i]].call = "set" /\ n = calls[f][m[f][i]].n
    BY <1>5, <1>6, <1>9, <2>2, <2>4
  <2> HIDE DEF n
  <2>6. CASE DocOf(n) \in DOMAIN products \cup gone
    BY <2>1, <2>5, <2>6 DEF CreationInv, n
  <2>7. CASE 1 \in 1 .. Len(calls[e]) /\ h = calls[e][1] /\ h.call = "set" /\ h.n = n /\ k = 2
    <3>1. f = e /\ m[f][i] = 1
      BY <2>5, <2>7 DEF CreationInv
    <3> QED
      BY <2>5, <2>7, <3>1
  <2> QED
    BY <2>3, <2>6, <2>7 DEF n
<1> QED
  BY <1>7, <1>9 DEF CreationInv

\* Documents of an import are left alone.
LEMMA AutoStep ==
    ASSUME TypeOK, AutoInv, NEW e \in Editors, Step(e)
    PROVE  AutoInv'
<1>1. PICK k : DocsStep(e, k, Head(calls[e]))
  BY StepPlaces, ServedDocs
<1>2. CASE UNCHANGED <<products, gone, inDoubt>>
  BY <1>2 DEF AutoInv
<1>3. CASE Grows(Head(calls[e]))
  BY <1>3 DEF AutoInv, Grows
<1> QED
  BY <1>1, <1>2, <1>3 DEF DocsStep

\* What is gone does not come back.
LEMMA RevivalStep ==
    ASSUME TypeOK, CreationInv, AutoInv, NotRevived, NEW e \in Editors, Step(e)
    PROVE  NotRevived'
<1> DEFINE h == Head(calls[e])
<1>1. PICK k : DocsStep(e, k, h)
  BY StepPlaces, ServedDocs
<1> HIDE DEF h
<1>2. CASE UNCHANGED <<products, gone, inDoubt>>
  BY <1>2 DEF NotRevived
<1>3. CASE 1 \in 1 .. Len(calls[e]) /\ h = calls[e][1] /\ Grows(h)
  <2> SUFFICES ASSUME NEW d \in gone', d \in DOMAIN products' PROVE d \in inDoubt'
    BY DEF NotRevived
  <2>1. d \in gone /\ d.auto = FALSE /\ inDoubt \subseteq inDoubt'
    BY <1>1, <1>3 DEF Grows, AutoInv, DocsStep
  <2>2. [auto |-> TRUE, n |-> h.n].auto = TRUE
    OBVIOUS
  <2>3. d \in DOMAIN products \/ (h.call = "set" /\ d = DocOf(h.n))
    BY <1>3, <2>1, <2>2 DEF Grows
  <2>4. CASE d \in DOMAIN products
    BY <2>1, <2>4 DEF NotRevived
  <2>5. CASE h.call = "set" /\ d = DocOf(h.n)
    BY <1>3, <2>1, <2>5 DEF CreationInv
  <2> QED
    BY <2>3, <2>4, <2>5
<1> QED
  BY <1>1, <1>2, <1>3 DEF DocsStep

\* The invariant of the documents, with that of the devices.
LEMMA IdsInductive ==
    Spec => [](TypeOK /\ DeviceInv /\ IdsInv)
<1>1. Init => IdsInv
  <2> SUFFICES ASSUME Init PROVE IdsInv
    OBVIOUS
  <2>1. DOMAIN products = {} /\ gone = {} /\ inDoubt = {}
    BY DEF Init
  <2>2. ASSUME NEW e \in Editors
        PROVE  /\ \A i \in 1 .. Len(calls[e]) : FALSE
               /\ \A i \in 1 .. Len(rows[e]) : FALSE
    <3>1. calls[e] = <<>> /\ rows[e] = <<>>
      BY DEF Init
    <3>2. Len(calls[e]) = 0 /\ Len(rows[e]) = 0
      BY <3>1
    <3> QED
      BY <3>2
  <2>3. \A n : ~SetNo(n) /\ ~RowNo(n)
    BY <2>1, <2>2 DEF SetNo, RowNo
  <2> QED
    BY <2>1, <2>2, <2>3 DEF IdsInv, NumbersInv, CreationInv, AutoInv, NotRevived
<1>2. TypeOK /\ DeviceInv /\ IdsInv /\ [Next]_vars => IdsInv'
  <2> SUFFICES ASSUME TypeOK, DeviceInv, IdsInv, [Next]_vars PROVE IdsInv'
    OBVIOUS
  <2>1. CASE Next
    <3>1. PICK e \in Editors : Step(e)
      BY <2>1, NextStep
    <3> QED
      BY <3>1, NumbersStep, CreationStep, AutoStep, RevivalStep DEF IdsInv
  <2>2. CASE UNCHANGED vars
    BY <2>2 DEF vars, IdsInv, NumbersInv, CreationInv, AutoInv, NotRevived, SetNo, RowNo
  <2> QED
    BY <2>1, <2>2
<1> QED
  BY <1>1, <1>2, DevicesInductive, PTL DEF Spec

\* No update, price, import or retry brings a deleted product back; only the call
\* that created it may, when its answer was lost.
THEOREM NotRevivedHolds == Spec => []NotRevived
<1>1. IdsInv => NotRevived
  BY DEF IdsInv
<1> QED
  BY <1>1, IdsInductive, PTL

\* What one step may do to the special prices of a document.
PricesStep ==
    \A d \in DOMAIN products \cap DOMAIN products', c \in Customers :
        products'[d].specialUsers[c] # products[d].specialUsers[c] =>
            \E e \in Editors :
                /\ calls[e] # <<>>
                /\ DocOf(Head(calls[e]).n) = d
                /\ \/ /\ Head(calls[e]).call \in {"price", "dismiss"}
                      /\ Head(calls[e]).customer = c
                   \/ Head(calls[e]).call = "set" /\ d \in inDoubt

\* A special price changes only by a write for that customer and product.
THEOREM PricesKeptHolds == Spec => PricesKept
<1>1. ASSUME TypeOK, DeviceInv, IdsInv, [Next]_vars PROVE PricesStep
  <2> SUFFICES ASSUME NEW d \in DOMAIN products, d \in DOMAIN products', NEW cu \in Customers,
                      products'[d].specialUsers[cu] # products[d].specialUsers[cu]
               PROVE  \E e \in Editors :
                          /\ calls[e] # <<>>
                          /\ DocOf(Head(calls[e]).n) = d
                          /\ \/ /\ Head(calls[e]).call \in {"price", "dismiss"}
                                /\ Head(calls[e]).customer = cu
                             \/ Head(calls[e]).call = "set" /\ d \in inDoubt
    BY DEF PricesStep
  <2>1. products' # products
    OBVIOUS
  <2>2. Next
    BY <1>1, <2>1 DEF vars
  <2>3. PICK e \in Editors : Step(e)
    BY <1>1, <2>2, NextStep
  <2> DEFINE h == Head(calls[e])
  <2>4. PICK k : DocsStep(e, k, h)
    BY <1>1, <2>3, StepPlaces, ServedDocs
  <2>5. 1 \in 1 .. Len(calls[e]) /\ h = calls[e][1] /\ h \in Call /\ Effect(h)
    BY <2>1, <2>4 DEF DocsStep
  <2>6. calls[e] # <<>>
    <3> SUFFICES ASSUME calls[e] = <<>> PROVE FALSE
      OBVIOUS
    <3>1. Len(calls[e]) = 0
      OBVIOUS
    <3> QED
      BY <2>5, <3>1
  <2> HIDE DEF h
  <2>7. CallEffect(products, products', h) /\ products \in Docs
    BY <1>1, <2>5, EffectType
  <2>8. /\ h.n \in Time
        /\ h.call \in {"set", "update", "price", "dismiss", "get", "delete", "add"}
        /\ h.call \in {"set", "update"} => h.details \in Details
        /\ h.call \in {"price", "dismiss"} => /\ h.customer \in Customers
                                              /\ h.price \in Prices \cup {NoPrice}
    BY <2>5, CallParts
  <2>9. products[d] \in ProductModel
    BY <2>7, DocsType
  <2>10. CASE h.call = "set"
    <3>1. d = DocOf(h.n)
      BY <2>7, <2>10 DEF CallEffect
    <3>2. d \in inDoubt
      BY <1>1, <2>5, <2>10, <3>1 DEF IdsInv, CreationInv
    <3> QED
      BY <2>6, <2>10, <3>1, <3>2 DEF h
  <2>11. CASE h.call = "add"
    <3>1. d = [auto |-> TRUE, n |-> h.n] /\ products'[d].specialUsers = NoSpecial
      BY <2>7, <2>11 DEF CallEffect
    <3>2. d.auto = TRUE
      BY <3>1
    <3>3. products[d].specialUsers = NoSpecial
      BY <1>1, <3>2 DEF IdsInv, AutoInv
    <3> QED
      BY <3>1, <3>3
  <2>12. CASE h.call \in {"delete", "get"}
    BY <2>7, <2>12 DEF CallEffect
  <2>13. CASE h.call = "update"
    <3>1. d = DocOf(h.n)
      BY <2>7, <2>13 DEF CallEffect
    <3>2. products'[d] = [products[d] EXCEPT !.details = h.details]
      BY <2>7, <2>13, <3>1 DEF CallEffect
    <3>3. products'[d].specialUsers = products[d].specialUsers
      BY <2>9, <3>2 DEF ProductModel
    <3> QED
      BY <3>3
  <2>14. CASE h.call \in {"price", "dismiss"}
    <3>1. d = DocOf(h.n)
      BY <2>7, <2>14 DEF CallEffect
    <3>2. products'[d] = [products[d] EXCEPT !.specialUsers[h.customer] = h.price]
      BY <2>7, <2>14, <3>1 DEF CallEffect
    <3>3. h.customer = cu
      BY <2>8, <2>9, <2>14, <3>2 DEF ProductModel, Special
    <3> QED
      BY <2>6, <2>14, <3>1, <3>3 DEF h
  <2> QED
    BY <2>8, <2>10, <2>11, <2>12, <2>13, <2>14
<1>2. PricesKept <=> [][PricesStep]_vars
  BY DEF PricesKept, PricesStep
<1> QED
  BY <1>1, <1>2, IdsInductive, PTL DEF Spec

----------------------------------------------------------------------------
(* One administrator who waits.                                            *)

OneEditor == \A e, f \in Editors : e = f

\* A product has the number its document is named by.
Named == \A d \in DOMAIN products : products[d].id = d.n

\* The dialog of an update works on the object that the page shows.
Owner(dlg) == dlg # NoDialog /\ dlg.kind = "update" => dlg.own

\* What the call under way c has to do with the page pg and the dialog dlg it was
\* made from: page and document differ only in what its answer will settle.
Reported(c, pg, dlg, docs) ==
    /\ c.call \in {"set", "update", "price", "dismiss", "get"}
    /\ "page" \in c.mounted /\ "app" \in c.mounted
    /\ c.call \in {"update", "price"} => "dialog" \in c.mounted
    /\ c.call = "set" => DocOf(c.n) # pg.doc /\ Known(pg) = docs[pg.doc]
    /\ c.call # "set" => c.n = pg.doc.n
    /\ c.call = "update" =>
          /\ dlg.text = c.details
          /\ [docs[pg.doc] EXCEPT !.details = c.details] = [Known(pg) EXCEPT !.details = c.details]
    /\ c.call = "dismiss" =>
          /\ pg.doc.auto = FALSE /\ c.price = NoPrice
          /\ [docs[pg.doc] EXCEPT !.specialUsers[c.customer] = NoPrice] = Known(pg)
    /\ c.call = "get" => dlg = NoDialog

\* At most one call is under way; without one the page shows its document, and
\* that of an imported product, which no call reaches, always.
Truthful(pg, dlg, q, docs) ==
    /\ Len(q) <= 1
    /\ pg # List =>
          /\ pg.doc \in DOMAIN docs /\ pg.model.id = pg.doc.n
          /\ pg.doc.auto = TRUE => Known(pg) = docs[pg.doc]
          /\ Owner(dlg)
          /\ Len(q) = 0 => Known(pg) = docs[pg.doc]
          /\ Len(q) = 1 => Reported(q[1], pg, dlg, docs)

Sees(e) == Truthful(page[e], dialog[e], calls[e], products)

TruthInv == Named /\ (patient => \A e \in Editors : Sees(e))

\* Documents keep the number of their product.
LEMMA NamedStep ==
    ASSUME TypeOK, Named, NEW e \in Editors, Step(e)
    PROVE  Named'
<1> DEFINE h == Head(calls[e])
<1>1. PICK k : DocsStep(e, k, h)
  BY StepPlaces, ServedDocs
<1>2. CASE products' = products
  BY <1>2 DEF Named
<1>3. CASE products' # products
  <2>1. h \in Call /\ Effect(h)
    BY <1>1, <1>3 DEF DocsStep
  <2> HIDE DEF h
  <2>2. CallEffect(products, products', h) /\ products \in Docs
    BY <2>1, EffectType
  <2>3. /\ h.n \in Time
        /\ h.call \in {"set", "update", "price", "dismiss", "get", "delete", "add"}
    BY <2>1, CallParts
  <2>4. DocOf(h.n).n = h.n /\ [auto |-> TRUE, n |-> h.n].n = h.n
    BY <2>3, DocNames
  <2>5. \A d \in DOMAIN products : products[d] \in ProductModel
    BY <2>2, DocsType
  <2> SUFFICES ASSUME NEW d \in DOMAIN products' PROVE products'[d].id = d.n
    BY DEF Named
  <2>6. CASE h.call = "set"
    BY <2>2, <2>4, <2>6 DEF CallEffect, Named
  <2>7. CASE h.call = "add"
    <3> DEFINE A == [auto |-> TRUE, n |-> h.n]
    <3>1. /\ DOMAIN products' = DOMAIN products \cup {A} /\ products'[A].id = h.n /\ A.n = h.n
          /\ \A x \in DOMAIN products : x # A => products'[x] = products[x]
      BY <2>2, <2>4, <2>7 DEF CallEffect
    <3> HIDE DEF A
    <3> QED
      BY <3>1 DEF Named
  <2>8. CASE h.call \in {"delete", "get"}
    BY <2>2, <2>8 DEF CallEffect, Named
  <2>9. CASE h.call = "update"
    <3>1. d \in DOMAIN products /\ products[d] \in ProductModel /\ products[d].id = d.n
      BY <2>2, <2>5, <2>9 DEF CallEffect, Named
    <3>2. products'[d] = products[d] \/ products'[d] = [products[d] EXCEPT !.details = h.details]
      BY <2>2, <2>9, <3>1 DEF CallEffect
    <3> QED
      BY <3>1, <3>2 DEF ProductModel
  <2>10. CASE h.call \in {"price", "dismiss"}
    <3>1. d \in DOMAIN products /\ products[d] \in ProductModel /\ products[d].id = d.n
      BY <2>2, <2>5, <2>10 DEF CallEffect, Named
    <3>2. \/ products'[d] = products[d]
          \/ products'[d] = [products[d] EXCEPT !.specialUsers[h.customer] = h.price]
      BY <2>2, <2>10, <3>1 DEF CallEffect
    <3> QED
      BY <3>1, <3>2 DEF ProductModel
  <2> QED
    BY <2>3, <2>6, <2>7, <2>8, <2>9, <2>10
<1> QED
  BY <1>2, <1>3

\* What the name of a document says.
LEMMA PageDoc ==
    ASSUME NEW pg \in Page, pg # List
    PROVE  /\ pg.doc.n \in Time /\ pg.doc.auto \in BOOLEAN
           /\ pg.doc.auto = FALSE => pg.doc = DocOf(pg.doc.n)
           /\ pg.doc.auto = TRUE => pg.doc = [auto |-> TRUE, n |-> pg.doc.n]
           /\ pg.doc.auto = TRUE => \A n : pg.doc # DocOf(n)
           /\ \A m : /\ [pg EXCEPT !.model = m].doc = pg.doc /\ [pg EXCEPT !.model = m].model = m
                    /\ [pg EXCEPT !.model = m].swiped = pg.swiped
           /\ \A cs : /\ [pg EXCEPT !.swiped = cs].doc = pg.doc
                     /\ [pg EXCEPT !.swiped = cs].model = pg.model
                     /\ [pg EXCEPT !.swiped = cs].swiped = cs
           /\ \A m, cs : /\ [pg EXCEPT !.model = m, !.swiped = cs].doc = pg.doc
                        /\ [pg EXCEPT !.model = m, !.swiped = cs].model = m
                        /\ [pg EXCEPT !.model = m, !.swiped = cs].swiped = cs
<1>1. pg \in [model : ProductModel, swiped : SUBSET Customers, doc : Doc]
  BY DEF Page, List
<1>2. /\ pg.doc \in Doc
      /\ \A m : /\ [pg EXCEPT !.model = m].doc = pg.doc /\ [pg EXCEPT !.model = m].model = m
               /\ [pg EXCEPT !.model = m].swiped = pg.swiped
      /\ \A cs : /\ [pg EXCEPT !.swiped = cs].doc = pg.doc
                /\ [pg EXCEPT !.swiped = cs].model = pg.model
                /\ [pg EXCEPT !.swiped = cs].swiped = cs
      /\ \A m, cs : /\ [pg EXCEPT !.model = m, !.swiped = cs].doc = pg.doc
                   /\ [pg EXCEPT !.model = m, !.swiped = cs].model = m
                   /\ [pg EXCEPT !.model = m, !.swiped = cs].swiped = cs
  BY <1>1
<1> DEFINE d == pg.doc
<1>3. ASSUME NEW x \in Doc
      PROVE  /\ x.n \in Time /\ x.auto \in BOOLEAN /\ x = [auto |-> x.auto, n |-> x.n]
  BY DEF Doc
<1>4. \A n : [auto |-> FALSE, n |-> n].auto = FALSE
  OBVIOUS
<1>5. d.n \in Time /\ d.auto \in BOOLEAN /\ d = [auto |-> d.auto, n |-> d.n]
  BY <1>2, <1>3
<1> HIDE DEF d
<1>6. /\ d.auto = FALSE => d = [auto |-> FALSE, n |-> d.n]
      /\ d.auto = TRUE => d = [auto |-> TRUE, n |-> d.n]
      /\ d.auto = TRUE => \A n : d # [auto |-> FALSE, n |-> n]
  BY <1>4, <1>5
<1> QED
  BY <1>2, <1>5, <1>6 DEF d, DocOf

\* What is known of a product changes with productModel and the swiped cards.
LEMMA KnownParts ==
    ASSUME NEW pg \in Page, pg # List
    PROVE  /\ Known(pg) \in ProductModel /\ Known(pg).id = pg.model.id
           /\ \A cu \in Customers :
                 cu \notin pg.swiped => Known(pg).specialUsers[cu] = pg.model.specialUsers[cu]
           /\ pg.swiped = {} => Known(pg) = pg.model
<1> DEFINE sp == [c \in Customers |->
                    IF c \in pg.swiped THEN NoPrice ELSE pg.model.specialUsers[c]]
           m == pg.model
<1>1. Known(pg) = [m EXCEPT !.specialUsers = sp]
  BY DEF Known
<1>2. m \in ProductModel /\ m.specialUsers \in Special
  BY PageParts
<1>3. sp \in Special /\ (pg.swiped = {} => sp = m.specialUsers)
  BY <1>2 DEF Special
<1>4. \A cu \in Customers : cu \notin pg.swiped => sp[cu] = m.specialUsers[cu]
  OBVIOUS
<1> HIDE DEF sp, m
<1>5. /\ [m EXCEPT !.specialUsers = sp] \in ProductModel
      /\ [m EXCEPT !.specialUsers = sp].id = m.id
      /\ [m EXCEPT !.specialUsers = sp].specialUsers = sp
      /\ sp = m.specialUsers => [m EXCEPT !.specialUsers = sp] = m
  BY <1>2, <1>3 DEF ProductModel
<1> QED
  BY <1>1, <1>3, <1>4, <1>5 DEF m

\* A card is swiped away.
LEMMA KnownSwiped ==
    ASSUME NEW pg \in Page, pg # List, NEW cu \in Customers
    PROVE  Known([pg EXCEPT !.swiped = pg.swiped \cup {cu}])
               = [Known(pg) EXCEPT !.specialUsers[cu] = NoPrice]
<1> DEFINE cs == pg.swiped \cup {cu}
           new == [pg EXCEPT !.swiped = cs]
           m == pg.model
           sp == [c \in Customers |-> IF c \in pg.swiped THEN NoPrice ELSE m.specialUsers[c]]
           sp1 == [c \in Customers |-> IF c \in cs THEN NoPrice ELSE m.specialUsers[c]]
<1>1. m \in ProductModel
  BY PageParts
<1>2. new.model = m /\ new.swiped = cs
  BY PageDoc
<1>3. Known(pg) = [m EXCEPT !.specialUsers = sp]
  BY DEF Known
<1>4. Known(new) = [m EXCEPT !.specialUsers = sp1]
  <2> HIDE DEF new, cs, m
  <2> QED
    BY <1>2 DEF Known
<1>5. sp1 = [sp EXCEPT ![cu] = NoPrice]
  OBVIOUS
<1> HIDE DEF sp, sp1, m, cs
<1>6. [m EXCEPT !.specialUsers = [sp EXCEPT ![cu] = NoPrice]]
          = [[m EXCEPT !.specialUsers = sp] EXCEPT !.specialUsers[cu] = NoPrice]
  BY <1>1 DEF ProductModel
<1> QED
  BY <1>3, <1>4, <1>5, <1>6 DEF cs

\* The fields are copied.
LEMMA KnownCopied ==
    ASSUME NEW pg \in Page, pg # List, NEW v \in Details \cup {Blank}
    PROVE  Known([pg EXCEPT !.model = [pg.model EXCEPT !.details = v]])
               = [Known(pg) EXCEPT !.details = v]
<1> DEFINE m == pg.model
           m1 == [m EXCEPT !.details = v]
           new == [pg EXCEPT !.model = m1]
           sp == [c \in Customers |-> IF c \in pg.swiped THEN NoPrice ELSE m.specialUsers[c]]
<1>1. m \in ProductModel
  BY PageParts
<1>2. new.model = m1 /\ new.swiped = pg.swiped
  BY PageDoc
<1>3. Known(pg) = [m EXCEPT !.specialUsers = sp]
  BY DEF Known
<1>4. m1.specialUsers = m.specialUsers
  BY <1>1 DEF ProductModel
<1>5. Known(new) = [m1 EXCEPT !.specialUsers = sp]
  <2> HIDE DEF new, m, m1
  <2> QED
    BY <1>2, <1>4 DEF Known
<1> HIDE DEF sp, m
<1>6. [m1 EXCEPT !.specialUsers = sp] = [[m EXCEPT !.specialUsers = sp] EXCEPT !.details = v]
  BY <1>1 DEF ProductModel
<1> QED
  BY <1>3, <1>5, <1>6 DEF m

\* An imported product is not found under its id.
LEMMA HiddenDoc ==
    ASSUME IdsInv, NEW pg \in Page, pg # List, pg.doc \in DOMAIN products, pg.doc.auto = TRUE
    PROVE  DocOf(pg.doc.n) \notin DOMAIN products
<1>1. pg.doc.n \in Time /\ pg.doc = [auto |-> TRUE, n |-> pg.doc.n]
  BY PageDoc
<1>2. RowNo(pg.doc.n)
  BY <1>1 DEF RowNo
<1>3. ~SetNo(pg.doc.n)
  BY <1>1, <1>2 DEF IdsInv, NumbersInv
<1> QED
  BY <1>3 DEF SetNo

\* Calls that change nothing do not change what the device sees.
LEMMA ViewSame ==
    ASSUME TypeOK, NEW e \in Editors,
           \A i \in 1 .. Len(calls[e]) : calls[e][i].call = "get"
    PROVE  View(e) = products
<1>1. calls[e] \in Seq(Call) /\ products \in Docs
  BY DocsType DEF TypeOK
<1> DEFINE q == calls[e]
           n == Len(q)
           X == {products}
<1>2. n \in Nat /\ DOMAIN q = 1 .. n /\ \A i \in 1 .. n : q[i] \in Call /\ q[i].call = "get"
  BY <1>1
<1>3. View(e) = Applying!Folded(n, 0, products, q)
  BY <1>2 DEF View, FoldLeft, MapThenFoldSet, Applying!Folded, Applying!Max, Max
<1> HIDE DEF q, n
<1>4. \A i \in 1 .. n : \A x \in X : After(x, q[i]) \in X
  BY <1>1, <1>2, AfterEffect DEF CallEffect
<1> HIDE DEF X
<1>5. products \in X
  BY DEF X
<1>6. Applying!Folded(n, 0, products, q) \in X
  BY <1>2, <1>4, <1>5, Applying!FoldedIn
<1> QED
  BY <1>3, <1>6 DEF X

\* A queue of one call.
LEMMA OneCall ==
    ASSUME NEW q \in Seq(Call), q # <<>>, Len(q) <= 1
    PROVE  Len(q) = 1 /\ Len(Tail(q)) = 0 /\ Tail(q) \in Seq(Call)
<1>1. Len(q) \in Nat /\ Len(q) # 0
  OBVIOUS
<1>2. \A n \in Nat : n # 0 /\ n <= 1 => n = 1
  OBVIOUS
<1>3. Len(q) = 1
  BY <1>1, <1>2, Zenon
<1> QED
  BY <1>3

\* Few calls stay few.
LEMMA ThinnedShort ==
    ASSUME NEW q \in Seq(Call), Len(q) <= 1, NEW k \in {1, 2}, NEW r, NEW parts,
           Thinned(r, q, k, parts)
    PROVE  Len(r) <= 1 /\ (k = 2 => Len(r) = 0)
<1>1. PICK m \in [1 .. Len(r) -> k .. Len(q)] : \A i, j \in 1 .. Len(r) : m[i] = m[j] => i = j
  BY DEF Thinned
<1>2. Len(r) \in Nat /\ Len(q) \in Nat
  BY DEF Thinned
<1>3. CASE k = 2
  <2>1. \A i \in 1 .. Len(r) : FALSE
    BY <1>1, <1>2, <1>3
  <2> QED
    BY <1>2, <2>1
<1>4. CASE k = 1
  <2> SUFFICES ASSUME Len(r) >= 2 PROVE FALSE
    BY <1>2, <1>4
  <2>1. 1 \in 1 .. Len(r) /\ 2 \in 1 .. Len(r)
    BY <1>2
  <2>2. m[1] = 1 /\ m[2] = 1
    BY <1>1, <1>2, <1>4, <2>1
  <2> QED
    BY <1>1, <2>1, <2>2
<1> QED
  BY <1>3, <1>4

----------------------------------------------------------------------------
\* Whoever waits presses when no call is under way.
LEMMA IdlePress ==
    ASSUME TypeOK, patient, NEW e \in Editors, Ready(e)
    PROVE  /\ calls[e] = <<>> /\ Len(calls[e]) = 0
           /\ \A c : Len(Append(calls[e], c)) = 1 /\ Append(calls[e], c)[1] = c
BY DEF Ready

\* No call is made, and the page stays.
LEMMA Stays ==
    ASSUME NEW e \in Editors, Sees(e), Len(calls[e]) = 0, page'[e] = page[e], products' = products,
           Len(calls'[e]) = 0, Owner(dialog'[e])
    PROVE  Sees(e)'
BY DEF Sees, Truthful

\* A call is made.
LEMMA Sends ==
    ASSUME NEW e \in Editors, Sees(e), page'[e] = page[e], products' = products,
           Len(calls'[e]) = 1, Owner(dialog'[e]),
           page[e] # List => Reported(calls'[e][1], page[e], dialog'[e], products)
    PROVE  Sees(e)'
BY DEF Sees, Truthful

\* The page is not there.
LEMMA Elsewhere ==
    ASSUME NEW e \in Editors, page'[e] = List, Len(calls'[e]) <= 1
    PROVE  Sees(e)'
BY DEF Sees, Truthful

\* Dialogs keep the object they work on.
LEMMA Owns ==
    ASSUME NEW dlg \in Dialog, dlg # NoDialog, Owner(dlg)
    PROVE  /\ \A v : Owner([dlg EXCEPT !.text = v])
           /\ \A b : Owner([dlg EXCEPT !.loading = b])
           /\ Owner([dlg EXCEPT !.stuck = TRUE])
           /\ Owner([dlg EXCEPT !.loading = TRUE, !.stuck = TRUE])
BY DEF Owner, Dialog, NoDialog

\* A product is opened: the device sees what is stored.
LEMMA OpenSeen ==
    ASSUME TypeOK, Named, patient, NEW e \in Editors, NEW d \in DOMAIN View(e), OpenProduct(e, d)
    PROVE  Sees(e)'
<1>1. /\ calls' = calls /\ dialog' = dialog /\ dialog[e] = NoDialog /\ products' = products
      /\ page' = [page EXCEPT ![e] = [model |-> View(e)[d], swiped |-> {}, doc |-> d]] /\ Ready(e)
  BY DEF OpenProduct, Free, stored
<1>2. Len(calls[e]) = 0
  BY <1>1, IdlePress
<1>3. View(e) = products
  <2>1. \A i \in 1 .. Len(calls[e]) : FALSE
    BY <1>2
  <2> QED
    BY <2>1, ViewSame
<1> DEFINE pg == [model |-> products[d], swiped |-> {}, doc |-> d]
<1>4. page'[e] = pg /\ d \in DOMAIN products
  BY <1>1, <1>3 DEF TypeOK
<1>5. pg.model = products[d] /\ pg.doc = d /\ pg.swiped = {} /\ pg \in Page /\ pg # List
  <2>1. products[d] \in ProductModel /\ d \in Doc
    BY <1>4 DEF TypeOK
  <2>2. \A p \in [model : ProductModel, swiped : SUBSET Customers, doc : Doc] : p # List /\ p \in Page
    BY DEF Page, List
  <2> QED
    BY <2>1, <2>2
<1> HIDE DEF pg
<1>6. Known(pg) = products[d]
  BY <1>5, KnownParts
<1>7. Truthful(pg, dialog[e], calls[e], products)
  BY <1>1, <1>2, <1>4, <1>5, <1>6 DEF Truthful, Named, Owner
<1> QED
  BY <1>1, <1>4, <1>7 DEF Sees

\* The page is left, or the application is started again.
LEMMA LeaveSeen ==
    ASSUME TypeOK, DeviceInv, patient, NEW e \in Editors, Sees(e),
           Back(e) \/ Delete(e) \/ \E kept \in BOOLEAN : Restart(e, kept)
    PROVE  Sees(e)'
<1> DEFINE q == calls[e]
<1>1. q \in Seq(Call) /\ Len(q) <= 1
  BY Here DEF Sees, Truthful
<1>2. page'[e] = List
  BY DEF Back, Delete, Restart, Leave, TypeOK
<1>3. \A parts : Unmount(q, parts) \in Seq(Call) /\ (Len(q) = 0 => Len(Unmount(q, parts)) = 0)
  <2> TAKE parts
  <2>1. Rest(Unmount(q, parts), q, 1, parts)
    BY <1>1, UnmountRest
  <2> QED
    BY <1>1, <2>1 DEF Rest
<1>4. CASE Back(e)
  <2>1. Len(q) = 0 /\ calls'[e] = Unmount(q, {"page"})
    BY <1>4, IdlePress DEF Back, Free, TypeOK
  <2> QED
    BY <1>2, <1>3, <2>1, Elsewhere
<1>5. CASE Delete(e)
  <2> DEFINE r == Unmount(q, {"page"})
  <2>1. Len(q) = 0 /\ \E c : calls'[e] = Append(r, c)
    BY <1>5, IdlePress DEF Delete, Free, TypeOK
  <2>2. r \in Seq(Call) /\ Len(r) = 0
    BY <1>3, <2>1
  <2> HIDE DEF r
  <2>3. Len(calls'[e]) <= 1
    BY <2>1, <2>2
  <2> QED
    BY <1>2, <2>3, Elsewhere
<1>6. ASSUME NEW kept \in BOOLEAN, Restart(e, kept) PROVE Sees(e)'
  <2>1. \/ calls'[e] = Unmount(FoldLeft(Keep, <<>>, q), Parts)
        \/ calls'[e] = <<>>
    BY <1>6 DEF Restart, TypeOK
  <2>2. Len(calls'[e]) <= 1
    <3>1. CASE calls'[e] = Unmount(FoldLeft(Keep, <<>>, q), Parts)
      <4>1. Thinned(calls'[e], q, 1, Parts)
        BY <1>1, <3>1, KeptThinned
      <4> QED
        BY <1>1, <4>1, ThinnedShort
    <3>2. CASE calls'[e] = <<>>
      BY <3>2
    <3> QED
      BY <2>1, <3>1, <3>2
  <2> QED
    BY <1>2, <2>2, Elsewhere
<1> QED
  BY <1>4, <1>5, <1>6

\* What is pressed or typed without making a call.
LEMMA PressSeen ==
    ASSUME TypeOK, DeviceInv, patient, NEW e \in Editors, Sees(e),
           \/ AddNewItem(e) \/ UpdateItem(e) \/ Cancel(e) \/ OkPriceEmpty(e) \/ CancelPick(e)
           \/ \E v \in Details \cup {Blank} : Type(e, v)
           \/ \E c \in Customers : AskPrice(e, c)
    PROVE  Sees(e)'
<1> DEFINE d == dialog[e]
<1>1. Ready(e) /\ page' = page /\ products' = products
  BY DEF AddNewItem, UpdateItem, Cancel, OkPriceEmpty, CancelPick, Type, AskPrice, Free, stored
<1>2. Len(calls[e]) = 0 /\ calls[e] = <<>>
  BY <1>1, IdlePress
<1>3. Len(calls'[e]) = 0
  <2>1. CASE calls' = calls
    BY <1>2, <2>1
  <2>2. CASE Cancel(e)
    <3>1. calls'[e] = Closing(calls[e])
      BY <2>2 DEF Cancel, CloseDialog, TypeOK
    <3>2. Rest(Closing(calls[e]), calls[e], 1, {"dialog"})
      BY Here, ClosingRest
    <3> QED
      BY <1>2, <3>1, <3>2 DEF Rest
  <2> QED
    BY <2>1, <2>2 DEF AddNewItem, UpdateItem, OkPriceEmpty, CancelPick, Type, AskPrice
<1>4. page[e] # List => Owner(dialog'[e])
  <2> SUFFICES ASSUME page[e] # List PROVE Owner(dialog'[e])
    OBVIOUS
  <2>1. Owner(d) /\ d \in Dialog
    BY Here DEF Sees, Truthful
  <2>2. CASE AddNewItem(e)
    <3>1. dialog'[e].kind = "new"
      BY <2>2 DEF AddNewItem, Show, TypeOK
    <3> QED
      BY <3>1 DEF Owner
  <2>3. CASE UpdateItem(e)
    <3>1. dialog'[e].own
      BY <2>3 DEF UpdateItem, Show, TypeOK
    <3> QED
      BY <3>1 DEF Owner
  <2>4. CASE \E c \in Customers : AskPrice(e, c)
    <3>1. dialog'[e].kind = "price"
      BY <2>4 DEF AskPrice, Show, TypeOK
    <3> QED
      BY <3>1 DEF Owner
  <2>5. CASE Cancel(e) \/ CancelPick(e)
    BY <2>1, <2>5 DEF Cancel, CloseDialog, CancelPick, Owner, TypeOK
  <2>6. CASE OkPriceEmpty(e)
    <3>1. d # NoDialog /\ dialog'[e] = [d EXCEPT !.loading = TRUE, !.stuck = TRUE]
      BY <2>6 DEF OkPriceEmpty, Shows, TypeOK
    <3> HIDE DEF d
    <3> QED
      BY <2>1, <3>1, Owns
  <2>7. ASSUME NEW v \in Details \cup {Blank}, Type(e, v) PROVE Owner(dialog'[e])
    <3>1. d # NoDialog /\ dialog'[e] = [d EXCEPT !.text = v]
      BY <2>7 DEF Type, Shows, TypeOK
    <3> HIDE DEF d
    <3> QED
      BY <2>1, <3>1, Owns
  <2> QED
    BY <2>2, <2>3, <2>4, <2>5, <2>6, <2>7
<1>5. CASE page[e] # List
  BY <1>1, <1>2, <1>3, <1>4, <1>5, Stays
<1>6. CASE page[e] = List
  BY <1>1, <1>3, <1>6, Elsewhere
<1> QED
  BY <1>5, <1>6

\* The alert does not matter.
LEMMA AlertSeen ==
    ASSUME NEW e \in Editors, Sees(e), DismissAlert(e)
    PROVE  Sees(e)'
BY DEF DismissAlert, Sees, stored

\* A sheet is picked on the list.
LEMMA ImportSeen ==
    ASSUME TypeOK, patient, NEW e \in Editors, NEW k, Import(e, k)
    PROVE  Sees(e)'
<1>1. page'[e] = List /\ \E c : calls'[e] = Append(calls[e], c)
  BY DEF Import, Editing, Send, TypeOK
<1>2. Len(calls'[e]) = 1
  BY <1>1, IdlePress DEF Import, Free
<1> QED
  BY <1>1, <1>2, Elsewhere

\* The product is to be read again.
LEMMA RefreshSeen ==
    ASSUME TypeOK, DeviceInv, patient, NEW e \in Editors, Sees(e), Refresh(e)
    PROVE  Sees(e)'
<1> DEFINE c == [call |-> "get", n |-> page[e].model.id, mounted |-> Mounted(e)]
<1>1. /\ page' = page /\ dialog' = dialog /\ products' = products /\ Ready(e)
      /\ page[e] # List /\ dialog[e] = NoDialog /\ calls'[e] = Append(calls[e], c)
  BY DEF Refresh, Free, Send, Editing, stored, TypeOK
<1>2. /\ c.call = "get" /\ c.n = page[e].model.id
      /\ "page" \in c.mounted /\ "app" \in c.mounted
  BY <1>1, MountedParts DEF Editing
<1> HIDE DEF c
<1>3. Len(calls'[e]) = 1 /\ calls'[e][1] = c
  BY <1>1, IdlePress
<1>4. page[e].model.id = page[e].doc.n
  BY <1>1 DEF Sees, Truthful
<1>5. Reported(c, page[e], dialog[e], products)
  BY <1>1, <1>2, <1>4 DEF Reported
<1>6. Owner(dialog[e])
  BY <1>1 DEF Owner
<1> QED
  BY <1>1, <1>3, <1>5, <1>6, Sends

\* Done: the page shows something else than a product that is being created, and
\* the details of an update are those in the fields.
LEMMA DoneSeen ==
    ASSUME TypeOK, DeviceInv, IdsInv, patient, NEW e \in Editors, Sees(e), Done(e)
    PROVE  Sees(e)'
<1> DEFINE d == dialog[e]
           dlg == [d EXCEPT !.loading = TRUE]
<1>1. /\ page' = page /\ products' = products /\ Ready(e) /\ dialog'[e] = dlg
      /\ d # NoDialog /\ d \in Dialog /\ d.kind \in {"new", "update"}
  BY Here DEF Done, Shows, stored, TypeOK
<1>2. PICK c : /\ calls'[e] = Append(calls[e], c) /\ c.mounted = Mounted(e) /\ c.details = d.text
               /\ \/ d.kind = "update" /\ c.call = "update" /\ c.n = page[e].model.id
                  \/ d.kind = "new" /\ c.call = "set" /\ c.n = clock + 1
  <2> DEFINE sent(call, n) == [call |-> call, n |-> n, details |-> dialog[e].text,
                               mounted |-> Mounted(e)]
  <2>1. CASE d.kind = "update"
    <3>1. calls'[e] = Append(calls[e], sent("update", page[e].model.id))
      BY <2>1 DEF Done, Send, TypeOK
    <3> QED
      BY <2>1, <3>1
  <2>2. CASE d.kind = "new"
    <3>1. calls'[e] = Append(calls[e], sent("set", clock + 1))
      BY <2>2 DEF Done, Send, TypeOK
    <3> QED
      BY <2>2, <3>1
  <2> QED
    BY <1>1, <2>1, <2>2
<1>3. "dialog" \in c.mounted /\ "app" \in c.mounted /\ (page[e] # List => "page" \in c.mounted)
  BY <1>1, <1>2, MountedParts DEF Editing
<1>4. Len(calls'[e]) = 1 /\ calls'[e][1] = c /\ Len(calls[e]) = 0
  BY <1>1, <1>2, IdlePress
<1>5. CASE page[e] = List
  <2>1. page'[e] = List /\ Len(calls'[e]) <= 1
    BY <1>1, <1>4, <1>5
  <2> QED
    BY <2>1, Elsewhere
<1>6. CASE page[e] # List
  <2>1. /\ page[e].doc \in DOMAIN products /\ page[e].model.id = page[e].doc.n
        /\ Known(page[e]) = products[page[e].doc] /\ Owner(d)
    BY <1>4, <1>6 DEF Sees, Truthful
  <2>2. dlg.text = d.text /\ Owner(dlg)
    <3> HIDE DEF d
    <3>1. Owner(dlg)
      BY <1>1, <2>1, Owns
    <3> QED
      BY <1>1, <3>1 DEF Dialog, NoDialog
  <2>3. ASSUME c.call = "set" PROVE DocOf(c.n) # page[e].doc
    <3> SUFFICES ASSUME DocOf(c.n) = page[e].doc PROVE FALSE
      OBVIOUS
    <3>1. c.n = clock + 1 /\ clock \in Nat
      BY <1>1, <1>2, <2>3 DEF TypeOK
    <3>2. c.n \in Time
      <4>1. page[e].doc \in Doc
        BY <1>6, Here, PageParts
      <4> QED
        BY <4>1 DEF Doc, DocOf
    <3>3. SetNo(c.n)
      BY <2>1 DEF SetNo
    <3>4. c.n <= clock
      BY <3>2, <3>3 DEF IdsInv, NumbersInv
    <3> QED
      BY <3>1, <3>4
  <2> HIDE DEF d, dlg
  <2>4. Reported(c, page[e], dlg, products)
    BY <1>2, <1>3, <1>6, <2>1, <2>2, <2>3 DEF Reported
  <2> QED
    BY <1>1, <1>4, <2>2, <2>4, Sends
<1> QED
  BY <1>5, <1>6

\* A price is to be stored, from its dialog.
LEMMA OkPriceSeen ==
    ASSUME TypeOK, DeviceInv, patient, NEW e \in Editors, NEW p, Sees(e), OkPrice(e, p)
    PROVE  Sees(e)'
<1> DEFINE d == dialog[e]
           dlg == [d EXCEPT !.loading = TRUE]
           c == [call |-> "price", n |-> page[e].model.id, customer |-> dialog[e].customer,
                 price |-> p, mounted |-> Mounted(e)]
<1>1. /\ page' = page /\ products' = products /\ Ready(e) /\ dialog'[e] = dlg
      /\ d # NoDialog /\ d \in Dialog /\ d.kind = "price" /\ calls'[e] = Append(calls[e], c)
  BY Here DEF OkPrice, Shows, stored, SetSpecialPrice, Send, TypeOK
<1>2. page[e] # List
  BY <1>1, Here DEF Attached
<1>3. /\ c.call = "price" /\ c.n = page[e].model.id
      /\ "page" \in c.mounted /\ "app" \in c.mounted /\ "dialog" \in c.mounted
  BY <1>1, <1>2, MountedParts DEF Editing
<1> HIDE DEF c
<1>4. Len(calls'[e]) = 1 /\ calls'[e][1] = c
  BY <1>1, IdlePress
<1>5. page[e].model.id = page[e].doc.n /\ Owner(d)
  BY <1>2 DEF Sees, Truthful
<1> HIDE DEF d
<1>6. Owner(dlg)
  BY <1>1, <1>5, Owns
<1> HIDE DEF dlg
<1>7. Reported(c, page[e], dlg, products)
  BY <1>3, <1>5 DEF Reported
<1> QED
  BY <1>1, <1>4, <1>6, <1>7, Sends

\* A card is swiped away: what is known runs ahead of the document by that price.
LEMMA DismissSeen ==
    ASSUME TypeOK, DeviceInv, IdsInv, patient, NEW e \in Editors, NEW cu \in Customers,
           Sees(e), Dismiss(e, cu)
    PROVE  Sees(e)'
<1> DEFINE c == [call |-> "dismiss", n |-> page[e].model.id, customer |-> cu,
                 price |-> NoPrice, mounted |-> Mounted(e)]
           old == page[e]
           pg == [old EXCEPT !.swiped = old.swiped \cup {cu}]
<1>1. /\ page'[e] = pg /\ dialog' = dialog /\ dialog[e] = NoDialog /\ products' = products
      /\ Ready(e) /\ old # List /\ calls'[e] = Append(calls[e], c)
      /\ old.model.specialUsers[cu] # NoPrice /\ cu \notin old.swiped
  BY DEF Dismiss, Free, Editing, stored, SetSpecialPrice, Send, TypeOK
<1>2. /\ c.call = "dismiss" /\ c.n = old.model.id /\ c.customer = cu /\ c.price = NoPrice
      /\ "page" \in c.mounted /\ "app" \in c.mounted
  BY <1>1, MountedParts DEF Editing
<1> HIDE DEF c
<1>3. Len(calls'[e]) = 1 /\ calls'[e][1] = c /\ Len(calls[e]) = 0
  BY <1>1, IdlePress
<1>4. /\ old.doc \in DOMAIN products /\ old.model.id = old.doc.n
      /\ Known(old) = products[old.doc]
  BY <1>1, <1>3 DEF Sees, Truthful
<1>5. old \in Page /\ old.doc.auto \in BOOLEAN
  BY <1>1, Here, PageDoc
<1>6. old.doc.auto = FALSE
  <2> SUFFICES ASSUME old.doc.auto = TRUE PROVE FALSE
    BY <1>5
  <2>1. products[old.doc].specialUsers = NoSpecial
    BY <1>4 DEF IdsInv, AutoInv
  <2>2. Known(old).specialUsers[cu] # NoPrice
    BY <1>1, <1>5, KnownParts
  <2> QED
    BY <1>4, <2>1, <2>2 DEF NoSpecial
<1> HIDE DEF old
<1>7. pg.doc = old.doc /\ pg.model = old.model
  BY <1>1, <1>5, PageDoc
<1>8. Known(pg) = [products[old.doc] EXCEPT !.specialUsers[cu] = NoPrice]
  BY <1>1, <1>4, <1>5, KnownSwiped
<1> HIDE DEF pg
<1>9. Reported(c, pg, dialog[e], products)
  BY <1>2, <1>4, <1>6, <1>7, <1>8 DEF Reported
<1>10. Truthful(pg, dialog[e], calls'[e], products)
  BY <1>1, <1>3, <1>4, <1>6, <1>7, <1>9 DEF Truthful, Owner
<1> QED
  BY <1>1, <1>10 DEF Sees

----------------------------------------------------------------------------
\* The call under way takes effect: it touches the page's document only where the
\* page waits for it.
LEMMA EffectSeen ==
    ASSUME TypeOK, DeviceInv, NEW e \in Editors, Sees(e), page[e] # List,
           calls[e] # <<>>, NEW c, c = Head(calls[e]), Effect(c)
    PROVE  /\ Reported(c, page[e], dialog[e], products')
           /\ page[e].doc \in DOMAIN products' /\ page[e].model.id = page[e].doc.n
           /\ page[e].doc.auto = TRUE => Known(page[e]) = products'[page[e].doc]
           /\ Owner(dialog[e])
           /\ c.call = "update" /\ page[e].doc.auto = FALSE
                  => products'[page[e].doc] = [Known(page[e]) EXCEPT !.details = c.details]
           /\ c.call = "dismiss" => Known(page[e]) = products'[page[e].doc]
<1> DEFINE pg == page[e]
           d == pg.doc
           known == Known(pg)
<1>1. c \in Call /\ c = calls[e][1] /\ Len(calls[e]) = 1
  <2>1. c \in Call /\ c = calls[e][1] /\ Len(calls[e]) <= 1
    BY FirstCall DEF Sees, Truthful
  <2>2. Len(calls[e]) = 1
    BY <2>1, Here, OneCall
  <2> QED
    BY <2>1, <2>2
<1>2. /\ Reported(c, pg, dialog[e], products) /\ d \in DOMAIN products /\ pg.model.id = d.n
      /\ d.auto = TRUE => known = products[d]
      /\ Owner(dialog[e])
  BY <1>1 DEF Sees, Truthful
<1>3. CallEffect(products, products', c) /\ products \in Docs
  BY <1>1, EffectType
<1>4. products[d] \in ProductModel /\ pg \in Page /\ known \in ProductModel
  BY <1>2, <1>3, DocsType, Here, KnownParts
<1>5. /\ d.auto \in BOOLEAN /\ (d.auto = FALSE => d = DocOf(d.n))
      /\ d.auto = TRUE => d # DocOf(c.n)
  BY <1>4, PageDoc
<1> HIDE DEF d, pg, known
<1>6. CASE c.call = "set"
  <2>1. d \in DOMAIN products' /\ products'[d] = products[d]
    BY <1>2, <1>3, <1>6 DEF CallEffect, Reported, d
  <2> QED
    BY <1>2, <1>6, <2>1 DEF Reported, d, pg, known
<1>7. CASE c.call = "get"
  <2>1. products' = products
    BY <1>3, <1>7 DEF CallEffect
  <2> QED
    BY <1>2, <1>7, <2>1 DEF Reported, d, pg, known
<1>8. CASE c.call \in {"update", "price", "dismiss"} /\ d.auto = TRUE
  <2>1. d \in DOMAIN products' /\ products'[d] = products[d]
    BY <1>2, <1>3, <1>5, <1>8 DEF CallEffect
  <2>2. c.call # "dismiss"
    BY <1>2, <1>8 DEF Reported, d
  <2> QED
    BY <1>2, <1>8, <2>1, <2>2 DEF Reported, d, pg, known
<1>9. CASE c.call \in {"update", "price", "dismiss"} /\ d.auto = FALSE
  <2>1. d = DocOf(c.n) /\ d \in DOMAIN products'
    BY <1>2, <1>3, <1>5, <1>9 DEF CallEffect, Reported, d
  <2>2. CASE c.call = "price"
    BY <1>2, <1>9, <2>1, <2>2 DEF Reported, d, pg, known
  <2>3. CASE c.call = "update"
    <3>1. products'[d] = [products[d] EXCEPT !.details = c.details]
      BY <1>2, <1>3, <2>1, <2>3 DEF CallEffect
    <3>2. [products[d] EXCEPT !.details = c.details] = [known EXCEPT !.details = c.details]
      BY <1>2, <2>3 DEF Reported, d, known
    <3>3. [products'[d] EXCEPT !.details = c.details] = [products[d] EXCEPT !.details = c.details]
      BY <1>4, <3>1 DEF ProductModel
    <3> QED
      BY <1>2, <1>9, <2>1, <2>3, <3>1, <3>2, <3>3 DEF Reported, d, pg, known
  <2>4. CASE c.call = "dismiss"
    <3>1. c.price = NoPrice /\ known = [products[d] EXCEPT !.specialUsers[c.customer] = NoPrice]
      BY <1>2, <2>4 DEF Reported, d, known
    <3>2. products'[d] = known
      BY <1>2, <1>3, <2>1, <2>4, <3>1 DEF CallEffect
    <3>3. [known EXCEPT !.specialUsers[c.customer] = NoPrice] = known
      BY <1>4, <3>1 DEF ProductModel, Special
    <3> QED
      BY <1>2, <1>9, <2>1, <2>4, <3>1, <3>2, <3>3 DEF Reported, d, pg, known
  <2> QED
    BY <1>9, <2>2, <2>3, <2>4
<1> QED
  BY <1>2, <1>5, <1>6, <1>7, <1>8, <1>9 DEF Reported

\* A write takes effect and its answer is lost.
LEMMA UnansweredSeen ==
    ASSUME TypeOK, DeviceInv, NEW e \in Editors, Sees(e), Unanswered(e)
    PROVE  Sees(e)'
<1> DEFINE c == Head(calls[e])
<1>1. /\ calls[e] # <<>> /\ Effect(c) /\ page' = page /\ dialog' = dialog /\ calls' = calls
  BY DEF Unanswered
<1>2. c = calls[e][1] /\ Len(calls[e]) <= 1 /\ Len(calls[e]) # 0
  BY <1>1, FirstCall DEF Sees, Truthful
<1> HIDE DEF c
<1>3. CASE page[e] = List
  BY <1>1, <1>2, <1>3, Elsewhere
<1>4. CASE page[e] # List
  <2>1. /\ Reported(c, page[e], dialog[e], products')
        /\ page[e].doc \in DOMAIN products' /\ page[e].model.id = page[e].doc.n
        /\ page[e].doc.auto = TRUE => Known(page[e]) = products'[page[e].doc]
        /\ Owner(dialog[e])
    BY <1>1, <1>4, EffectSeen DEF c
  <2>2. Truthful(page[e], dialog[e], calls[e], products')
    BY <1>2, <2>1 DEF Truthful
  <2> QED
    BY <1>1, <2>2 DEF Sees
<1> QED
  BY <1>3, <1>4

\* The queue once the call under way is answered.
LEMMA AnsweredQueue ==
    ASSUME TypeOK, DeviceInv, NEW e \in Editors, Sees(e), calls[e] # <<>>
    PROVE  /\ Len(calls[e]) = 1 /\ Head(calls[e]) = calls[e][1] /\ Head(calls[e]) \in Call
           /\ Len(Tail(calls[e])) = 0
           /\ \A parts : Len(Unmount(Tail(calls[e]), parts)) = 0
           /\ Len(Closing(Tail(calls[e]))) = 0
           /\ page[e] # List => /\ Reported(calls[e][1], page[e], dialog[e], products)
                                /\ page[e].doc \in DOMAIN products
                                /\ page[e].model.id = page[e].doc.n
                                /\ page[e].doc.auto = TRUE => Known(page[e]) = products[page[e].doc]
                                /\ Owner(dialog[e])
<1>1. calls[e] \in Seq(Call) /\ Len(calls[e]) <= 1
  BY Here DEF Sees, Truthful
<1>2. Len(calls[e]) = 1 /\ Len(Tail(calls[e])) = 0
  BY <1>1, OneCall
<1>3. ASSUME NEW parts PROVE Len(Unmount(Tail(calls[e]), parts)) = 0
  <2>1. Rest(Unmount(Tail(calls[e]), parts), Tail(calls[e]), 1, parts)
    BY FirstCall, UnmountRest
  <2> QED
    BY <1>2, <2>1 DEF Rest
<1>4. Head(calls[e]) = calls[e][1] /\ Head(calls[e]) \in Call
  BY FirstCall
<1>5. Len(Closing(Tail(calls[e]))) = 0
  <2>1. Rest(Closing(Tail(calls[e])), Tail(calls[e]), 1, {"dialog"})
    BY FirstCall, ClosingRest
  <2> QED
    BY <1>2, <2>1 DEF Rest
<1> QED
  BY <1>2, <1>3, <1>4, <1>5 DEF Sees, Truthful

\* The page is there, and no call any more.
LEMMA Settles ==
    ASSUME NEW e \in Editors, Len(calls'[e]) = 0, page'[e] # List, Owner(dialog'[e]),
           page'[e].doc \in DOMAIN products', page'[e].model.id = page'[e].doc.n,
           Known(page'[e]) = products'[page'[e].doc]
    PROVE  Sees(e)'
BY DEF Sees, Truthful

\* An answer to an administrator who waits closes its own dialog or nothing.
LEMMA ClosedSeen ==
    ASSUME TypeOK, DeviceInv, PatientInv, patient, NEW e \in Editors, calls[e] # <<>>,
           NEW c, c = Head(calls[e]), NEW pages, NEW more, Close(e, c, pages, more)
    PROVE  /\ page' = pages
           /\ "dialog" \in c.mounted =>
                 /\ dialog'[e] = NoDialog
                 /\ calls'[e] = Closing(Tail(calls[e]) \o more)
           /\ "dialog" \notin c.mounted =>
                 /\ dialog'[e] = dialog[e]
                 /\ calls'[e] = Tail(calls[e]) \o more
<1> DEFINE q == Tail(calls[e]) \o more
<1>1. c = calls[e][1] /\ 1 \in 1 .. Len(calls[e]) /\ Calm(calls[e], alert[e])
  BY FirstCall DEF PatientInv
<1>2. "leaving" \notin c.mounted
  BY <1>1 DEF Calm
<1> HIDE DEF q
<1>3. CASE "dialog" \in c.mounted
  <2>1. ~alert[e] /\ dialog[e] # NoDialog
    BY <1>1, <1>3, OwnCall DEF Calm, Fits
  <2>2. Pop(e, pages, Ended(e, c), q)
    BY <1>3 DEF Close, q
  <2>3. CloseDialog(e, q) /\ page' = pages
    BY <2>1, <2>2 DEF Pop
  <2>4. dialog' = [dialog EXCEPT ![e] = NoDialog] /\ calls' = [calls EXCEPT ![e] = Closing(q)]
    BY <2>3 DEF CloseDialog
  <2> QED
    BY <1>3, <2>3, <2>4 DEF TypeOK, q
<1>4. CASE "dialog" \notin c.mounted
  <2>1. c.mounted \cap {"dialog", "leaving"} = {}
    BY <1>2, <1>4
  <2>2. calls' = [calls EXCEPT ![e] = q] /\ page' = pages /\ dialog' = dialog
    BY <2>1 DEF Close, q
  <2> QED
    BY <1>4, <2>2 DEF TypeOK, q
<1> QED
  BY <1>3, <1>4

\* The same when the code of the call makes no other.
LEMMA SettledSeen ==
    ASSUME TypeOK, DeviceInv, PatientInv, patient, NEW e \in Editors, Sees(e), calls[e] # <<>>,
           NEW c, c = Head(calls[e]), NEW pages, Close(e, c, pages, <<>>)
    PROVE  /\ page' = pages /\ Len(calls'[e]) = 0
           /\ Owner(dialog[e]) => Owner(dialog'[e])
           /\ "dialog" \in c.mounted => dialog'[e] = NoDialog
<1> DEFINE none == <<>>
           q == Tail(calls[e]) \o none
<1>1. q = Tail(calls[e])
  BY FirstCall
<1>2. Len(Tail(calls[e])) = 0 /\ Len(Closing(Tail(calls[e]))) = 0
  BY AnsweredQueue
<1>3. Close(e, c, pages, none)
  OBVIOUS
<1> HIDE DEF none
<1>4. /\ page' = pages
      /\ "dialog" \in c.mounted => dialog'[e] = NoDialog /\ calls'[e] = Closing(q)
      /\ "dialog" \notin c.mounted => dialog'[e] = dialog[e] /\ calls'[e] = q
  BY <1>3, ClosedSeen
<1> HIDE DEF q
<1>5. CASE "dialog" \in c.mounted
  BY <1>1, <1>2, <1>4, <1>5 DEF Owner
<1>6. CASE "dialog" \notin c.mounted
  BY <1>1, <1>2, <1>4, <1>6
<1> QED
  BY <1>4, <1>5, <1>6

\* A new product is stored, which is not the one on the page.
LEMMA CreatedSeen ==
    ASSUME TypeOK, DeviceInv, PatientInv, patient, NEW e \in Editors, Sees(e), calls[e] # <<>>,
           NEW c, c = Head(calls[e]), Created(e, c)
    PROVE  Sees(e)'
<1>1. Close(e, c, page, <<>>) /\ Effect(c) /\ c.call = "set"
  BY DEF Created
<1>2. page' = page /\ Len(calls'[e]) = 0 /\ (Owner(dialog[e]) => Owner(dialog'[e]))
  BY <1>1, SettledSeen
<1>3. CASE page[e] = List
  BY <1>2, <1>3, Elsewhere
<1>4. CASE page[e] # List
  <2>1. /\ Reported(c, page[e], dialog[e], products')
        /\ page[e].doc \in DOMAIN products' /\ page[e].model.id = page[e].doc.n
        /\ Owner(dialog[e])
    BY <1>1, <1>4, EffectSeen
  <2>2. Known(page[e]) = products'[page[e].doc]
    BY <1>1, <2>1 DEF Reported
  <2> QED
    BY <1>2, <1>4, <2>1, <2>2, Settles
<1> QED
  BY <1>3, <1>4

\* Details are stored, and copied to the page from the fields.
LEMMA UpdatedSeen ==
    ASSUME TypeOK, DeviceInv, IdsInv, PatientInv, patient, NEW e \in Editors, Sees(e),
           calls[e] # <<>>, NEW c, c = Head(calls[e]), Updated(e, c)
    PROVE  Sees(e)'
<1>1. /\ Effect(c) /\ c.call = "update" /\ EndUpdate(e, c) /\ DocOf(c.n) \in DOMAIN products
  BY DEF Updated
<1>2. c \in Call /\ c = calls[e][1] /\ 1 \in 1 .. Len(calls[e]) /\ c.details \in Details
  BY <1>1, FirstCall, CallParts
<1>3. CASE page[e] = List
  <2>1. "dialog" \notin c.mounted
    <3> SUFFICES ASSUME "dialog" \in c.mounted PROVE FALSE
      OBVIOUS
    <3>1. Fits(c, dialog[e])
      BY OwnCall
    <3>2. dialog[e] # NoDialog /\ dialog[e].kind = "update"
      BY <1>1, <3>1, Here, DialogParts DEF Fits
    <3> QED
      BY <1>3, <3>2, Here DEF Attached
  <2>2. "leaving" \notin c.mounted
    BY <1>2 DEF PatientInv, Calm
  <2>3. FormFor(e, c) = NoForm
    BY <2>1, <2>2 DEF FormFor
  <2>4. CopyBack(e, c) = page
    BY <2>3 DEF CopyBack
  <2>5. Close(e, c, page, <<>>)
    BY <1>1, <2>3, <2>4 DEF EndUpdate
  <2>6. page' = page /\ Len(calls'[e]) = 0
    BY <2>5, SettledSeen
  <2> QED
    BY <1>3, <2>6, Elsewhere
<1>4. CASE page[e] # List
  <2> DEFINE old == page[e]
             m == [old.model EXCEPT !.details = c.details]
             pg == [old EXCEPT !.model = m]
  <2>1. /\ Reported(c, old, dialog[e], products) /\ old.doc \in DOMAIN products
        /\ Owner(dialog[e])
    BY <1>2, <1>4, AnsweredQueue
  <2>2. /\ "dialog" \in c.mounted /\ "page" \in c.mounted
        /\ dialog[e].text = c.details /\ c.n = old.doc.n
    BY <1>1, <2>1 DEF Reported
  <2>3. dialog[e] # NoDialog /\ dialog[e].kind = "update"
    BY <1>1, <2>2, OwnCall, Here, DialogParts DEF Fits
  <2>4. /\ FormFor(e, c) = [text |-> c.details, own |-> TRUE]
        /\ c.details # Blank
    <3>1. dialog[e].own = TRUE
      <4>1. dialog[e].own \in BOOLEAN
        BY <2>3, Here DEF Dialog, NoDialog
      <4> QED
        BY <2>1, <2>3, <4>1 DEF Owner
    <3>2. FormFor(e, c) = [text |-> dialog[e].text, own |-> dialog[e].own]
      BY <2>2, <2>3 DEF FormFor, FormOf
    <3> QED
      BY <1>2, <2>2, <3>1, <3>2, BlankAssumption
  <2>5. CopyBack(e, c) = [page EXCEPT ![e] = pg]
    <3>1. FormFor(e, c) # NoForm /\ FormFor(e, c).own /\ FormFor(e, c).text = c.details
      BY <2>4 DEF NoForm
    <3> QED
      BY <2>2, <3>1 DEF CopyBack
  <2>6. Close(e, c, [page EXCEPT ![e] = pg], <<>>)
    <3>1. FormFor(e, c).text # Blank
      BY <2>4
    <3> QED
      BY <1>1, <2>5, <3>1 DEF EndUpdate
  <2>7. page'[e] = pg /\ Len(calls'[e]) = 0 /\ dialog'[e] = NoDialog
    <3>1. page' = [page EXCEPT ![e] = pg] /\ Len(calls'[e]) = 0 /\ dialog'[e] = NoDialog
      BY <2>2, <2>6, SettledSeen
    <3> QED
      BY <3>1 DEF TypeOK
  <2>8. old \in Page /\ old.model \in ProductModel /\ old.doc.auto \in BOOLEAN
    BY <1>4, Here, PageParts, PageDoc
  <2>9. old.doc.auto = FALSE
    BY <1>1, <1>4, <2>1, <2>2, <2>8, HiddenDoc
  <2>10. /\ products'[old.doc] = [Known(old) EXCEPT !.details = c.details]
         /\ old.doc \in DOMAIN products' /\ old.model.id = old.doc.n
    BY <1>1, <1>4, <2>9, EffectSeen
  <2>11. Known(pg) = [Known(old) EXCEPT !.details = c.details]
    BY <1>2, <1>4, <2>8, KnownCopied
  <2> HIDE DEF old
  <2>12. m.id = old.model.id /\ m \in ProductModel
    BY <1>2, <2>8 DEF ProductModel
  <2> HIDE DEF m
  <2>13. pg.doc = old.doc /\ pg.model = m /\ pg # List
    BY <1>4, <2>8, <2>12, PageDoc, PageParts DEF old
  <2> HIDE DEF pg
  <2>14. Owner(dialog'[e])
    BY <2>7 DEF Owner
  <2> QED
    BY <2>7, <2>10, <2>11, <2>12, <2>13, <2>14, Settles
<1> QED
  BY <1>3, <1>4

\* A price is stored, and the product read again.
LEMMA PriceSetSeen ==
    ASSUME TypeOK, DeviceInv, PatientInv, patient, NEW e \in Editors, Sees(e), calls[e] # <<>>,
           NEW c, c = Head(calls[e]), PriceSet(e, c)
    PROVE  Sees(e)'
<1> DEFINE g == [call |-> "get", n |-> c.n, mounted |-> c.mounted \cap {"page", "app"}]
<1>1. /\ Effect(c) /\ c.call = "price"
      /\ "app" \in c.mounted => Close(e, c, page, <<g>>)
      /\ "app" \notin c.mounted => Close(e, c, page, <<>>)
  BY DEF PriceSet
<1>2. c \in Call /\ c.n \in Time /\ c.mounted \in SUBSET Parts /\ c = calls[e][1]
  BY FirstCall, CallParts
<1>3. g \in Call /\ g.call = "get" /\ g.n = c.n /\ g.mounted = c.mounted \cap {"page", "app"}
  BY <1>2 DEF Call, Parts
<1> HIDE DEF g
<1>4. CASE "app" \notin c.mounted
  <2>1. page' = page /\ Len(calls'[e]) = 0
    BY <1>1, <1>4, SettledSeen
  <2>2. page[e] = List
    BY <1>2, <1>4, AnsweredQueue DEF Reported
  <2> QED
    BY <2>1, <2>2, Elsewhere
<1>5. CASE "app" \in c.mounted
  <2> DEFINE q == Tail(calls[e]) \o <<g>>
  <2>1. q \in Seq(Call) /\ Len(q) = 1 /\ q[1] = g
    <3> DEFINE t == Tail(calls[e])
    <3>1. t \in Seq(Call) /\ Len(t) = 0
      BY FirstCall, AnsweredQueue
    <3> HIDE DEF t
    <3>2. t \o <<g>> \in Seq(Call) /\ Len(t \o <<g>>) = 1 /\ (t \o <<g>>)[1] = g
      BY <1>3, <3>1
    <3> QED
      BY <3>2 DEF t
  <2>2. /\ page' = page
        /\ "dialog" \in c.mounted => dialog'[e] = NoDialog /\ calls'[e] = Closing(q)
        /\ "dialog" \notin c.mounted => calls'[e] = q
    BY <1>1, <1>5, ClosedSeen
  <2> HIDE DEF q
  <2>3. Len(Closing(q)) = 1 /\ Same(Closing(q)[1], g, {"dialog"})
    <3>1. Rest(Closing(q), q, 1, {"dialog"})
      BY <2>1, ClosingRest
    <3>2. Len(Closing(q)) = 1
      BY <2>1, <3>1 DEF Rest
    <3>3. 1 \in 1 .. Len(Closing(q)) /\ 1 + 1 - 1 = 1
      BY <3>2
    <3> QED
      BY <2>1, <3>1, <3>2, <3>3 DEF Rest
  <2>4. CASE page[e] = List
    <3>1. page'[e] = List /\ Len(calls'[e]) = 1
      BY <2>1, <2>2, <2>3, <2>4
    <3>2. 1 <= 1
      OBVIOUS
    <3>3. Len(calls'[e]) <= 1
      BY <3>1, <3>2, Zenon
    <3> QED
      BY <3>1, <3>3, Elsewhere
  <2>5. CASE page[e] # List
    <3>1. /\ Reported(c, page[e], dialog[e], products')
          /\ page[e].doc \in DOMAIN products' /\ page[e].model.id = page[e].doc.n
          /\ page[e].doc.auto = TRUE => Known(page[e]) = products'[page[e].doc]
      BY <1>1, <2>5, EffectSeen
    <3>2. dialog'[e] = NoDialog /\ calls'[e] = Closing(q)
      BY <1>1, <2>2, <3>1 DEF Reported
    <3> DEFINE g1 == Closing(q)[1]
    <3>3. /\ g1.call = "get" /\ g1.n = c.n
          /\ "page" \in g1.mounted /\ "app" \in g1.mounted
      BY <1>1, <1>3, <1>5, <2>3, <3>1 DEF Same, Reported
    <3>4. Reported(g1, page[e], dialog'[e], products')
      <4> HIDE DEF g1
      <4> QED
        BY <1>1, <3>1, <3>2, <3>3 DEF Reported
    <3>5. Len(calls'[e]) = 1 /\ calls'[e][1] = g1 /\ Owner(dialog'[e])
      BY <2>3, <3>2 DEF Owner
    <3> HIDE DEF g1
    <3>6. Truthful(page[e], dialog'[e], calls'[e], products')
      BY <3>1, <3>4, <3>5 DEF Truthful
    <3> QED
      BY <2>2, <3>6 DEF Sees
  <2> QED
    BY <2>4, <2>5
<1> QED
  BY <1>4, <1>5

\* The price of a swiped card is gone.
LEMMA DismissedSeen ==
    ASSUME TypeOK, DeviceInv, NEW e \in Editors, Sees(e), calls[e] # <<>>,
           NEW c, c = Head(calls[e]), Dismissed(e, c)
    PROVE  Sees(e)'
<1>1. /\ Effect(c) /\ c.call = "dismiss" /\ page' = page /\ dialog' = dialog
      /\ calls'[e] = Tail(calls[e])
  BY DEF Dismissed, TypeOK
<1>2. Len(calls'[e]) = 0
  BY <1>1, AnsweredQueue
<1>3. CASE page[e] = List
  <2>1. page'[e] = List
    BY <1>1, <1>3
  <2>2. 0 <= 1
    OBVIOUS
  <2>3. Len(calls'[e]) <= 1
    BY <1>2, <2>2, Zenon
  <2> QED
    BY <2>1, <2>3, Elsewhere
<1>4. CASE page[e] # List
  <2>1. /\ page[e].doc \in DOMAIN products' /\ page[e].model.id = page[e].doc.n
        /\ Owner(dialog[e]) /\ Known(page[e]) = products'[page[e].doc]
    BY <1>1, <1>4, EffectSeen
  <2> QED
    BY <1>1, <1>2, <1>4, <2>1, Settles
<1> QED
  BY <1>3, <1>4

\* Only an imported product is not found, and its page shows it unchanged.
LEMMA NotFoundSeen ==
    ASSUME TypeOK, DeviceInv, NEW e \in Editors, Sees(e), calls[e] # <<>>,
           NEW c, c = Head(calls[e]), NotFound(e, c)
    PROVE  Sees(e)'
<1>1. /\ page' = page /\ products' = products /\ c.call \in {"update", "price", "dismiss"}
      /\ DocOf(c.n) \notin DOMAIN products /\ calls'[e] = Tail(calls[e])
  BY DEF NotFound, stored, TypeOK
<1>2. Len(calls'[e]) = 0 /\ c = calls[e][1]
  BY <1>1, AnsweredQueue
<1>3. CASE page[e] = List
  <2>1. 0 <= 1
    OBVIOUS
  <2>2. page'[e] = List /\ Len(calls'[e]) <= 1
    BY <1>1, <1>2, <1>3, <2>1, Zenon
  <2> QED
    BY <2>2, Elsewhere
<1>4. CASE page[e] # List
  <2> DEFINE d == dialog[e]
  <2>1. /\ Reported(c, page[e], d, products) /\ page[e].doc \in DOMAIN products
        /\ page[e].model.id = page[e].doc.n
        /\ page[e].doc.auto = TRUE => Known(page[e]) = products[page[e].doc]
        /\ Owner(d)
    BY <1>2, <1>4, AnsweredQueue
  <2>2. c.n = page[e].doc.n
    BY <1>1, <2>1 DEF Reported
  <2>3. page[e].doc.auto = TRUE
    <3>1. page[e].doc.auto \in BOOLEAN /\ (page[e].doc.auto = FALSE => page[e].doc = DocOf(page[e].doc.n))
      BY <1>4, Here, PageDoc
    <3> QED
      BY <1>1, <2>1, <2>2, <3>1
  <2>4. Owner(dialog'[e])
    <3>1. CASE "dialog" \in c.mounted
      <4>1. d # NoDialog /\ d \in Dialog
        BY <3>1, OwnCall, Here DEF Fits
      <4>2. dialog'[e] = [d EXCEPT !.stuck = TRUE]
        BY <3>1 DEF NotFound, TypeOK
      <4> HIDE DEF d
      <4> QED
        BY <2>1, <4>1, <4>2, Owns
    <3>2. CASE "dialog" \notin c.mounted
      BY <2>1, <3>2 DEF NotFound
    <3> QED
      BY <3>1, <3>2
  <2> QED
    BY <1>1, <1>2, <1>4, <2>1, <2>3, <2>4, Settles
<1> QED
  BY <1>3, <1>4

\* The product is read again.
LEMMA ReloadedSeen ==
    ASSUME TypeOK, DeviceInv, IdsInv, Named, NEW e \in Editors, Sees(e), calls[e] # <<>>,
           NEW c, c = Head(calls[e]), Reloaded(e, c)
    PROVE  Sees(e)'
<1>1. products' = products /\ c.call = "get" /\ calls'[e] = Tail(calls[e])
  BY DEF Reloaded, stored, TypeOK
<1>2. Len(calls'[e]) = 0 /\ c = calls[e][1] /\ Len(calls[e]) = 1
  BY <1>1, AnsweredQueue
<1>3. View(e) = products
  <2>1. \A i \in 1 .. Len(calls[e]) : calls[e][i].call = "get"
    BY <1>1, <1>2
  <2> QED
    BY <2>1, ViewSame
<1>4. CASE page[e] = List
  <2>1. "page" \notin c.mounted
    BY <1>4, FirstCall, Here DEF Attached
  <2>2. page' = page
    BY <2>1 DEF Reloaded
  <2> QED
    BY <1>2, <1>4, <2>2, Elsewhere
<1>5. CASE page[e] # List
  <2> DEFINE old == page[e]
             m == products[old.doc]
             pg == [old EXCEPT !.model = m, !.swiped = {}]
  <2>1. /\ Reported(c, old, dialog[e], products) /\ old.doc \in DOMAIN products
        /\ old.model.id = old.doc.n
        /\ old.doc.auto = TRUE => Known(old) = products[old.doc]
    BY <1>2, <1>5, AnsweredQueue
  <2>2. "page" \in c.mounted /\ c.n = old.doc.n /\ dialog[e] = NoDialog
    BY <1>1, <2>1 DEF Reported
  <2>3. dialog' = dialog /\ Owner(dialog'[e])
    <3>1. dialog' = dialog
      BY <2>2 DEF Reloaded, Shows
    <3> QED
      BY <2>2, <3>1 DEF Owner
  <2>4. old \in Page /\ old.doc.auto \in BOOLEAN /\ (old.doc.auto = FALSE => old.doc = DocOf(c.n))
    BY <1>5, <2>2, Here, PageDoc
  <2>5. CASE DocOf(c.n) \in DOMAIN products
    <3>1. old.doc = DocOf(c.n)
      BY <1>5, <2>1, <2>2, <2>4, <2>5, HiddenDoc
    <3>2. page'[e] = pg
      BY <1>3, <2>2, <2>5, <3>1 DEF Reloaded, TypeOK
    <3>3. m \in ProductModel /\ m.id = old.doc.n
      BY <2>1 DEF Named, TypeOK
    <3> HIDE DEF m
    <3>4. /\ pg.doc = old.doc /\ pg.model = m /\ pg.swiped = {}
          /\ pg \in Page /\ pg # List
      <4> HIDE DEF old
      <4>1. old \in Page /\ old # List
        BY <1>5, <2>4 DEF old
      <4>2. pg.doc = old.doc /\ pg.model = m /\ pg.swiped = {}
        BY <4>1, PageDoc
      <4>3. pg \in Page /\ pg # List
        BY <3>3, <4>1, PageParts
      <4> QED
        BY <4>2, <4>3
    <3> HIDE DEF pg
    <3>5. Known(pg) = m
      BY <3>4, KnownParts
    <3> QED
      BY <1>1, <1>2, <2>1, <2>3, <3>2, <3>3, <3>4, <3>5, Settles DEF m
  <2>6. CASE DocOf(c.n) \notin DOMAIN products
    <3>1. page' = page
      BY <1>3, <2>6 DEF Reloaded
    <3> QED
      BY <1>1, <1>2, <1>5, <2>1, <2>3, <2>4, <2>6, <3>1, Settles
  <2> QED
    BY <2>5, <2>6
<1> QED
  BY <1>4, <1>5

\* Deletions and rows are answered on the list.
LEMMA ListSeen ==
    ASSUME TypeOK, DeviceInv, NEW e \in Editors, Sees(e), calls[e] # <<>>,
           NEW c, c = Head(calls[e]), Deleted(e, c) \/ RowAdded(e, c) \/ RowKept(e, c)
    PROVE  Sees(e)'
<1> DEFINE t == Tail(calls[e])
<1>1. c.call \in {"delete", "add"} /\ c = calls[e][1]
  BY AnsweredQueue DEF Deleted, RowAdded, RowKept
<1>2. page[e] = List
  BY <1>1, AnsweredQueue DEF Reported
<1>3. t \in Seq(Call) /\ Len(t) = 0
  BY FirstCall, AnsweredQueue
<1>4. Len(Closing(t)) = 0 /\ \A parts : Len(Unmount(t, parts)) = 0
  BY AnsweredQueue
<1>5. \A x : Len(Append(t, x)) = 1
  <2> HIDE DEF t
  <2> QED
    BY <1>3
<1> HIDE DEF t
<1>6. /\ page'[e] = List
      /\ \/ calls'[e] = t
         \/ \E x : calls'[e] = Append(t, x)
         \/ calls'[e] = Closing(t)
         \/ \E parts : calls'[e] = Unmount(t, parts)
  <2>1. CASE Deleted(e, c) \/ RowKept(e, c)
    BY <1>2, <2>1 DEF Deleted, RowKept, TypeOK, t
  <2>2. CASE Pop(e, page, dialog, t)
    BY <1>2, <2>2 DEF Pop, CloseDialog, TypeOK
  <2>3. CASE page' = page /\ calls' = [calls EXCEPT ![e] = Append(t, AddRow(rows[e][2]))]
    BY <1>2, <2>3 DEF TypeOK
  <2> QED
    BY <2>1, <2>2, <2>3 DEF RowAdded, t
<1>7. Len(calls'[e]) = 0 \/ Len(calls'[e]) = 1
  BY <1>3, <1>4, <1>5, <1>6
<1>8. 0 <= 1 /\ 1 <= 1
  OBVIOUS
<1>9. Len(calls'[e]) <= 1
  BY <1>7, <1>8, Zenon
<1> QED
  BY <1>6, <1>9, Elsewhere

----------------------------------------------------------------------------
\* Every step of the one device.
LEMMA SeenStep ==
    ASSUME TypeOK, DeviceInv, IdsInv, PatientInv, Named, patient, OneEditor, Next,
           \A e \in Editors : Sees(e)
    PROVE  \A e \in Editors : Sees(e)'
<1>1. PICK e \in Editors :
           \/ \E d \in DOMAIN View(e) : OpenProduct(e, d)
           \/ Back(e)
           \/ \E kept \in BOOLEAN : Restart(e, kept)
           \/ Refresh(e)
           \/ Delete(e)
           \/ AddNewItem(e)
           \/ UpdateItem(e)
           \/ \E v \in Details \cup {Blank} : Type(e, v)
           \/ Done(e)
           \/ Cancel(e)
           \/ Left(e)
           \/ \E c \in Customers : AskPrice(e, c) \/ Dismiss(e, c)
           \/ \E p \in Prices : OkPrice(e, p)
           \/ OkPriceEmpty(e)
           \/ \E k \in 1 .. MaxRows : Import(e, k)
           \/ CancelPick(e)
           \/ DismissAlert(e)
           \/ Answer(e)
           \/ Unanswered(e)
  BY DEF Next
<1>2. Sees(e) /\ \A f \in Editors : f = e
  BY DEF OneEditor
<1> SUFFICES Sees(e)'
  BY <1>2
<1>3. CASE \E d \in DOMAIN View(e) : OpenProduct(e, d)
  BY <1>3, OpenSeen
<1>4. CASE Back(e) \/ Delete(e) \/ \E kept \in BOOLEAN : Restart(e, kept)
  BY <1>2, <1>4, LeaveSeen
<1>5. CASE \/ AddNewItem(e) \/ UpdateItem(e) \/ Cancel(e) \/ OkPriceEmpty(e) \/ CancelPick(e)
           \/ \E v \in Details \cup {Blank} : Type(e, v)
           \/ \E c \in Customers : AskPrice(e, c)
  BY <1>2, <1>5, PressSeen
<1>6. CASE Refresh(e) \/ Done(e) \/ DismissAlert(e)
  BY <1>2, <1>6, RefreshSeen, DoneSeen, AlertSeen
<1>7. CASE \E c \in Customers : Dismiss(e, c)
  BY <1>2, <1>7, DismissSeen
<1>8. CASE \E p \in Prices : OkPrice(e, p)
  BY <1>2, <1>8, OkPriceSeen
<1>9. CASE \E k \in 1 .. MaxRows : Import(e, k)
  BY <1>9, ImportSeen
<1>10. CASE Unanswered(e)
  BY <1>2, <1>10, UnansweredSeen
<1>11. CASE Answer(e)
  <2> DEFINE c == Head(calls[e])
  <2>1. /\ calls[e] # <<>>
        /\ \/ Created(e, c) \/ Updated(e, c) \/ PriceSet(e, c) \/ Dismissed(e, c)
           \/ NotFound(e, c) \/ Reloaded(e, c) \/ Deleted(e, c) \/ RowAdded(e, c) \/ RowKept(e, c)
    BY <1>11 DEF Answer
  <2>2. CASE Created(e, c) \/ Updated(e, c) \/ PriceSet(e, c)
    BY <1>2, <2>1, <2>2, CreatedSeen, UpdatedSeen, PriceSetSeen
  <2>3. CASE NotFound(e, c) \/ Reloaded(e, c)
    BY <1>2, <2>1, <2>3, NotFoundSeen, ReloadedSeen
  <2>4. CASE Dismissed(e, c) \/ Deleted(e, c) \/ RowAdded(e, c) \/ RowKept(e, c)
    BY <1>2, <2>1, <2>4, DismissedSeen, ListSeen
  <2> QED
    BY <2>1, <2>2, <2>3, <2>4
<1>12. CASE Left(e)
  <2>1. PICK c \in ToSet(calls[e]) : "leaving" \in c.mounted
    BY <1>12 DEF Left
  <2>2. calls[e] \in Seq(Call) /\ Calm(calls[e], alert[e])
    BY Here DEF PatientInv
  <2>3. \E i \in 1 .. Len(calls[e]) : c = calls[e][i]
    BY <2>2 DEF ToSet
  <2> QED
    BY <2>1, <2>2, <2>3 DEF Calm
<1> QED
  BY <1>1, <1>3, <1>4, <1>5, <1>6, <1>7, <1>8, <1>9, <1>10, <1>11, <1>12

\* With one administrator who waits, productModel and the swiped cards tell what is
\* stored, whatever is updated, priced, swiped away, refreshed, created, deleted or
\* imported, and however often an answer is lost or the application started again.
THEOREM PageTruthfulHolds ==
    ASSUME OneEditor
    PROVE  Spec => []PageTruthful
<1>1. Init => TruthInv
  <2> SUFFICES ASSUME Init PROVE TruthInv
    OBVIOUS
  <2>1. DOMAIN products = {}
    BY DEF Init
  <2>2. ASSUME NEW e \in Editors PROVE Sees(e)
    <3>1. page[e] = List /\ calls[e] = <<>> /\ Len(<<>>) = 0
      BY DEF Init
    <3> QED
      BY <3>1 DEF Sees, Truthful
  <2> QED
    BY <2>1, <2>2 DEF TruthInv, Named
<1>2. TypeOK /\ DeviceInv /\ PatientInv /\ IdsInv /\ TruthInv /\ [Next]_vars => TruthInv'
  <2> SUFFICES ASSUME TypeOK, DeviceInv, PatientInv, IdsInv, TruthInv, [Next]_vars PROVE TruthInv'
    OBVIOUS
  <2>1. CASE Next
    <3>1. PICK e \in Editors : Step(e)
      BY <2>1, NextStep
    <3>2. Named /\ Named'
      BY <3>1, NamedStep DEF TruthInv
    <3>3. patient' = patient
      BY <2>1 DEF Next
    <3>4. ASSUME patient' PROVE \A f \in Editors : Sees(f)'
      BY <2>1, <3>2, <3>3, <3>4, SeenStep DEF TruthInv
    <3> QED
      BY <3>2, <3>4 DEF TruthInv
  <2>2. CASE UNCHANGED vars
    BY <2>2 DEF vars, TruthInv, Named, Sees
  <2> QED
    BY <2>1, <2>2
<1>3. TypeOK /\ TruthInv => PageTruthful
  <2> SUFFICES ASSUME TypeOK, TruthInv, NEW e \in Editors, patient, Editing(e), calls[e] = <<>>
               PROVE  Known(page[e]) = products[page[e].doc]
    BY DEF PageTruthful
  <2>1. Len(calls[e]) = 0 /\ page[e] # List
    BY DEF Editing
  <2> QED
    BY <2>1 DEF TruthInv, Sees, Truthful
<1> QED
  BY <1>1, <1>2, <1>3, PatientInductive, IdsInductive, PTL DEF Spec
=============================================================================

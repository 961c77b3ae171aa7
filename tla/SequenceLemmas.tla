--------------------------- MODULE SequenceLemmas ---------------------------
(***************************************************************************)
(* Facts about least numbers and about sequences that the proofs of more   *)
(* than one module rest on.                                                *)
(***************************************************************************)
EXTENDS Integers, SequencesExt, TLAPS, SequenceTheorems, FunctionTheorems,
        FiniteSetTheorems, WellFoundedInduction

-----------------------------------------------------------------------------
(***************************************************************************)
(* Least and greatest elements.                                            *)
(***************************************************************************)
(* The pairs that the order of the naturals is made of.                    *)
LEMMA PairBelow ==
  ASSUME NEW k \in Nat, NEW m \in Nat, k < m
  PROVE  <<k, m>> \in {ss \in Nat \X Nat : ss[1] < ss[2]}
OBVIOUS

(* A nonempty set of naturals has a least element.                         *)
LEMMA LeastNat ==
  ASSUME NEW S \in SUBSET Nat, S # {}
  PROVE  \E m \in S : \A k \in S : m <= k
<1>1. PICK m \in S : \A k \in S : <<k, m>> \notin OpToRel(<, Nat)
  BY WFMin, NatLessThanWellFounded, Zenon
<1>2. \A k \in S : <<k, m>> \notin {ss \in Nat \X Nat : ss[1] < ss[2]}
  BY <1>1, Zenon DEF OpToRel
<1>3. \A k \in S : ~(k < m)
  BY <1>2, PairBelow
<1>4. m \in Nat /\ \A k \in S : k \in Nat
  OBVIOUS
<1>5. QED  BY <1>3, <1>4

(* Min and Max of a set of positions are what their names say.             *)
LEMMA MinIsLeast ==
  ASSUME NEW S \in SUBSET Nat, S # {}
  PROVE  Min(S) \in S /\ \A k \in S : Min(S) <= k
<1>1. \E m \in S : \A k \in S : m <= k
  BY LeastNat
<1>2. QED  BY <1>1, Zenon DEF Min

(* The greatest of a set of positions, likewise.                           *)
LEMMA MaxIsGreatest ==
  ASSUME NEW n \in Nat, NEW S \in SUBSET (1..n), S # {}
  PROVE  Max(S) \in S /\ \A k \in S : k <= Max(S)
<1> DEFINE T == {n - k : k \in S}
<1>0. \A k \in S : k \in 1..n /\ n - k \in Nat
  OBVIOUS
<1>1. T \in SUBSET Nat /\ T # {}
  BY <1>0
<1>2. PICK t \in T : \A u \in T : t <= u
  BY <1>1, LeastNat
<1>3. PICK m \in S : t = n - m
  OBVIOUS
<1>4. \A k \in S : m >= k
  <2> TAKE k \in S
  <2>1. n - k \in T
    OBVIOUS
  <2>2. n - m <= n - k
    BY <1>2, <1>3, <2>1
  <2>3. QED  BY <1>0, <2>2
<1>5. \E x \in S : \A y \in S : x >= y
  BY <1>4, Zenon
<1>6. Max(S) \in S /\ \A y \in S : Max(S) >= y
  BY <1>5, Zenon DEF Max
<1>7. QED  BY <1>6

-----------------------------------------------------------------------------
(***************************************************************************)
(* Sequences put together from sequences: by induction on their number, in *)
(* the form that the least number for which a claim fails cannot be.       *)
(***************************************************************************)
(* What FlattenSeq puts together.                                          *)
LEMMA FlattenDef ==
  ASSUME NEW seqs, Len(seqs) # 0
  PROVE  FlattenSeq(seqs) =
           (CHOOSE f : f = [k \in 1..Len(seqs) |->
                              IF k = 1 THEN seqs[k] ELSE f[k - 1] \o seqs[k]])[Len(seqs)]
BY Zenon DEF FlattenSeq

(* The first n sequences together, for each n up to some.                 *)
Joins(s, n, f) == f = [k \in 1..n |-> IF k = 1 THEN s[k] ELSE f[k - 1] \o s[k]]

(* They exist, for every number of sequences.                              *)
LEMMA JoinsExist ==
  ASSUME NEW s, NEW n \in Nat
  PROVE  \E f : Joins(s, n, f)
<1> DEFINE Fails == {m \in Nat : ~ \E f : Joins(s, m, f)}
<1>1. SUFFICES ASSUME Fails # {}  PROVE FALSE
  BY <1>1
<1>2. PICK m \in Fails : \A k \in Fails : m <= k
  BY <1>1, LeastNat
<1>3. m \in Nat /\ ~ \E f : Joins(s, m, f)
  OBVIOUS
<1>4. m # 0
  <2>1. Joins(s, 0, [k \in 1..0 |-> s])
    BY DEF Joins
  <2>2. QED  BY <1>3, <2>1
<1>5. m - 1 \in Nat /\ ~(m <= m - 1)
  BY <1>3, <1>4
<1>6. PICK f : Joins(s, m - 1, f)
  BY <1>2, <1>5
<1> HIDE DEF Fails
<1> DEFINE g == [k \in 1..m |-> IF k = m /\ m # 1 THEN f[m - 1] \o s[m]
                                 ELSE IF k = 1 THEN s[k] ELSE f[k]]
<1>7. \A k \in 1..(m - 1) : f[k] = IF k = 1 THEN s[k] ELSE f[k - 1] \o s[k]
  BY <1>5, <1>6, Zenon DEF Joins
<1>8. \A k \in 1..(m - 1) : g[k] = f[k]
  BY <1>3, <1>7
<1>9. \A k \in 1..m : g[k] = IF k = 1 THEN s[k] ELSE g[k - 1] \o s[k]
  <2> TAKE k \in 1..m
  <2>1. CASE k = 1
    BY <2>1, <1>3
  <2>2. CASE k # 1
    <3>0. k - 1 \in 1..(m - 1)
      BY <1>3, <2>2
    <3>1. k - 1 \in 1..(m - 1) /\ g[k - 1] = f[k - 1]
      BY <1>8, <3>0, Zenon
    <3>2. CASE k = m
      <4>1. g[k] = f[m - 1] \o s[m]
        BY <2>2, <3>2
      <4>2. QED  BY <2>2, <3>1, <3>2, <4>1
    <3>3. CASE k # m
      <4>1. k \in 1..(m - 1)
        BY <1>3, <3>3
      <4>2. g[k] = f[k - 1] \o s[k]
        BY <1>7, <1>8, <2>2, <4>1, Zenon
      <4>3. QED  BY <2>2, <3>1, <4>2
    <3>4. QED  BY <3>2, <3>3
  <2>3. QED  BY <2>1, <2>2
<1> DEFINE h == [k \in 1..m |-> IF k = 1 THEN s[k] ELSE g[k - 1] \o s[k]]
<1>10. g = h
  <2>1. \A k \in 1..m : g[k] = h[k]
    BY <1>9, Zenon
  <2>2. QED  BY <2>1, Zenon
<1>11. Joins(s, m, g)
  BY <1>10, Zenon DEF Joins
<1>12. QED  BY <1>3, <1>11

(* They are sequences over S, when the parts are.                          *)
LEMMA JoinsSeqs ==
  ASSUME NEW S, NEW s \in Seq(Seq(S)), NEW f, Joins(s, Len(s), f)
  PROVE  \A k \in 1..Len(s) :
           /\ f[k] \in Seq(S)
           /\ f[k] = IF k = 1 THEN s[k] ELSE f[k - 1] \o s[k]
<1>0. SUFFICES \A k \in 1..Len(s) : f[k] \in Seq(S)
  BY Zenon DEF Joins
<1> DEFINE Fails == {m \in 1..Len(s) : f[m] \notin Seq(S)}
<1>1. SUFFICES ASSUME Fails # {}  PROVE FALSE
  OBVIOUS
<1>2. Fails \in SUBSET Nat
  OBVIOUS
<1>3. PICK m \in Fails : \A k \in Fails : m <= k
  BY <1>1, <1>2, LeastNat
<1>4. m \in 1..Len(s) /\ f[m] \notin Seq(S)
  OBVIOUS
<1>5. \A k \in 1..Len(s) : f[k] = IF k = 1 THEN s[k] ELSE f[k - 1] \o s[k]
  BY Zenon DEF Joins
<1>6. \A k \in 1..Len(s) : s[k] \in Seq(S)
  BY ElementOfSeq
<1>7. m # 1
  BY <1>4, <1>5, <1>6
<1>8. m - 1 \in 1..Len(s) /\ ~(m <= m - 1)
  BY <1>4, <1>7, LenProperties
<1>9. f[m - 1] \in Seq(S)
  BY <1>3, <1>8
<1>10. f[m] = f[m - 1] \o s[m]
  BY <1>4, <1>5, <1>7, Zenon
<1>11. f[m - 1] \o s[m] \in Seq(S)
  BY <1>4, <1>6, <1>9, ConcatProperties
<1>12. QED  BY <1>4, <1>10, <1>11

(* Putting together sequences over S makes a sequence over S.              *)
LEMMA FlattenInSeq ==
  ASSUME NEW S, NEW s \in Seq(Seq(S))
  PROVE  FlattenSeq(s) \in Seq(S)
<1>1. Len(s) \in Nat
  BY LenProperties
<1>2. CASE Len(s) = 0
  <2>1. FlattenSeq(s) = s /\ s = << >>
    <3>1. s = << >>
      BY <1>2, EmptySeq
    <3>2. FlattenSeq(s) = s
      BY <1>2, Zenon DEF FlattenSeq
    <3>3. QED  BY <3>1, <3>2
  <2>2. QED  BY <2>1
<1>3. CASE Len(s) # 0
  <2>1. \E f : Joins(s, Len(s), f)
    BY <1>1, JoinsExist
  <2>2. PICK f : /\ Joins(s, Len(s), f)
                 /\ f = (CHOOSE g : g = [k \in 1..Len(s) |->
                                           IF k = 1 THEN s[k] ELSE g[k - 1] \o s[k]])
    BY <2>1, Zenon DEF Joins
  <2>3. FlattenSeq(s) = f[Len(s)]
    BY <1>3, <2>2, FlattenDef, Zenon
  <2>4. Len(s) \in 1..Len(s)
    BY <1>1, <1>3
  <2>5. f[Len(s)] \in Seq(S)
    BY <2>2, <2>4, JoinsSeqs
  <2>6. QED  BY <2>3, <2>5
<1>4. QED  BY <1>2, <1>3

-----------------------------------------------------------------------------
(***************************************************************************)
(* Where the elements of sequences put together come from.                 *)
(***************************************************************************)
(* The places <<k, q>> of the elements: the qth of the kth sequence.       *)
Spots(s) == UNION {{k} \X DOMAIN s[k] : k \in DOMAIN s}

(* u is the first n sequences put together: its element i is the Q[i]th of *)
(* the K[i]th, and each of theirs is there once.                           *)
Lists(s, n, u, K, Q) ==
  /\ \A i \in 1..Len(u) : /\ K[i] \in 1..n /\ Q[i] \in 1..Len(s[K[i]])
                          /\ u[i] = s[K[i]][Q[i]]
  /\ \A i, h \in 1..Len(u) : K[i] = K[h] /\ Q[i] = Q[h] => i = h
  /\ \A k \in 1..n : \A q \in 1..Len(s[k]) : \E i \in 1..Len(u) : K[i] = k /\ Q[i] = q

(* One more sequence is put at the end.                                    *)
LEMMA ListsOneMore ==
  ASSUME NEW S, NEW s \in Seq(Seq(S)), NEW n \in 1..Len(s), NEW u \in Seq(S),
         NEW K, NEW Q, Lists(s, n - 1, u, K, Q)
  PROVE  \E K2, Q2 : Lists(s, n, u \o s[n], K2, Q2)
<1>1. /\ Len(s) \in Nat /\ n \in Nat /\ Len(u) \in Nat /\ s[n] \in Seq(S)
      /\ \A k \in 1..Len(s) : Len(s[k]) \in Nat
  BY LenProperties, ElementOfSeq
<1>2. PICK w : w = s[n]
  OBVIOUS
<1>3. PICK v : v = u \o w
  OBVIOUS
<1>4. /\ Len(v) = Len(u) + Len(w) /\ Len(w) \in Nat
      /\ \A i \in 1..Len(v) : v[i] = IF i <= Len(u) THEN u[i] ELSE w[i - Len(u)]
  BY <1>1, <1>2, <1>3, ConcatProperties
<1>5. PICK a \in Nat : a = Len(u)
  BY <1>1
<1>6. PICK b \in Nat : b = Len(w)
  BY <1>4
<1> DEFINE K2 == [i \in 1..Len(v) |-> IF i <= a THEN K[i] ELSE n]
           Q2 == [i \in 1..Len(v) |-> IF i <= a THEN Q[i] ELSE i - a]
<1>7. /\ \A i \in 1..a : K2[i] = K[i] /\ Q2[i] = Q[i] /\ v[i] = u[i]
      /\ \A i \in (a + 1)..(a + b) : K2[i] = n /\ Q2[i] = i - a /\ v[i] = w[i - a]
      /\ \A i \in 1..Len(v) : i \in 1..a \/ i \in (a + 1)..(a + b)
      /\ Len(v) = a + b
  BY <1>4, <1>5, <1>6
<1> HIDE DEF K2, Q2
<1>8. /\ \A i \in 1..a : /\ K[i] \in 1..(n - 1) /\ Q[i] \in 1..Len(s[K[i]])
                         /\ u[i] = s[K[i]][Q[i]]
      /\ \A i, h \in 1..a : K[i] = K[h] /\ Q[i] = Q[h] => i = h
      /\ \A k \in 1..(n - 1) : \A q \in 1..Len(s[k]) : \E i \in 1..a : K[i] = k /\ Q[i] = q
  BY <1>5 DEF Lists
<1>9. ASSUME NEW i \in 1..Len(v)
      PROVE  K2[i] \in 1..n /\ Q2[i] \in 1..Len(s[K2[i]]) /\ v[i] = s[K2[i]][Q2[i]]
  <2>1. CASE i \in 1..a
    <3>1. K[i] \in 1..n
      BY <1>1, <1>8, <2>1
    <3>2. QED  BY <1>7, <1>8, <2>1, <3>1
  <2>2. CASE i \in (a + 1)..(a + b)
    <3>1. i - a \in 1..b /\ n \in 1..n
      BY <1>1, <2>2
    <3>2. QED  BY <1>2, <1>6, <1>7, <2>2, <3>1
  <2>3. QED  BY <1>7, <2>1, <2>2
<1>10. ASSUME NEW i \in 1..Len(v), NEW h \in 1..Len(v), K2[i] = K2[h], Q2[i] = Q2[h]
       PROVE  i = h
  <2>0. \A m \in 1..a : K[m] # n
    BY <1>1, <1>8
  <2>1. CASE i \in 1..a
    <3>1. h \in 1..a
      BY <1>7, <1>10, <2>0, <2>1
    <3>2. QED  BY <1>7, <1>8, <1>10, <2>1, <3>1
  <2>2. CASE i \in (a + 1)..(a + b)
    <3>1. h \in (a + 1)..(a + b)
      BY <1>7, <1>10, <2>0, <2>2
    <3>2. i - a = h - a
      BY <1>7, <1>10, <2>2, <3>1
    <3>3. QED  BY <2>2, <3>1, <3>2
  <2>3. QED  BY <1>7, <2>1, <2>2
<1>11. ASSUME NEW k \in 1..n, NEW q \in 1..Len(s[k])
       PROVE  \E i \in 1..Len(v) : K2[i] = k /\ Q2[i] = q
  <2>1. CASE k = n
    <3>1. q \in 1..b
      BY <1>2, <1>6, <2>1
    <3>2. a + q \in (a + 1)..(a + b) /\ a + q \in 1..Len(v) /\ (a + q) - a = q
      BY <1>7, <3>1
    <3>3. QED  BY <1>7, <2>1, <3>2
  <2>2. CASE k # n
    <3>1. k \in 1..(n - 1)
      BY <1>1, <2>2
    <3>2. PICK i \in 1..a : K[i] = k /\ Q[i] = q
      BY <1>8, <3>1
    <3>3. i \in 1..Len(v)
      BY <1>7
    <3>4. QED  BY <1>7, <3>2, <3>3
  <2>3. QED  BY <2>1, <2>2
<1>12. Lists(s, n, v, K2, Q2)
  BY <1>9, <1>10, <1>11 DEF Lists
<1>13. QED  BY <1>2, <1>3, <1>12

(* The first n sequences put together list their elements, for every n.    *)
LEMMA JoinsList ==
  ASSUME NEW S, NEW s \in Seq(Seq(S)), NEW f, Joins(s, Len(s), f)
  PROVE  \A n \in 1..Len(s) : \E K, Q : Lists(s, n, f[n], K, Q)
<1>1. Len(s) \in Nat /\ \A k \in 1..Len(s) : s[k] \in Seq(S)
  BY LenProperties, ElementOfSeq
<1>2. \A k \in 1..Len(s) : /\ f[k] \in Seq(S)
                           /\ f[k] = IF k = 1 THEN s[k] ELSE f[k - 1] \o s[k]
  BY JoinsSeqs
<1> DEFINE Fails == {m \in 1..Len(s) : ~ \E K, Q : Lists(s, m, f[m], K, Q)}
<1>3. SUFFICES ASSUME Fails # {}  PROVE FALSE
  OBVIOUS
<1>4. Fails \in SUBSET Nat
  OBVIOUS
<1>5. PICK m \in Fails : \A k \in Fails : m <= k
  BY <1>3, <1>4, LeastNat
<1>6. m \in 1..Len(s) /\ ~ \E K, Q : Lists(s, m, f[m], K, Q)
  OBVIOUS
<1>7. CASE m = 1
  <2>1. << >> \in Seq(S) /\ Lists(s, 0, << >>, << >>, << >>)
    <3>1. << >> \in Seq(S) /\ Len(<< >>) = 0
      BY EmptySeq
    <3>2. 1..0 = {}
      OBVIOUS
    <3>3. QED  BY <3>1, <3>2 DEF Lists
  <2>2. f[1] = s[1] /\ s[1] \in Seq(S)
    BY <1>1, <1>2, <1>6, <1>7
  <2>3. << >> \o s[1] = s[1]
    BY <2>2, ConcatEmptySeq
  <2>4. \E K, Q : Lists(s, 1, << >> \o s[1], K, Q)
    <3>1. 1 \in 1..Len(s) /\ 1 - 1 = 0
      BY <1>6, <1>7
    <3>2. Lists(s, 1 - 1, << >>, << >>, << >>)
      BY <2>1, <3>1
    <3>3. QED  BY <2>1, <3>1, <3>2, ListsOneMore
  <2>5. QED  BY <1>6, <1>7, <2>2, <2>3, <2>4
<1>8. CASE m # 1
  <2>1. m - 1 \in 1..Len(s) /\ ~(m <= m - 1)
    BY <1>1, <1>6, <1>8
  <2>2. PICK K, Q : Lists(s, m - 1, f[m - 1], K, Q)
    BY <1>5, <2>1
  <2>3. f[m - 1] \in Seq(S) /\ f[m] = f[m - 1] \o s[m]
    BY <1>2, <1>6, <1>8, <2>1, Zenon
  <2>4. \E K2, Q2 : Lists(s, m, f[m - 1] \o s[m], K2, Q2)
    BY <1>6, <2>2, <2>3, ListsOneMore
  <2>5. QED  BY <1>6, <2>3, <2>4
<1>9. QED  BY <1>7, <1>8

(* The sequences put together list the elements of all of them.            *)
LEMMA FlattenLists ==
  ASSUME NEW S, NEW s \in Seq(Seq(S))
  PROVE  \E K, Q : Lists(s, Len(s), FlattenSeq(s), K, Q)
<1>1. Len(s) \in Nat
  BY LenProperties
<1>2. CASE Len(s) = 0
  <2>1. FlattenSeq(s) = << >>
    <3>1. s = << >>
      BY <1>2, EmptySeq
    <3>2. FlattenSeq(s) = s
      BY <1>2, Zenon DEF FlattenSeq
    <3>3. QED  BY <3>1, <3>2
  <2>2. Len(<< >>) = 0 /\ 1..0 = {}
    OBVIOUS
  <2>3. Lists(s, 0, << >>, << >>, << >>)
    BY <2>2 DEF Lists
  <2>4. QED  BY <1>2, <2>1, <2>3
<1>3. CASE Len(s) # 0
  <2>1. \E f : Joins(s, Len(s), f)
    BY <1>1, JoinsExist
  <2>2. PICK f : /\ Joins(s, Len(s), f)
                 /\ f = (CHOOSE g : g = [k \in 1..Len(s) |->
                                           IF k = 1 THEN s[k] ELSE g[k - 1] \o s[k]])
    BY <2>1, Zenon DEF Joins
  <2>3. FlattenSeq(s) = f[Len(s)]
    BY <1>3, <2>2, FlattenDef, Zenon
  <2>4. Len(s) \in 1..Len(s)
    BY <1>1, <1>3
  <2>5. \E K, Q : Lists(s, Len(s), f[Len(s)], K, Q)
    BY <2>2, <2>4, JoinsList
  <2>6. QED  BY <2>3, <2>5
<1>4. QED  BY <1>2, <1>3

(* Sets whose elements are paired have as many elements.                   *)
LEMMA SameNumber ==
  ASSUME NEW X, NEW Y, IsFiniteSet(X), NEW b,
         \A x \in X : b[x] \in Y,
         \A x, z \in X : b[x] = b[z] => x = z,
         \A y \in Y : \E x \in X : b[x] = y
  PROVE  IsFiniteSet(Y) /\ Cardinality(Y) = Cardinality(X)
<1> DEFINE c == [x \in X |-> b[x]]
<1>1. c \in [X -> Y] /\ \A x \in X : c[x] = b[x]
  OBVIOUS
<1> HIDE DEF c
<1>2. /\ \A x, z \in X : c[x] = c[z] => x = z
      /\ \A y \in Y : \E x \in X : c[x] = y
  BY <1>1
<1>3. c \in Bijection(X, Y)
  BY <1>1, <1>2, Fun_IsBij
<1>4. ExistsBijection(X, Y)
  BY <1>3, Fun_ExistsBij, Zenon
<1>5. QED  BY <1>4, FS_Bijection

(* The elements of u are those of the sequences of s.                      *)
SameElements(u, s) ==
  /\ \A i \in DOMAIN u : \E k \in DOMAIN s : \E q \in DOMAIN s[k] : u[i] = s[k][q]
  /\ \A k \in DOMAIN s : \A q \in DOMAIN s[k] : \E i \in DOMAIN u : u[i] = s[k][q]

(* As many of its elements are in T as places where one of theirs is.      *)
SameCounts(u, s) ==
  \A T : Cardinality({i \in DOMAIN u : u[i] \in T})
           = Cardinality({p \in Spots(s) : s[p[1]][p[2]] \in T})

(* So an element of them all is an element of one, and counting those in T *)
(* among them all is counting the places where one has such an element.    *)
LEMMA FlattenSpots ==
  ASSUME NEW S, NEW s \in Seq(Seq(S)), NEW u, u = FlattenSeq(s)
  PROVE  /\ u \in Seq(S) /\ DOMAIN u = 1..Len(u) /\ Len(u) \in Nat
         /\ SameElements(u, s)
         /\ IsFiniteSet(Spots(s)) /\ Len(u) = Cardinality(Spots(s))
         /\ SameCounts(u, s)
<1>2. u \in Seq(S) /\ DOMAIN u = 1..Len(u) /\ Len(u) \in Nat
  BY FlattenInSeq, LenProperties
<1>3. /\ DOMAIN s = 1..Len(s) /\ Len(s) \in Nat
      /\ \A k \in 1..Len(s) : DOMAIN s[k] = 1..Len(s[k])
  BY LenProperties, ElementOfSeq
<1>4. PICK K, Q : Lists(s, Len(s), u, K, Q)
  BY FlattenLists
<1> DEFINE D == 1..Len(u)
<1>5. /\ \A i \in D : K[i] \in DOMAIN s /\ Q[i] \in DOMAIN s[K[i]] /\ u[i] = s[K[i]][Q[i]]
      /\ \A i, h \in D : K[i] = K[h] /\ Q[i] = Q[h] => i = h
      /\ \A k \in DOMAIN s : \A q \in DOMAIN s[k] : \E i \in D : K[i] = k /\ Q[i] = q
  <2>1. /\ \A i \in D : /\ K[i] \in 1..Len(s) /\ Q[i] \in 1..Len(s[K[i]])
                        /\ u[i] = s[K[i]][Q[i]]
        /\ \A i, h \in D : K[i] = K[h] /\ Q[i] = Q[h] => i = h
        /\ \A k \in 1..Len(s) : \A q \in 1..Len(s[k]) : \E i \in D : K[i] = k /\ Q[i] = q
    BY <1>4, Zenon DEF Lists
  <2> HIDE DEF D
  <2>2. \A i \in D : Q[i] \in DOMAIN s[K[i]]
    <3> TAKE i \in D
    <3>1. K[i] \in 1..Len(s) /\ Q[i] \in 1..Len(s[K[i]])
      BY <2>1
    <3>2. DOMAIN s[K[i]] = 1..Len(s[K[i]])
      BY <1>3, <3>1
    <3>3. QED  BY <3>1, <3>2
  <2>3. \A k \in DOMAIN s : \A q \in DOMAIN s[k] : \E i \in D : K[i] = k /\ Q[i] = q
    <3> TAKE k \in DOMAIN s
    <3> TAKE q \in DOMAIN s[k]
    <3>1. k \in 1..Len(s)
      BY <1>3
    <3>2. q \in 1..Len(s[k])
      BY <1>3, <3>1
    <3>3. QED  BY <2>1, <3>1, <3>2
  <2>4. QED  BY <1>3, <2>1, <2>2, <2>3, Zenon
<1>6. IsFiniteSet(D) /\ Cardinality(D) = Len(u)
  <2>1. 1 \in Int /\ Len(u) \in Int
    BY <1>2
  <2>2. IsFiniteSet(D) /\ Cardinality(D) = IF 1 > Len(u) THEN 0 ELSE Len(u) - 1 + 1
    BY <2>1, FS_Interval
  <2>3. (IF 1 > Len(u) THEN 0 ELSE Len(u) - 1 + 1) = Len(u)
    BY <1>2
  <2>4. QED  BY <2>2, <2>3
<1> HIDE DEF D
<1> DEFINE B == [i \in D |-> <<K[i], Q[i]>>]
<1>7. \A i \in D : B[i] = <<K[i], Q[i]>>
  OBVIOUS
<1> HIDE DEF B
<1>8. \A k, q : k \in DOMAIN s /\ q \in DOMAIN s[k] => <<k, q>> \in Spots(s)
  <2> SUFFICES ASSUME NEW k \in DOMAIN s, NEW q \in DOMAIN s[k]  PROVE <<k, q>> \in Spots(s)
    OBVIOUS
  <2>1. <<k, q>> \in {k} \X DOMAIN s[k]
    OBVIOUS
  <2>2. QED  BY <2>1, Zenon DEF Spots
<1>9. \A p \in Spots(s) : \E k \in DOMAIN s : \E q \in DOMAIN s[k] : p = <<k, q>>
  <2> TAKE p \in Spots(s)
  <2>1. PICK k \in DOMAIN s : p \in {k} \X DOMAIN s[k]
    BY Zenon DEF Spots
  <2>2. \E q \in DOMAIN s[k] : p = <<k, q>>
    BY <2>1
  <2>3. QED  BY <2>2
<1>10. \A i \in D : B[i] \in Spots(s)
  <2> TAKE i \in D
  <2>1. <<K[i], Q[i]>> \in Spots(s)
    BY <1>5, <1>8
  <2>2. QED  BY <1>7, <2>1, Zenon
<1>11. \A i, h \in D : B[i] = B[h] => i = h
  <2> TAKE i, h \in D
  <2>1. B[i] = <<K[i], Q[i]>> /\ B[h] = <<K[h], Q[h]>>
    BY <1>7
  <2>2. <<K[i], Q[i]>> = <<K[h], Q[h]>> => K[i] = K[h] /\ Q[i] = Q[h]
    OBVIOUS
  <2>3. QED  BY <1>5, <2>1, <2>2, Zenon
<1>12. \A p \in Spots(s) : \E i \in D : B[i] = p
  <2> TAKE p \in Spots(s)
  <2>0. PICK k \in DOMAIN s : \E q \in DOMAIN s[k] : p = <<k, q>>
    BY <1>9
  <2>1. PICK q \in DOMAIN s[k] : p = <<k, q>>
    BY <2>0
  <2>2. PICK i \in D : K[i] = k /\ Q[i] = q
    BY <1>5
  <2>3. QED  BY <1>7, <2>1, <2>2, Zenon
<1>13. \A i \in D : s[B[i][1]][B[i][2]] = u[i]
  <2> TAKE i \in D
  <2>1. B[i] = <<K[i], Q[i]>>
    BY <1>7
  <2>2. B[i][1] = K[i] /\ B[i][2] = Q[i]
    BY <2>1
  <2>3. s[B[i][1]][B[i][2]] = s[K[i]][Q[i]]
    BY <2>2, Zenon
  <2>4. QED  BY <1>5, <2>3, Zenon
<1>14. IsFiniteSet(Spots(s)) /\ Cardinality(Spots(s)) = Len(u)
  <2>1. IsFiniteSet(Spots(s)) /\ Cardinality(Spots(s)) = Cardinality(D)
    BY <1>6, <1>10, <1>11, <1>12, SameNumber, Zenon
  <2>2. QED  BY <1>6, <2>1
<1>15. ASSUME NEW T
       PROVE  Cardinality({i \in D : u[i] \in T})
                = Cardinality({p \in Spots(s) : s[p[1]][p[2]] \in T})
  <2> DEFINE I == {i \in D : u[i] \in T}
             P == {p \in Spots(s) : s[p[1]][p[2]] \in T}
  <2>1. IsFiniteSet(I)
    <3>1. I \subseteq D
      OBVIOUS
    <3>2. QED  BY <1>6, <3>1, FS_Subset
  <2>2. \A i \in I : B[i] \in P
    BY <1>10, <1>13, Zenon
  <2>3. \A i, h \in I : B[i] = B[h] => i = h
    BY <1>11
  <2>4. \A p \in P : \E i \in I : B[i] = p
    <3> TAKE p \in P
    <3>1. PICK i \in D : B[i] = p
      BY <1>12
    <3>2. i \in I
      BY <1>13, <3>1, Zenon
    <3>3. QED  BY <3>1, <3>2, Zenon
  <2> HIDE DEF I, P
  <2>5. Cardinality(I) = Cardinality(P)
    BY <2>1, <2>2, <2>3, <2>4, SameNumber
  <2>6. QED  BY <2>5 DEF I, P
<1>16. D = DOMAIN u
  BY <1>2 DEF D
<1>17. \A i \in DOMAIN u : \E k \in DOMAIN s : \E q \in DOMAIN s[k] : u[i] = s[k][q]
  <2> TAKE i \in DOMAIN u
  <2>1. i \in D
    BY <1>16
  <2>2. K[i] \in DOMAIN s /\ Q[i] \in DOMAIN s[K[i]] /\ u[i] = s[K[i]][Q[i]]
    BY <1>5, <2>1
  <2>3. QED  BY <2>2, Zenon
<1>18. \A k \in DOMAIN s : \A q \in DOMAIN s[k] : \E i \in DOMAIN u : u[i] = s[k][q]
  <2> TAKE k \in DOMAIN s
  <2> TAKE q \in DOMAIN s[k]
  <2>1. PICK i \in D : K[i] = k /\ Q[i] = q
    BY <1>5
  <2>2. u[i] = s[k][q]
    BY <1>5, <2>1, Zenon
  <2>3. QED  BY <1>16, <2>1, <2>2, Zenon
<1>19. SameElements(u, s)
  BY <1>17, <1>18, Zenon DEF SameElements
<1>20. SameCounts(u, s)
  BY <1>15, <1>16, Zenon DEF SameCounts
<1>21. QED  BY <1>2, <1>14, <1>19, <1>20, Zenon

-----------------------------------------------------------------------------
(***************************************************************************)
(* Sequences put together, part by part.                                   *)
(***************************************************************************)
(* What holds for 0, and for a number if for the one before, holds up to n.*)
LEMMA UpToNat ==
  ASSUME NEW n \in Nat, NEW G, 0 \in G, \A k \in 1..n : k - 1 \in G => k \in G
  PROVE  \A k \in 0..n : k \in G
<1> DEFINE Fails == {m \in 0..n : m \notin G}
<1>1. SUFFICES ASSUME Fails # {}  PROVE FALSE
  OBVIOUS
<1>2. PICK m \in Fails : \A k \in Fails : m <= k
  <2>1. Fails \in SUBSET Nat
    OBVIOUS
  <2>2. QED  BY <1>1, <2>1, LeastNat
<1>3. m \in 1..n /\ m - 1 \in 0..n /\ m \notin G
  OBVIOUS
<1>4. m - 1 \notin G
  BY <1>3
<1>5. m - 1 \in Fails
  BY <1>3, <1>4
<1>6. QED  BY <1>2, <1>3, <1>5

(* A part of a sequence has the elements at its positions.                 *)
LEMMA PartOfSeq ==
  ASSUME NEW S, NEW s \in Seq(S), NEW a \in Nat, NEW b \in Nat, a >= 1, b <= Len(s)
  PROVE  /\ SubSeq(s, a, b) \in Seq(S)
         /\ Len(SubSeq(s, a, b)) = IF a <= b THEN b - a + 1 ELSE 0
         /\ \A k \in 1..(b - a + 1) : SubSeq(s, a, b)[k] = s[a + k - 1]
<1>1. \A k \in a..b : s[k] \in S
  OBVIOUS
<1>2. QED  BY <1>1, SubSeqProperties

(* The part behind a position, up to another.                              *)
LEMMA PartBehind ==
  ASSUME NEW S, NEW s \in Seq(S), NEW a \in Nat, NEW b \in Nat, a <= b, b <= Len(s)
  PROVE  /\ SubSeq(s, a + 1, b) \in Seq(S)
         /\ Len(SubSeq(s, a + 1, b)) = b - a
         /\ \A k \in 1..(b - a) : SubSeq(s, a + 1, b)[k] = s[a + k]
<1>1. PICK c \in Nat : c = a + 1
  OBVIOUS
<1>2. c >= 1 /\ b - c + 1 = b - a /\ (~(c <= b) => b - a = 0)
      /\ \A k \in 1..(b - a) : c + k - 1 = a + k
  BY <1>1
<1>3. /\ SubSeq(s, c, b) \in Seq(S)
      /\ Len(SubSeq(s, c, b)) = IF c <= b THEN b - c + 1 ELSE 0
      /\ \A k \in 1..(b - c + 1) : SubSeq(s, c, b)[k] = s[c + k - 1]
  BY <1>2, PartOfSeq
<1>4. PICK z : z = SubSeq(s, c, b)
  OBVIOUS
<1>5. z \in Seq(S) /\ Len(z) = b - a /\ \A k \in 1..(b - a) : z[k] = s[a + k]
  BY <1>2, <1>3, <1>4
<1>6. z = SubSeq(s, a + 1, b)
  BY <1>1, <1>4, Zenon
<1>7. QED  BY <1>5, <1>6, Zenon

(* The same of a sequence of sequences.                                    *)
LEMMA PartsBehind ==
  ASSUME NEW S, NEW s \in Seq(Seq(S)), NEW a \in Nat, NEW b \in Nat, a <= b, b <= Len(s)
  PROVE  /\ SubSeq(s, a + 1, b) \in Seq(Seq(S))
         /\ Len(SubSeq(s, a + 1, b)) = b - a
         /\ \A k \in 1..(b - a) : SubSeq(s, a + 1, b)[k] = s[a + k]
<1>1. PICK U : U = Seq(S)
  OBVIOUS
<1>2. s \in Seq(U)
  BY <1>1
<1>3. /\ SubSeq(s, a + 1, b) \in Seq(U)
      /\ Len(SubSeq(s, a + 1, b)) = b - a
      /\ \A k \in 1..(b - a) : SubSeq(s, a + 1, b)[k] = s[a + k]
  BY <1>2, PartBehind, Zenon
<1>4. QED  BY <1>1, <1>3, Zenon

(* Its beginning is a beginning of the sequence.                           *)
LEMMA StartOfStart ==
  ASSUME NEW S, NEW s \in Seq(S), NEW a \in Nat, NEW b \in Nat, a <= b, b <= Len(s)
  PROVE  SubSeq(SubSeq(s, 1, b), 1, a) = SubSeq(s, 1, a)
<1>1. PICK r : r = SubSeq(s, 1, b)
  OBVIOUS
<1>2. r \in Seq(S) /\ Len(r) = b /\ \A k \in 1..b : r[k] = s[k]
  BY <1>1, PartOfSeq
<1>3. PICK x : x = SubSeq(r, 1, a)
  OBVIOUS
<1>4. PICK y : y = SubSeq(s, 1, a)
  OBVIOUS
<1>5. x \in Seq(S) /\ Len(x) = a /\ \A k \in 1..a : x[k] = r[k]
  BY <1>2, <1>3, PartOfSeq
<1>6. y \in Seq(S) /\ Len(y) = a /\ \A k \in 1..a : y[k] = s[k]
  BY <1>4, PartOfSeq
<1>7. \A k \in 1..a : x[k] = y[k]
  BY <1>2, <1>5, <1>6
<1>8. x = y
  BY <1>5, <1>6, <1>7, SeqEqual
<1>9. QED  BY <1>1, <1>3, <1>4, <1>8

(* Nothing put together is nothing.                                        *)
LEMMA FlattenNone == FlattenSeq(<< >>) = << >>
<1>1. Len(<< >>) = 0
  OBVIOUS
<1>2. QED  BY <1>1, Zenon DEF FlattenSeq

(* The last sequence comes behind the others put together.                 *)
LEMMA FlattenLast ==
  ASSUME NEW S, NEW s \in Seq(Seq(S)), Len(s) # 0
  PROVE  FlattenSeq(s) = FlattenSeq(SubSeq(s, 1, Len(s) - 1)) \o s[Len(s)]
<1>1. PICK n \in Nat : n = Len(s)
  BY LenProperties
<1>2. n \in Nat \ {0} /\ n - 1 \in Nat /\ n \in 1..n
  BY <1>1
<1>3. PICK f : Joins(s, n, f) /\ FlattenSeq(s) = f[n]
  <2>1. \E f : Joins(s, Len(s), f)
    BY <1>1, JoinsExist
  <2>2. PICK f : /\ Joins(s, Len(s), f)
                 /\ f = (CHOOSE g : g = [k \in 1..Len(s) |->
                                           IF k = 1 THEN s[k] ELSE g[k - 1] \o s[k]])
    BY <2>1, Zenon DEF Joins
  <2>3. FlattenSeq(s) = f[Len(s)]
    BY <2>2, FlattenDef, Zenon
  <2>4. QED  BY <1>1, <2>2, <2>3
<1>4. \A k \in 1..n : f[k] = IF k = 1 THEN s[k] ELSE f[k - 1] \o s[k]
  BY <1>3, Zenon DEF Joins
<1>5. PICK r : r = SubSeq(s, 1, n - 1)
  OBVIOUS
<1>6. /\ r \in Seq(Seq(S)) /\ Len(r) = n - 1
      /\ \A k \in 1..(n - 1) : r[k] = s[k]
  <2>1. n - 1 <= Len(s) /\ (n - 1) - 1 + 1 = n - 1
    BY <1>1, <1>2
  <2>2. QED  BY <1>2, <1>5, <2>1, PartOfSeq
<1>7. CASE n = 1
  <2>1. r = << >>
    BY <1>2, <1>5, <1>7, SubSeqEmpty
  <2>2. s[1] \in Seq(S)
    <3>1. \A k \in 1..Len(s) : s[k] \in Seq(S)
      BY ElementOfSeq
    <3>2. QED  BY <1>1, <1>7, <3>1
  <2>3. FlattenSeq(r) \o s[1] = s[1]
    BY <2>1, <2>2, FlattenNone, ConcatEmptySeq
  <2>4. f[1] = s[1]
    BY <1>2, <1>4, <1>7
  <2>5. FlattenSeq(s) = FlattenSeq(r) \o s[n]
    BY <1>3, <1>7, <2>3, <2>4
  <2>6. QED  BY <1>1, <1>5, <2>5
<1>8. CASE n # 1
  <2>1. PICK g : Joins(r, n - 1, g) /\ FlattenSeq(r) = g[n - 1]
    <3>0. Len(r) # 0
      BY <1>2, <1>6, <1>8
    <3>1. \E g : Joins(r, Len(r), g)
      BY <1>2, <1>6, JoinsExist
    <3>2. PICK g : /\ Joins(r, Len(r), g)
                   /\ g = (CHOOSE h : h = [k \in 1..Len(r) |->
                                             IF k = 1 THEN r[k] ELSE h[k - 1] \o r[k]])
      BY <3>1, Zenon DEF Joins
    <3>3. FlattenSeq(r) = g[Len(r)]
      BY <3>0, <3>2, FlattenDef, Zenon
    <3>4. QED  BY <1>6, <3>2, <3>3
  <2>2. \A k \in 1..(n - 1) : g[k] = IF k = 1 THEN r[k] ELSE g[k - 1] \o r[k]
    BY <2>1, Zenon DEF Joins
  <2> DEFINE G == {k \in 0..(n - 1) : k = 0 \/ g[k] = f[k]}
  <2>3. ASSUME NEW k \in 1..(n - 1), k - 1 \in G  PROVE k \in G
    <3>1. k \in 1..n /\ k \in 0..(n - 1) /\ (k # 1 => k - 1 # 0)
      BY <1>2
    <3>2. g[k] = f[k]
      BY <1>4, <1>6, <2>2, <2>3, <3>1
    <3>3. QED  BY <3>1, <3>2
  <2>4. 0 \in G
    BY <1>2
  <2> HIDE DEF G
  <2>5. \A k \in 0..(n - 1) : k \in G
    BY <1>2, <2>3, <2>4, UpToNat
  <2>6. n - 1 \in G /\ n - 1 # 0
    BY <1>2, <1>8, <2>5
  <2>7. g[n - 1] = f[n - 1]
    BY <2>6 DEF G
  <2>8. f[n] = f[n - 1] \o s[n]
    BY <1>2, <1>4, <1>8
  <2>9. FlattenSeq(s) = FlattenSeq(r) \o s[n]
    BY <1>3, <2>1, <2>7, <2>8
  <2>10. QED  BY <1>1, <1>5, <2>9
<1>9. QED  BY <1>7, <1>8

(* The first k sequences put together, and how long that is.               *)
Begun(s, k) == FlattenSeq(SubSeq(s, 1, k))
Size(s, k) == Len(Begun(s, k))

(* Each sequence comes behind those before it.                             *)
LEMMA BegunStep ==
  ASSUME NEW S, NEW s \in Seq(Seq(S))
  PROVE  /\ Begun(s, 0) = << >>
         /\ \A k \in 0..Len(s) : Begun(s, k) \in Seq(S)
         /\ \A k \in 1..Len(s) : Begun(s, k) = Begun(s, k - 1) \o s[k]
<1>1. Len(s) \in Nat
  BY LenProperties
<1>2. ASSUME NEW k \in 0..Len(s)  PROVE Begun(s, k) \in Seq(S)
  <2>1. SubSeq(s, 1, k) \in Seq(Seq(S))
    BY <1>1, PartOfSeq
  <2>2. QED  BY <2>1, FlattenInSeq DEF Begun
<1>3. ASSUME NEW k \in 1..Len(s)  PROVE Begun(s, k) = Begun(s, k - 1) \o s[k]
  <2>1. PICK r : r = SubSeq(s, 1, k)
    OBVIOUS
  <2>2. r \in Seq(Seq(S)) /\ Len(r) = k /\ \A h \in 1..k : r[h] = s[h]
    BY <1>1, <2>1, PartOfSeq
  <2>3. r[k] = s[k] /\ Len(r) # 0
    BY <2>2
  <2>4. FlattenSeq(r) = FlattenSeq(SubSeq(r, 1, k - 1)) \o s[k]
    BY <2>2, <2>3, FlattenLast
  <2>5. SubSeq(r, 1, k - 1) = SubSeq(s, 1, k - 1)
    BY <1>1, <2>1, StartOfStart
  <2>6. QED  BY <2>1, <2>4, <2>5 DEF Begun
<1>4. Begun(s, 0) = << >>
  <2>1. SubSeq(s, 1, 0) = << >>
    BY SubSeqEmpty
  <2>2. QED  BY <2>1, FlattenNone DEF Begun
<1>5. QED  BY <1>2, <1>3, <1>4

(* It adds its length to theirs.                                           *)
LEMMA SizeStep ==
  ASSUME NEW S, NEW s \in Seq(Seq(S))
  PROVE  /\ Size(s, 0) = 0
         /\ \A k \in 0..Len(s) : Size(s, k) \in Nat
         /\ \A k \in 1..Len(s) : Len(s[k]) \in Nat /\ Size(s, k) = Size(s, k - 1) + Len(s[k])
         /\ Size(s, Len(s)) = Len(FlattenSeq(s))
<1>1. Len(s) \in Nat /\ \A k \in 1..Len(s) : s[k] \in Seq(S)
  BY LenProperties, ElementOfSeq
<1>2. Size(s, 0) = 0
  BY BegunStep, EmptySeq DEF Size
<1>3. \A k \in 0..Len(s) : Size(s, k) \in Nat
  BY BegunStep, LenProperties DEF Size
<1>4. ASSUME NEW k \in 1..Len(s)
      PROVE  Len(s[k]) \in Nat /\ Size(s, k) = Size(s, k - 1) + Len(s[k])
  <2>1. s[k] \in Seq(S) /\ k - 1 \in 0..Len(s)
    BY <1>1
  <2>2. Begun(s, k - 1) \in Seq(S) /\ Begun(s, k) = Begun(s, k - 1) \o s[k]
    BY <2>1, BegunStep
  <2>3. Len(Begun(s, k - 1) \o s[k]) = Len(Begun(s, k - 1)) + Len(s[k])
    BY <2>1, <2>2, ConcatProperties
  <2>4. Len(s[k]) \in Nat
    BY <2>1, LenProperties
  <2>5. QED  BY <2>2, <2>3, <2>4 DEF Size
<1>5. SubSeq(s, 1, Len(s)) = s
  BY SubSeqFull
<1>6. QED  BY <1>2, <1>3, <1>4, <1>5 DEF Size, Begun

(* More of them are no shorter.                                            *)
LEMMA SizeGrows ==
  ASSUME NEW S, NEW s \in Seq(Seq(S)), NEW b \in 0..Len(s), NEW a \in 0..b
  PROVE  Size(s, a) <= Size(s, b)
<1> DEFINE G == {d \in 0..(Len(s) - a) : Size(s, a) <= Size(s, a + d)}
<1>1. /\ Len(s) \in Nat /\ \A k \in 0..Len(s) : Size(s, k) \in Nat
      /\ \A k \in 1..Len(s) : Len(s[k]) \in Nat /\ Size(s, k) = Size(s, k - 1) + Len(s[k])
  BY LenProperties, SizeStep
<1>2. 0 \in G
  BY <1>1
<1>3. ASSUME NEW d \in 1..(Len(s) - a), d - 1 \in G  PROVE d \in G
  <2>1. PICK k \in 1..Len(s) : k = a + d
    BY <1>1
  <2>2. a + (d - 1) = k - 1 /\ k - 1 \in 0..Len(s) /\ a \in 0..Len(s)
    BY <1>1, <2>1
  <2>3. Size(s, a) <= Size(s, k - 1)
    BY <1>3, <2>2
  <2>4. /\ Size(s, k - 1) \in Nat /\ Size(s, a) \in Nat /\ Len(s[k]) \in Nat
        /\ Size(s, k) = Size(s, k - 1) + Len(s[k])
    BY <1>1, <2>2
  <2>5. Size(s, a) <= Size(s, k)
    BY <2>3, <2>4
  <2>6. QED  BY <2>1, <2>5
<1>4. b - a \in 0..(Len(s) - a) /\ Len(s) - a \in Nat /\ a + (b - a) = b
  BY <1>1
<1> HIDE DEF G
<1>5. b - a \in G
  BY <1>2, <1>3, <1>4, UpToNat
<1>6. QED  BY <1>4, <1>5 DEF G

(* What the first k are together is what all of them begin with.           *)
LEMMA BegunIsStart ==
  ASSUME NEW S, NEW s \in Seq(Seq(S)), NEW b \in 0..Len(s), NEW a \in 0..b
  PROVE  /\ Size(s, a) <= Size(s, b)
         /\ \A h \in 1..Size(s, a) : Begun(s, b)[h] = Begun(s, a)[h]
<1>1. /\ Len(s) \in Nat /\ \A k \in 0..Len(s) : Size(s, k) \in Nat
      /\ \A k \in 1..Len(s) : Len(s[k]) \in Nat /\ Size(s, k) = Size(s, k - 1) + Len(s[k])
  BY LenProperties, SizeStep
<1> DEFINE G == {d \in 0..(Len(s) - a) :
                   \A h \in 1..Size(s, a) : Begun(s, a + d)[h] = Begun(s, a)[h]}
<1>2. 0 \in G
  BY <1>1
<1>3. ASSUME NEW d \in 1..(Len(s) - a), d - 1 \in G  PROVE d \in G
  <2>1. PICK k \in 1..Len(s) : k = a + d
    BY <1>1
  <2>2. a + (d - 1) = k - 1 /\ k - 1 \in 0..Len(s) /\ a \in 0..(k - 1)
    BY <1>1, <2>1
  <2>3. /\ Begun(s, k - 1) \in Seq(S) /\ s[k] \in Seq(S)
        /\ Begun(s, k) = Begun(s, k - 1) \o s[k]
    BY <2>2, BegunStep, ElementOfSeq
  <2>4. Size(s, a) <= Size(s, k - 1) /\ Size(s, k - 1) \in Nat /\ Size(s, a) \in Nat
    BY <1>1, <2>2, SizeGrows
  <2>5. ASSUME NEW h \in 1..Size(s, a)  PROVE Begun(s, k)[h] = Begun(s, a)[h]
    <3>1. h <= Size(s, k - 1) /\ h \in 1..(Size(s, k - 1) + Len(s[k]))
      <4>1. Len(s[k]) \in Nat
        BY <1>1
      <4>2. QED  BY <2>4, <4>1
    <3>2. (Begun(s, k - 1) \o s[k])[h] = Begun(s, k - 1)[h]
      BY <2>3, <3>1, ConcatProperties DEF Size
    <3>3. Begun(s, a + (d - 1))[h] = Begun(s, a)[h]
      BY <1>3
    <3>4. QED  BY <2>2, <2>3, <3>2, <3>3, Zenon
  <2>6. QED  BY <2>1, <2>5
<1>4. b - a \in 0..(Len(s) - a) /\ Len(s) - a \in Nat /\ a + (b - a) = b
  BY <1>1
<1> HIDE DEF G
<1>5. b - a \in G
  BY <1>2, <1>3, <1>4, UpToNat
<1>6. QED  BY <1>4, <1>5, SizeGrows DEF G

(* A sequence stands in them all behind those before it.                   *)
LEMMA PartInWhole ==
  ASSUME NEW S, NEW s \in Seq(Seq(S)), NEW k \in 1..Len(s)
  PROVE  /\ Size(s, k) <= Len(FlattenSeq(s))
         /\ \A h \in 1..Len(s[k]) : FlattenSeq(s)[Size(s, k - 1) + h] = s[k][h]
<1>1. /\ Len(s) \in Nat /\ \A j \in 0..Len(s) : Size(s, j) \in Nat
      /\ Len(s[k]) \in Nat /\ Size(s, k) = Size(s, k - 1) + Len(s[k])
      /\ Size(s, Len(s)) = Len(FlattenSeq(s))
  BY LenProperties, SizeStep
<1>2. Begun(s, Len(s)) = FlattenSeq(s)
  BY SubSeqFull DEF Begun
<1>3. Len(s) \in 0..Len(s) /\ k \in 0..Len(s) /\ k - 1 \in 0..Len(s)
  BY <1>1
<1>4. /\ Size(s, k) <= Size(s, Len(s))
      /\ \A h \in 1..Size(s, k) : Begun(s, Len(s))[h] = Begun(s, k)[h]
  BY <1>3, BegunIsStart
<1>5. /\ Begun(s, k - 1) \in Seq(S) /\ s[k] \in Seq(S)
      /\ Begun(s, k) = Begun(s, k - 1) \o s[k]
  BY <1>3, BegunStep, ElementOfSeq
<1>6. ASSUME NEW h \in 1..Len(s[k])
      PROVE  FlattenSeq(s)[Size(s, k - 1) + h] = s[k][h]
  <2>1. PICK a \in Nat : a = Size(s, k - 1)
    BY <1>1, <1>3
  <2>2. /\ a + h \in 1..Size(s, k) /\ ~(a + h <= a) /\ (a + h) - a = h
        /\ a + h \in 1..(a + Len(s[k]))
    <3>1. PICK l \in Nat : l = Len(s[k])
      BY <1>1
    <3>2. Size(s, k) = a + l
      BY <1>1, <2>1, <3>1
    <3>3. h \in 1..l
      BY <3>1
    <3>4. QED  BY <3>1, <3>2, <3>3
  <2>3. (Begun(s, k - 1) \o s[k])[a + h] = s[k][(a + h) - a]
    BY <1>5, <2>1, <2>2, ConcatProperties DEF Size
  <2>4. FlattenSeq(s)[a + h] = Begun(s, k)[a + h]
    BY <1>2, <1>4, <2>2
  <2>5. FlattenSeq(s)[a + h] = s[k][h]
    BY <1>5, <2>2, <2>3, <2>4, Zenon
  <2>6. QED  BY <2>1, <2>5
<1>7. QED  BY <1>1, <1>4, <1>6

(* So a sequence of them, put together, is a part of them all.             *)
LEMMA PartsInWhole ==
  ASSUME NEW S, NEW s \in Seq(Seq(S)), NEW b \in 0..Len(s), NEW a \in 0..b
  PROVE  FlattenSeq(SubSeq(s, a + 1, b)) =
           SubSeq(FlattenSeq(s), Size(s, a) + 1, Size(s, b))
<1>1. /\ Len(s) \in Nat /\ \A k \in 0..Len(s) : Size(s, k) \in Nat
      /\ \A k \in 1..Len(s) : Len(s[k]) \in Nat /\ Size(s, k) = Size(s, k - 1) + Len(s[k])
      /\ Size(s, Len(s)) = Len(FlattenSeq(s))
  BY LenProperties, SizeStep
<1>2. PICK T \in Seq(S) : T = FlattenSeq(s)
  BY FlattenInSeq
<1> DEFINE Right(k) == FlattenSeq(SubSeq(s, a + 1, k)) = SubSeq(T, Size(s, a) + 1, Size(s, k))
           G == {d \in 0..(Len(s) - a) : Right(a + d)}
<1>3. Right(a)
  <2>1. SubSeq(s, a + 1, a) = << >>
    BY <1>1, SubSeqEmpty
  <2>2. Size(s, a) + 1 \in Int /\ Size(s, a) \in Int /\ Size(s, a) < Size(s, a) + 1
    BY <1>1
  <2>3. SubSeq(T, Size(s, a) + 1, Size(s, a)) = << >>
    BY <2>2, SubSeqEmpty
  <2>4. QED  BY <2>1, <2>3, FlattenNone, Zenon
<1>4. ASSUME NEW k \in (a + 1)..Len(s), Right(k - 1)  PROVE Right(k)
  <2>1. PICK r : r = SubSeq(s, a + 1, k)
    OBVIOUS
  <2>2. r \in Seq(Seq(S)) /\ Len(r) = k - a /\ \A h \in 1..(k - a) : r[h] = s[a + h]
    <3>1. a \in Nat /\ k \in Nat /\ a <= k /\ k <= Len(s)
      BY <1>1
    <3>2. QED  BY <2>1, <3>1, PartsBehind, Zenon
  <2>3. r[k - a] = s[k] /\ Len(r) # 0
    <3>1. k - a \in 1..(k - a) /\ a + (k - a) = k /\ k - a # 0
      BY <1>1
    <3>2. r[k - a] = s[a + (k - a)]
      BY <2>2, <3>1, Zenon
    <3>3. QED  BY <2>2, <3>1, <3>2
  <2>4. SubSeq(r, 1, (k - a) - 1) = SubSeq(s, a + 1, k - 1)
    <3>1. PICK x : x = SubSeq(r, 1, (k - a) - 1)
      OBVIOUS
    <3>2. PICK y : y = SubSeq(s, a + 1, k - 1)
      OBVIOUS
    <3>3. /\ x \in Seq(Seq(S)) /\ Len(x) = (k - a) - 1
          /\ \A h \in 1..((k - a) - 1) : x[h] = r[h]
      <4>1. PICK n \in Nat : n = (k - a) - 1
        BY <1>1
      <4>2. 0 \in Nat /\ 0 <= n /\ n <= Len(r) /\ 0 + 1 = 1 /\ n - 0 = n
            /\ \A h \in 1..n : 0 + h = h
        BY <1>1, <2>2, <4>1
      <4>3. x = SubSeq(r, 0 + 1, n)
        BY <3>1, <4>1, <4>2, Zenon
      <4>4. x \in Seq(Seq(S)) /\ Len(x) = n - 0 /\ \A h \in 1..(n - 0) : x[h] = r[0 + h]
        <5>1. r \in Seq(Seq(S)) /\ 0 \in Nat /\ n \in Nat /\ 0 <= n /\ n <= Len(r)
          BY <2>2, <4>2, Zenon
        <5>2. QED  BY <4>3, <5>1, PartsBehind, Zenon
      <4>5. QED  BY <4>1, <4>2, <4>4
    <3>4. /\ y \in Seq(Seq(S)) /\ Len(y) = (k - a) - 1
          /\ \A h \in 1..((k - a) - 1) : y[h] = s[a + h]
      <4>1. PICK n \in Nat : n = k - 1
        BY <1>1
      <4>2. a \in Nat /\ a <= n /\ n <= Len(s) /\ n - a = (k - a) - 1
        BY <1>1, <4>1
      <4>3. y = SubSeq(s, a + 1, n)
        BY <3>2, <4>1, Zenon
      <4>4. y \in Seq(Seq(S)) /\ Len(y) = n - a /\ \A h \in 1..(n - a) : y[h] = s[a + h]
        <5>1. a \in Nat /\ n \in Nat /\ a <= n /\ n <= Len(s)
          BY <4>2, Zenon
        <5>2. QED  BY <4>3, <5>1, PartsBehind, Zenon
      <4>5. QED  BY <4>2, <4>4, Zenon
    <3>5. \A h \in 1..((k - a) - 1) : x[h] = y[h]
      <4>1. \A h \in 1..((k - a) - 1) : h \in 1..(k - a)
        BY <1>1
      <4>2. QED  BY <2>2, <3>3, <3>4, <4>1
    <3>6. x = y
      BY <3>3, <3>4, <3>5, SeqEqual
    <3>7. QED  BY <3>1, <3>2, <3>6
  <2>5. FlattenSeq(r) = FlattenSeq(SubSeq(s, a + 1, k - 1)) \o s[k]
    <3>1. FlattenSeq(r) = FlattenSeq(SubSeq(r, 1, Len(r) - 1)) \o r[Len(r)]
      BY <2>2, <2>3, FlattenLast
    <3>2. Len(r) - 1 = (k - a) - 1 /\ r[Len(r)] = s[k]
      BY <2>2, <2>3
    <3>3. QED  BY <2>4, <3>1, <3>2, Zenon
  <2>6. s[k] = SubSeq(T, Size(s, k - 1) + 1, Size(s, k))
    <3>1. /\ k \in 1..Len(s) /\ k - 1 \in 0..Len(s)
      BY <1>1
    <3>2. /\ Size(s, k) <= Len(T)
          /\ \A h \in 1..Len(s[k]) : T[Size(s, k - 1) + h] = s[k][h]
      BY <1>2, <3>1, PartInWhole
    <3>3. PICK p, q, l : p = Size(s, k - 1) /\ q = Size(s, k) /\ l = Len(s[k])
      OBVIOUS
    <3>12. p \in Nat /\ q \in Nat /\ l \in Nat /\ q = p + l
      <4>1. /\ Size(s, k - 1) \in Nat /\ Size(s, k) \in Nat /\ Len(s[k]) \in Nat
            /\ Size(s, k) = Size(s, k - 1) + Len(s[k])
        BY <1>1, <3>1
      <4>2. QED  BY <3>3, <4>1, Zenon
    <3>4. p <= q /\ q - p = l
      BY <3>12
    <3>5. q <= Len(T)
      BY <3>2, <3>3, Zenon
    <3>6. PICK z : z = SubSeq(T, p + 1, q)
      OBVIOUS
    <3>7. z \in Seq(S) /\ Len(z) = l /\ \A h \in 1..l : z[h] = T[p + h]
      <4>1. z \in Seq(S) /\ Len(z) = q - p /\ \A h \in 1..(q - p) : z[h] = T[p + h]
        <5>1. p \in Nat /\ q \in Nat /\ p <= q /\ q <= Len(T)
          BY <3>4, <3>5, <3>12, Zenon
        <5>2. QED  BY <3>6, <5>1, PartBehind, Zenon
      <4>2. QED  BY <3>4, <4>1, Zenon
    <3>8. \A h \in 1..l : z[h] = s[k][h]
      BY <3>2, <3>3, <3>7, Zenon
    <3>9. s[k] \in Seq(S)
      BY <3>1, ElementOfSeq
    <3>10. z = s[k]
      BY <3>3, <3>7, <3>8, <3>9, SeqEqual
    <3>11. QED  BY <3>3, <3>6, <3>10
  <2>7. SubSeq(T, Size(s, a) + 1, Size(s, k - 1)) \o SubSeq(T, Size(s, k - 1) + 1, Size(s, k))
          = SubSeq(T, Size(s, a) + 1, Size(s, k))
    <3>1. /\ k \in 1..Len(s) /\ k - 1 \in 0..Len(s) /\ a \in 0..(k - 1) /\ k - 1 \in 0..k
          /\ k \in 0..Len(s) /\ Len(s) \in 0..Len(s)
      BY <1>1
    <3>2. Size(s, a) <= Size(s, k - 1) /\ Size(s, k - 1) <= Size(s, k) /\ Size(s, k) <= Len(T)
      BY <1>1, <1>2, <3>1, SizeGrows
    <3>8. Size(s, a) \in Nat /\ Size(s, k - 1) \in Nat /\ Size(s, k) \in Nat
      BY <1>1, <3>1
    <3>3. PICK x \in Nat, y \in Nat, z \in Nat :
            x = Size(s, a) /\ y = Size(s, k - 1) /\ z = Size(s, k)
      BY <3>8, Zenon
    <3>4. Len(T) \in Nat
      BY <1>2, LenProperties
    <3>5. x + 1 \in 1..(Len(T) + 1) /\ y \in ((x + 1) - 1)..Len(T) /\ z \in y..Len(T)
      BY <3>2, <3>3, <3>4
    <3>6. SubSeq(T, x + 1, y) \o SubSeq(T, y + 1, z) = SubSeq(T, x + 1, z)
      BY <1>2, <3>5, ConcatAdjacentSubSeq
    <3>7. QED  BY <3>3, <3>6
  <2>8. QED  BY <1>4, <2>1, <2>5, <2>6, <2>7, Zenon
<1>5. 0 \in G
  BY <1>1, <1>3
<1> HIDE DEF Right
<1>6. ASSUME NEW d \in 1..(Len(s) - a), d - 1 \in G  PROVE d \in G
  <2>1. a + d \in (a + 1)..Len(s) /\ a + (d - 1) = (a + d) - 1
    BY <1>1
  <2>2. Right((a + d) - 1)
    BY <1>6, <2>1
  <2>3. Right(a + d)
    BY <1>4, <2>1, <2>2
  <2>4. QED  BY <2>3
<1>7. b - a \in 0..(Len(s) - a) /\ Len(s) - a \in Nat /\ a + (b - a) = b
  BY <1>1
<1>8. b - a \in G
  <2> HIDE DEF G
  <2>1. QED  BY <1>5, <1>6, <1>7, UpToNat
<1>9. Right(b)
  BY <1>7, <1>8
<1>10. QED  BY <1>2, <1>9, Zenon DEF Right

=============================================================================

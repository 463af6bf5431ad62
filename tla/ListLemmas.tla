----------------------------- MODULE ListLemmas -----------------------------
(***************************************************************************)
(* Lemmas about the lists of the library (GList of descriptors, sockets or *)
(* managers, modelled as sequences), used by the proofs about the modules  *)
(* that keep one.                                                          *)
(***************************************************************************)
EXTENDS Naturals, Integers, Sequences, FiniteSets, SequencesExt, TLAPS, SequenceTheorems,
        FiniteSetTheorems, WellFoundedInduction

\* Nothing is in the list twice.
Distinct(s) == \A i, j \in 1 .. Len(s) : s[i] = s[j] => i = j

\* The least-number principle: what holds somewhere in the list holds at a first
\* place.
LEMMA LeastNatural ==
  ASSUME NEW T, T \subseteq Nat, T # {}
  PROVE  \E x \in T : \A y \in T : x <= y
<1> DEFINE R == OpToRel(<, Nat)
<1>1. IsWellFoundedOn(R, Nat)
  BY NatLessThanWellFounded
<1>2. \A x, y \in Nat : <<y, x>> \in R <=> y < x
  BY DEF OpToRel
<1> HIDE DEF R
<1>3. PICK x \in T : \A y \in T : ~(<<y, x>> \in R)
  BY <1>1, WFMin
<1>4. \A y \in T : x \in Nat /\ y \in Nat /\ ~(y < x)
  BY <1>2, <1>3
<1>5. \A y \in T : x <= y
  BY <1>4
<1> QED BY <1>5

\* What RemoveAt returns: the elements behind position i move one place to the
\* front.
LEMMA RemoveAtElements ==
  ASSUME NEW S, NEW s \in Seq(S), NEW i \in 1 .. Len(s)
  PROVE  /\ RemoveAt(s, i) \in Seq(S)
         /\ Len(RemoveAt(s, i)) = Len(s) - 1
         /\ \A j \in 1 .. Len(s) - 1 :
              RemoveAt(s, i)[j] = IF j < i THEN s[j] ELSE s[j + 1]
<1> DEFINE front == SubSeq(s, 1, i - 1)
           back == SubSeq(s, i + 1, Len(s))
<1>1. Len(s) \in Nat
  OBVIOUS
<1>2. /\ front \in Seq(S) /\ Len(front) = i - 1
      /\ \A j \in 1 .. i - 1 : front[j] = s[j]
  BY <1>1
<1>3. /\ back \in Seq(S) /\ Len(back) = Len(s) - i
      /\ \A j \in 1 .. Len(s) - i : back[j] = s[i + j]
  BY <1>1
<1>4. RemoveAt(s, i) = front \o back
  BY DEF RemoveAt
<1> HIDE DEF front, back
<1>5. /\ front \o back \in Seq(S)
      /\ Len(front \o back) = Len(front) + Len(back)
      /\ \A j \in 1 .. Len(front) + Len(back) : (front \o back)[j] =
           IF j <= Len(front) THEN front[j] ELSE back[j - Len(front)]
  BY <1>2, <1>3, ConcatProperties
<1>6. \A j \in 1 .. Len(s) - 1 :
        (front \o back)[j] = IF j < i THEN s[j] ELSE s[j + 1]
  BY <1>1, <1>2, <1>3, <1>5
<1>7. Len(front \o back) = Len(s) - 1
  BY <1>1, <1>2, <1>3, <1>5
<1> QED BY <1>4, <1>5, <1>6, <1>7

\* Taking the element at place k out of a list without repetitions takes that
\* element out, keeps the others, and repeats none.
LEMMA RemoveAtDistinct ==
  ASSUME NEW S, NEW s \in Seq(S), NEW k \in 1 .. Len(s), Distinct(s)
  PROVE  /\ Distinct(RemoveAt(s, k))
         /\ \A x : Contains(RemoveAt(s, k), x) <=> Contains(s, x) /\ x # s[k]
<1> DEFINE r == RemoveAt(s, k)
<1>1. /\ r \in Seq(S) /\ Len(r) = Len(s) - 1 /\ Len(s) \in Nat
      /\ \A j \in 1 .. Len(s) - 1 : r[j] = IF j < k THEN s[j] ELSE s[j + 1]
  BY RemoveAtElements
<1> HIDE DEF r
<1>2. Distinct(r)
  <2> SUFFICES ASSUME NEW i \in 1 .. Len(r), NEW j \in 1 .. Len(r), r[i] = r[j]
               PROVE  i = j
    BY DEF Distinct
  <2> DEFINE p == IF i < k THEN i ELSE i + 1
             q == IF j < k THEN j ELSE j + 1
  <2>1. p \in 1 .. Len(s) /\ q \in 1 .. Len(s) /\ r[i] = s[p] /\ r[j] = s[q]
    BY <1>1
  <2>2. p = q
    BY <2>1 DEF Distinct
  <2> QED BY <1>1, <2>2
<1>3. ASSUME NEW x, Contains(r, x) PROVE Contains(s, x) /\ x # s[k]
  <2>1. PICK i \in 1 .. Len(r) : r[i] = x
    BY <1>3 DEF Contains
  <2> DEFINE p == IF i < k THEN i ELSE i + 1
  <2>2. p \in 1 .. Len(s) /\ p # k /\ s[p] = x
    BY <1>1, <2>1
  <2> QED BY <2>2 DEF Contains, Distinct
<1>4. ASSUME NEW x, Contains(s, x), x # s[k] PROVE Contains(r, x)
  <2>1. PICK i \in 1 .. Len(s) : s[i] = x
    BY <1>4 DEF Contains
  <2> DEFINE p == IF i < k THEN i ELSE i - 1
  <2>2. p \in 1 .. Len(r) /\ r[p] = x
    BY <1>1, <1>4, <2>1
  <2> QED BY <2>2 DEF Contains
<1> QED BY <1>2, <1>3, <1>4 DEF r

\* The first occurrence in a list without repetitions is the only one.
LEMMA RemoveFirstPlace ==
  ASSUME NEW S, NEW s \in Seq(S), Distinct(s), NEW k \in 1 .. Len(s)
  PROVE  RemoveFirst(s, s[k]) = RemoveAt(s, k)
<1> DEFINE e == s[k]
           I == {i \in 1 .. Len(s) : s[i] = e}
<1>1. I = {k}
  BY DEF Distinct
<1>2. Min(I) = k
  BY <1>1 DEF Min
<1>3. k \in 1 .. Len(s) /\ I # {} /\ s[k] = e
  BY <1>1
<1> QED BY <1>2, <1>3 DEF RemoveFirst, SelectInSeq

\* g_list_find_custom and g_list_delete_link, as one operator: the first
\* occurrence is taken out, if there is one.
LEMMA RemoveFirstDistinct ==
  ASSUME NEW S, NEW s \in Seq(S), Distinct(s), NEW e
  PROVE  /\ RemoveFirst(s, e) \in Seq(S)
         /\ Distinct(RemoveFirst(s, e))
         /\ \A x : Contains(RemoveFirst(s, e), x) <=> Contains(s, x) /\ x # e
<1>1. CASE Contains(s, e)
  <2>1. PICK k \in 1 .. Len(s) : s[k] = e
    BY <1>1 DEF Contains
  <2>2. RemoveFirst(s, e) = RemoveAt(s, k)
    BY <2>1, RemoveFirstPlace
  <2> QED BY <2>1, <2>2, RemoveAtElements, RemoveAtDistinct
<1>2. CASE ~Contains(s, e)
  <2>1. RemoveFirst(s, e) = s
    BY <1>2 DEF RemoveFirst, Contains
  <2> QED BY <1>2, <2>1
<1> QED BY <1>1, <1>2

\* What InsertAt returns: the elements from position i on move one place to the
\* back.
LEMMA InsertAtElements ==
  ASSUME NEW S, NEW s \in Seq(S), NEW i \in 1 .. Len(s) + 1, NEW e \in S
  PROVE  /\ InsertAt(s, i, e) \in Seq(S)
         /\ Len(InsertAt(s, i, e)) = Len(s) + 1
         /\ InsertAt(s, i, e)[i] = e
         /\ \A j \in 1 .. Len(s) : InsertAt(s, i, e)[IF j < i THEN j ELSE j + 1] = s[j]
<1> DEFINE front == SubSeq(s, 1, i - 1)
           one == <<e>>
           back == SubSeq(s, i, Len(s))
           both == front \o one
           r == both \o back
<1>1. Len(s) \in Nat
  OBVIOUS
<1>2. /\ front \in Seq(S) /\ Len(front) = i - 1
      /\ \A j \in 1 .. i - 1 : front[j] = s[j]
  BY <1>1
<1>3. /\ back \in Seq(S) /\ Len(back) = Len(s) - i + 1
      /\ \A j \in 1 .. Len(s) - i + 1 : back[j] = s[i + j - 1]
  BY <1>1
<1>4. one \in Seq(S) /\ Len(one) = 1 /\ one[1] = e
  OBVIOUS
<1>5. InsertAt(s, i, e) = r
  BY DEF InsertAt
<1> HIDE DEF front, one, back
<1>6. /\ both \in Seq(S) /\ Len(both) = Len(front) + Len(one)
      /\ \A j \in 1 .. Len(front) + Len(one) : both[j] =
           IF j <= Len(front) THEN front[j] ELSE one[j - Len(front)]
  BY <1>2, <1>4, ConcatProperties
<1>7. /\ Len(both) = i /\ both[i] = e /\ \A j \in 1 .. i - 1 : both[j] = s[j]
  BY <1>2, <1>4, <1>6
<1> HIDE DEF both
<1>8. /\ r \in Seq(S) /\ Len(r) = Len(both) + Len(back)
      /\ \A j \in 1 .. Len(both) + Len(back) : r[j] =
           IF j <= Len(both) THEN both[j] ELSE back[j - Len(both)]
  <2>1. both \in Seq(S) /\ back \in Seq(S)
    BY <1>3, <1>6
  <2> QED BY <2>1, ConcatProperties
<1> HIDE DEF r
<1>9. Len(r) = Len(s) + 1 /\ r[i] = e
  BY <1>1, <1>3, <1>7, <1>8
<1>10. ASSUME NEW j \in 1 .. Len(s) PROVE r[IF j < i THEN j ELSE j + 1] = s[j]
  <2>1. CASE j < i
    BY <1>1, <1>3, <1>7, <1>8, <2>1
  <2>2. CASE ~(j < i)
    <3>1. j + 1 \in 1 .. Len(both) + Len(back) /\ ~(j + 1 <= Len(both))
      BY <1>1, <1>3, <1>7, <2>2
    <3>2. r[j + 1] = back[j + 1 - i]
      BY <1>7, <1>8, <3>1
    <3>3. j + 1 - i \in 1 .. Len(s) - i + 1 /\ i + (j + 1 - i) - 1 = j
      BY <1>1, <2>2
    <3>4. back[j + 1 - i] = s[j]
      BY <1>3, <3>3
    <3> QED BY <2>2, <3>2, <3>4
  <2> QED BY <2>1, <2>2
<1> QED BY <1>5, <1>8, <1>9, <1>10

\* Every place of the longer list is the new one or comes from one of the
\* shorter list; order and repetitions can be read off from that.
LEMMA InsertAtPlaces ==
  ASSUME NEW S, NEW s \in Seq(S), NEW i \in 1 .. Len(s) + 1, NEW e \in S,
         NEW p \in 1 .. Len(InsertAt(s, i, e))
  PROVE  \/ p = i /\ InsertAt(s, i, e)[p] = e
         \/ p < i /\ p \in 1 .. Len(s) /\ InsertAt(s, i, e)[p] = s[p]
         \/ p > i /\ p - 1 \in 1 .. Len(s) /\ InsertAt(s, i, e)[p] = s[p - 1]
<1> DEFINE r == InsertAt(s, i, e)
<1>1. /\ Len(s) \in Nat /\ Len(r) = Len(s) + 1 /\ r[i] = e
      /\ \A j \in 1 .. Len(s) : r[IF j < i THEN j ELSE j + 1] = s[j]
  BY InsertAtElements
<1> HIDE DEF r
<1>2. CASE p = i
  BY <1>1, <1>2 DEF r
<1>3. CASE p < i
  BY <1>1, <1>3 DEF r
<1>4. CASE p > i
  <2>1. p - 1 \in 1 .. Len(s) /\ ~(p - 1 < i) /\ p - 1 + 1 = p
    BY <1>1, <1>4 DEF r
  <2>2. r[p - 1 + 1] = s[p - 1]
    BY <1>1, <2>1
  <2> QED BY <1>4, <2>1, <2>2 DEF r
<1> QED BY <1>1, <1>2, <1>3, <1>4 DEF r

\* Inserting a new element adds it, keeps the others, and repeats none.
LEMMA InsertAtDistinct ==
  ASSUME NEW S, NEW s \in Seq(S), NEW i \in 1 .. Len(s) + 1, NEW e \in S,
         Distinct(s), ~Contains(s, e)
  PROVE  /\ Distinct(InsertAt(s, i, e))
         /\ \A x : Contains(InsertAt(s, i, e), x) <=> Contains(s, x) \/ x = e
<1> DEFINE r == InsertAt(s, i, e)
<1>1. /\ Len(s) \in Nat /\ Len(r) = Len(s) + 1 /\ r[i] = e
      /\ \A j \in 1 .. Len(s) : r[IF j < i THEN j ELSE j + 1] = s[j]
  BY InsertAtElements
<1>2. \A p \in 1 .. Len(r) :
        \/ p = i /\ r[p] = e
        \/ p < i /\ p \in 1 .. Len(s) /\ r[p] = s[p]
        \/ p > i /\ p - 1 \in 1 .. Len(s) /\ r[p] = s[p - 1]
  BY InsertAtPlaces
<1> HIDE DEF r
<1>3. Distinct(r)
  <2> SUFFICES ASSUME NEW p \in 1 .. Len(r), NEW q \in 1 .. Len(r), r[p] = r[q]
               PROVE  p = q
    BY DEF Distinct
  <2>1. \A j \in 1 .. Len(s) : s[j] # e
    BY DEF Contains
  <2>2. (p = i <=> r[p] = e) /\ (q = i <=> r[q] = e)
    BY <1>1, <1>2, <2>1
  <2>3. CASE p = i
    BY <2>2, <2>3
  <2>4. CASE p # i
    <3>1. PICK x \in 1 .. Len(s) : r[p] = s[x] /\ x = (IF p < i THEN p ELSE p - 1)
      BY <1>2, <2>4
    <3>2. PICK y \in 1 .. Len(s) : r[q] = s[y] /\ y = (IF q < i THEN q ELSE q - 1)
      BY <1>2, <2>2, <2>4
    <3>3. x = y
      BY <3>1, <3>2 DEF Distinct
    <3> QED BY <1>1, <2>2, <2>4, <3>1, <3>2, <3>3
  <2> QED BY <2>3, <2>4
<1>4. ASSUME NEW x, Contains(r, x) PROVE Contains(s, x) \/ x = e
  BY <1>2, <1>4 DEF Contains
<1>5. ASSUME NEW x, Contains(s, x) \/ x = e PROVE Contains(r, x)
  <2>1. CASE x = e
    BY <1>1, <2>1 DEF Contains
  <2>2. CASE Contains(s, x)
    <3>1. PICK j \in 1 .. Len(s) : s[j] = x
      BY <2>2 DEF Contains
    <3>2. (IF j < i THEN j ELSE j + 1) \in 1 .. Len(r)
      BY <1>1
    <3> QED BY <1>1, <3>1, <3>2 DEF Contains
  <2> QED BY <1>5, <2>1, <2>2
<1> QED BY <1>3, <1>4, <1>5 DEF r

\* g_list_append of a new element.
LEMMA AppendDistinct ==
  ASSUME NEW S, NEW s \in Seq(S), NEW e \in S
  PROVE  /\ Distinct(s) /\ ~Contains(s, e) => Distinct(Append(s, e))
         /\ \A x : Contains(Append(s, e), x) <=> Contains(s, x) \/ x = e
<1> DEFINE a == Append(s, e)
<1>1. /\ Len(a) = Len(s) + 1 /\ Len(s) \in Nat /\ a[Len(s) + 1] = e
      /\ \A i \in 1 .. Len(s) : a[i] = s[i]
  BY AppendProperties
<1> HIDE DEF a
<1>2. \A i \in 1 .. Len(a) : i = Len(s) + 1 \/ i \in 1 .. Len(s)
  BY <1>1
<1>3. Distinct(s) /\ ~Contains(s, e) => Distinct(a)
  BY <1>1, <1>2 DEF Distinct, Contains
<1>4. ASSUME NEW x PROVE Contains(a, x) <=> Contains(s, x) \/ x = e
  <2>1. Len(s) + 1 \in 1 .. Len(a) /\ \A i \in 1 .. Len(s) : i \in 1 .. Len(a)
    BY <1>1
  <2> QED BY <1>1, <1>2, <2>1 DEF Contains
<1> QED BY <1>3, <1>4 DEF a

\* g_list_prepend of a new element.
LEMMA PrependDistinct ==
  ASSUME NEW S, NEW s \in Seq(S), NEW e \in S
  PROVE  /\ <<e>> \o s \in Seq(S)
         /\ Len(<<e>> \o s) = Len(s) + 1
         /\ (<<e>> \o s)[1] = e
         /\ \A j \in 2 .. Len(s) + 1 : (<<e>> \o s)[j] = s[j - 1]
         /\ Distinct(s) /\ ~Contains(s, e) => Distinct(<<e>> \o s)
         /\ \A x : Contains(<<e>> \o s, x) <=> Contains(s, x) \/ x = e
<1> DEFINE one == <<e>>
           r == one \o s
<1>1. one \in Seq(S) /\ Len(one) = 1 /\ one[1] = e /\ Len(s) \in Nat
  OBVIOUS
<1> HIDE DEF one
<1>2. /\ r \in Seq(S) /\ Len(r) = Len(one) + Len(s)
      /\ \A j \in 1 .. Len(one) + Len(s) :
           r[j] = IF j <= Len(one) THEN one[j] ELSE s[j - Len(one)]
  BY <1>1, ConcatProperties
<1> HIDE DEF r
<1>3. /\ Len(r) = Len(s) + 1 /\ r[1] = e /\ \A j \in 2 .. Len(s) + 1 : r[j] = s[j - 1]
  BY <1>1, <1>2
<1>4. \A j \in 1 .. Len(r) : j = 1 \/ (j \in 2 .. Len(s) + 1 /\ j - 1 \in 1 .. Len(s))
  BY <1>1, <1>3
<1>5. Distinct(s) /\ ~Contains(s, e) => Distinct(r)
  <2> SUFFICES ASSUME Distinct(s), ~Contains(s, e),
                      NEW p \in 1 .. Len(r), NEW q \in 1 .. Len(r), r[p] = r[q]
               PROVE  p = q
    BY DEF Distinct
  <2>1. \A j \in 1 .. Len(s) : s[j] # e
    BY DEF Contains
  <2> QED BY <1>3, <1>4, <2>1 DEF Distinct
<1>6. ASSUME NEW x PROVE Contains(r, x) <=> Contains(s, x) \/ x = e
  <2>1. \A j \in 1 .. Len(s) : j + 1 \in 2 .. Len(s) + 1 /\ j + 1 \in 1 .. Len(r) /\ j + 1 - 1 = j
    BY <1>1, <1>3
  <2>2. 1 \in 1 .. Len(r)
    BY <1>1, <1>3
  <2>3. \A j \in 1 .. Len(s) : r[j + 1] = s[j]
    BY <1>3, <2>1
  <2> QED BY <1>3, <1>4, <2>1, <2>2, <2>3 DEF Contains
<1> QED BY <1>2, <1>3, <1>5, <1>6 DEF r, one

\* A list without repetitions has as many elements as places.
LEMMA DistinctCardinality ==
  ASSUME NEW S, NEW s \in Seq(S), Distinct(s)
  PROVE  Cardinality(ToSet(s)) = Len(s)
<1>1. Len(s) \in Nat /\ DOMAIN s = 1 .. Len(s)
  OBVIOUS
<1>2. IsFiniteSet(1 .. Len(s)) /\ Cardinality(1 .. Len(s)) = Len(s)
  BY <1>1, FS_Interval
<1> DEFINE f == [i \in 1 .. Len(s) |-> s[i]]
<1>3. f \in Bijection(1 .. Len(s), ToSet(s))
  <2>1. f \in [1 .. Len(s) -> ToSet(s)]
    BY <1>1 DEF ToSet
  <2>2. f \in Injection(1 .. Len(s), ToSet(s))
    BY <2>1 DEF Distinct, Injection, IsInjective
  <2>3. f \in Surjection(1 .. Len(s), ToSet(s))
    BY <1>1, <2>1 DEF Surjection, ToSet
  <2> QED BY <2>2, <2>3 DEF Bijection
<1>4. ExistsBijection(1 .. Len(s), ToSet(s))
  BY <1>3 DEF ExistsBijection
<1> QED BY <1>2, <1>4, FS_Bijection
=============================================================================

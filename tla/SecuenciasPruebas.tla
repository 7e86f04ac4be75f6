-------------------------- MODULE SecuenciasPruebas --------------------------
(***************************************************************************)
(* Lemmas about the sequence operators that the models of the lists of the *)
(* Master are built from: list_add is Append and list_remove_element is    *)
(* RemoveFirst.                                                            *)
(***************************************************************************)
EXTENDS SequencesExt, SequenceTheorems, FiniteSetTheorems, WellFoundedInduction, TLAPS

\* A finite set of numbers that is not empty has a least element.
LEMMA MinimoExiste ==
    ASSUME NEW I, I \subseteq Nat, IsFiniteSet(I), I # {}
    PROVE  \E x \in I : \A y \in I : x <= y
<1> DEFINE Menores(i) == {j \in I : j < i}
           T == {Menores(i) : i \in I}
<1>1. IsWellFoundedOn(StrictSubsetOrdering(I), FiniteSubsetsOf(I))
  BY FS_StrictSubsetOrderingWellFounded
<1>2. T \subseteq FiniteSubsetsOf(I)
  BY FS_Subset DEF FiniteSubsetsOf
<1>3. T # {}
  OBVIOUS
<1>4. PICK D \in T : \A E \in T : <<E, D>> \notin StrictSubsetOrdering(I)
  <2> HIDE DEF T
  <2> QED BY <1>1, <1>2, <1>3, WFMin
<1>5. PICK x \in I : D = Menores(x)
  OBVIOUS
<1>6. ASSUME NEW y \in I, y < x PROVE FALSE
  <2>1. Menores(y) \in T
    OBVIOUS
  <2>2. Menores(y) \subseteq Menores(x)
    <3> SUFFICES ASSUME NEW j \in I, j < y PROVE j < x
      OBVIOUS
    <3> QED BY <1>6
  <2>3. y \in Menores(x) /\ y \notin Menores(y)
    BY <1>6
  <2>4. <<Menores(y), Menores(x)>> \in StrictSubsetOrdering(I)
    BY <2>2, <2>3 DEF StrictSubsetOrdering
  <2> QED BY <1>4, <1>5, <2>1, <2>4
<1> QED BY <1>6

\* Min of the community modules is then what its name says.
LEMMA MinEsMinimo ==
    ASSUME NEW I, I \subseteq Nat, IsFiniteSet(I), I # {}
    PROVE  Min(I) \in I /\ \A y \in I : Min(I) <= y
BY MinimoExiste DEF Min

\* The elements of a sequence without its position k.
LEMMA RemoveAtElementos ==
    ASSUME NEW S, NEW s \in Seq(S), NEW k \in 1..Len(s)
    PROVE  /\ RemoveAt(s, k) \in Seq(S)
           /\ Len(RemoveAt(s, k)) = Len(s) - 1
           /\ \A j \in 1..(Len(s) - 1) :
                 RemoveAt(s, k)[j] = IF j < k THEN s[j] ELSE s[j + 1]
<1> DEFINE a == SubSeq(s, 1, k - 1)
           b == SubSeq(s, k + 1, Len(s))
<1>1. /\ a \in Seq(S) /\ Len(a) = k - 1
      /\ \A j \in 1..(k - 1) : a[j] = s[j]
  BY SubSeqProperties
<1>2. /\ b \in Seq(S) /\ Len(b) = Len(s) - k
      /\ \A j \in 1..(Len(s) - k) : b[j] = s[k + j]
  BY SubSeqProperties
<1>3. /\ a \o b \in Seq(S) /\ Len(a \o b) = Len(s) - 1
      /\ \A j \in 1..(Len(s) - 1) : (a \o b)[j] = IF j < k THEN s[j] ELSE s[j + 1]
  <2> HIDE DEF a, b
  <2>0. Len(s) \in Nat
    BY LenProperties
  <2>1. a \o b \in Seq(S) /\ Len(a \o b) = Len(s) - 1
    <3>1. a \o b \in Seq(S) /\ Len(a \o b) = Len(a) + Len(b)
      BY <1>1, <1>2, ConcatProperties
    <3> QED BY <3>1, <2>0, <1>1, <1>2
  <2>2. ASSUME NEW j \in 1..(Len(s) - 1)
        PROVE  (a \o b)[j] = IF j < k THEN s[j] ELSE s[j + 1]
    <3>1. (a \o b)[j] = IF j <= k - 1 THEN a[j] ELSE b[j - (k - 1)]
      <4>1. j \in 1..(Len(a) + Len(b))
        BY <1>1, <1>2, <2>0
      <4>2. (a \o b)[j] = IF j <= Len(a) THEN a[j] ELSE b[j - Len(a)]
        BY <4>1, <1>1, <1>2, ConcatProperties
      <4> QED BY <4>2, <1>1
    <3>2. CASE j < k
      BY <3>1, <3>2, <1>1, <2>0
    <3>3. CASE ~(j < k)
      <4> DEFINE n == j - (k - 1)
      <4>1. n \in 1..(Len(s) - k) /\ k + n = j + 1 /\ ~(j <= k - 1)
        BY <3>3, <2>0
      <4>2. b[n] = s[k + n]
        BY <4>1, <1>2
      <4> QED BY <3>1, <3>3, <4>1, <4>2
    <3> QED BY <3>2, <3>3
  <2> QED BY <2>1, <2>2
<1> QED BY <1>3 DEF RemoveAt

\* list_remove_element takes out one occurrence of the element, if there is any.
LEMMA RemoveFirstPosicion ==
    ASSUME NEW S, NEW s \in Seq(S), NEW e
    PROVE  \/ ~Contains(s, e) /\ RemoveFirst(s, e) = s
           \/ \E k \in 1..Len(s) : s[k] = e /\ RemoveFirst(s, e) = RemoveAt(s, k)
<1> DEFINE I == {i \in 1..Len(s) : s[i] = e}
<1>1. CASE ~Contains(s, e)
  BY <1>1 DEF RemoveFirst, Contains
<1>2. CASE Contains(s, e)
  <2>1. I # {} /\ I \subseteq Nat
    BY <1>2 DEF Contains
  <2>2. IsFiniteSet(I)
    <3>1. IsFiniteSet(1..Len(s))
      BY FS_Interval, LenProperties
    <3> QED BY <3>1, FS_Subset
  <2>3. Min(I) \in I
    BY <2>1, <2>2, MinEsMinimo
  <2>4. SelectInSeq(s, LAMBDA v : v = e) = Min(I)
    BY <2>1 DEF SelectInSeq
  <2> QED BY <1>2, <2>3, <2>4 DEF RemoveFirst, Contains
<1> QED BY <1>1, <1>2

\* The result is a list of the same things.
LEMMA RemoveFirstTipo ==
    ASSUME NEW S, NEW s \in Seq(S), NEW e
    PROVE  RemoveFirst(s, e) \in Seq(S)
BY RemoveFirstPosicion, RemoveAtElementos

SinRepetidos(s) == \A i, j \in DOMAIN s : s[i] = s[j] => i = j

\* From a list without repetitions, only that element goes.
LEMMA RemoveFirstQuita ==
    ASSUME NEW S, NEW s \in Seq(S), NEW e, Contains(s, e), SinRepetidos(s)
    PROVE  /\ SinRepetidos(RemoveFirst(s, e))
           /\ \A x : Contains(RemoveFirst(s, e), x) <=> Contains(s, x) /\ x # e
<1> DEFINE r == RemoveFirst(s, e)
<1>1. PICK k \in 1..Len(s) : s[k] = e /\ r = RemoveAt(s, k)
  BY RemoveFirstPosicion
<1>2. /\ r \in Seq(S) /\ Len(r) = Len(s) - 1 /\ DOMAIN r = 1..(Len(s) - 1)
      /\ \A j \in 1..(Len(s) - 1) : r[j] = IF j < k THEN s[j] ELSE s[j + 1]
  <2>1. /\ RemoveAt(s, k) \in Seq(S) /\ Len(RemoveAt(s, k)) = Len(s) - 1
        /\ \A j \in 1..(Len(s) - 1) : RemoveAt(s, k)[j] = IF j < k THEN s[j] ELSE s[j + 1]
    BY RemoveAtElementos
  <2> HIDE DEF r
  <2> QED BY <2>1, <1>1, LenProperties
<1>3. DOMAIN s = 1..Len(s) /\ Len(s) \in Nat
  BY LenProperties
<1> HIDE DEF r
<1>4. SinRepetidos(r)
  <2> SUFFICES ASSUME NEW i \in DOMAIN r, NEW j \in DOMAIN r, r[i] = r[j] PROVE i = j
    BY DEF SinRepetidos
  <2> DEFINE f(n) == IF n < k THEN n ELSE n + 1
  <2>1. /\ f(i) \in DOMAIN s /\ f(j) \in DOMAIN s
        /\ r[i] = s[f(i)] /\ r[j] = s[f(j)]
    BY <1>2, <1>3
  <2>2. f(i) = f(j)
    BY <2>1 DEF SinRepetidos
  <2> QED BY <2>2, <1>2, <1>3
<1>5. ASSUME NEW x PROVE Contains(r, x) <=> Contains(s, x) /\ x # e
  <2>1. ASSUME NEW j \in 1..Len(r), r[j] = x PROVE Contains(s, x) /\ x # e
    <3>1. CASE j < k
      BY <2>1, <3>1, <1>1, <1>2, <1>3 DEF Contains, SinRepetidos
    <3>2. CASE ~(j < k)
      <4>1. j + 1 \in 1..Len(s) /\ s[j + 1] = x /\ j + 1 # k
        BY <2>1, <3>2, <1>2, <1>3
      <4> QED BY <4>1, <1>1, <1>3 DEF Contains, SinRepetidos
    <3> QED BY <3>1, <3>2
  <2>2. ASSUME NEW n \in 1..Len(s), s[n] = x, x # e PROVE Contains(r, x)
    <3>1. CASE n < k
      BY <2>2, <3>1, <1>2, <1>3 DEF Contains
    <3>2. CASE n > k
      <4>1. n - 1 \in 1..Len(r) /\ r[n - 1] = x
        BY <2>2, <3>2, <1>2, <1>3
      <4> QED BY <4>1 DEF Contains
    <3> QED BY <3>1, <3>2, <2>2, <1>1
  <2> QED BY <2>1, <2>2 DEF Contains
<1> QED BY <1>4, <1>5 DEF r

\* list_add of something new.
LEMMA AppendAgrega ==
    ASSUME NEW S, NEW s \in Seq(S), NEW e \in S, ~Contains(s, e), SinRepetidos(s)
    PROVE  /\ Append(s, e) \in Seq(S) /\ SinRepetidos(Append(s, e))
           /\ \A x : Contains(Append(s, e), x) <=> Contains(s, x) \/ x = e
<1> DEFINE r == Append(s, e)
<1>1. /\ r \in Seq(S) /\ Len(r) = Len(s) + 1 /\ r[Len(s) + 1] = e
      /\ \A j \in 1..Len(s) : r[j] = s[j]
  BY AppendProperties
<1>2. DOMAIN r = 1..(Len(s) + 1) /\ DOMAIN s = 1..Len(s) /\ Len(s) \in Nat
  BY <1>1, LenProperties
<1> HIDE DEF r
<1>3. SinRepetidos(r)
  <2> SUFFICES ASSUME NEW i \in DOMAIN r, NEW j \in DOMAIN r, r[i] = r[j] PROVE i = j
    BY DEF SinRepetidos
  <2> QED BY <1>1, <1>2 DEF SinRepetidos, Contains
<1>4. ASSUME NEW x PROVE Contains(r, x) <=> Contains(s, x) \/ x = e
  <2>1. \A j \in 1..Len(r) : j \in 1..Len(s) \/ j = Len(s) + 1
    BY <1>1, <1>2
  <2>2. Len(s) + 1 \in 1..Len(r) /\ \A j \in 1..Len(s) : j \in 1..Len(r)
    BY <1>1, <1>2
  <2> QED BY <1>1, <2>1, <2>2 DEF Contains
<1> QED BY <1>1, <1>3, <1>4 DEF r
=============================================================================

------------------------------- MODULE Lemmas -------------------------------
(***************************************************************************)
(* Facts that the proofs of several components rest on: the least element  *)
(* of a set of numbers and induction, counting over a finite set, and the  *)
(* elements of a sequence.                                                 *)
(***************************************************************************)
EXTENDS Integers, Sequences, FiniteSetTheorems, TLAPS

-----------------------------------------------------------------------------
(* Numbers *)

\* A set of natural numbers has a least one.
Below == {p \in Nat \X Nat : p[1] < p[2]}

LEMMA BelowIs == OpToRel(<, Nat) = Below
  BY DEF OpToRel, Below

LEMMA BelowWF == IsWellFoundedOn(Below, Nat)
  BY NatLessThanWellFounded, BelowIs

LEMMA Least ==
    ASSUME NEW S \in SUBSET Nat, S # {}
    PROVE  \E m \in S : \A k \in S : m <= k
<1>1. PICK x \in S : \A y \in S : ~(<<y, x>> \in Below)
  BY BelowWF, WFMin
<1>2. \A y \in S : ~(y < x)
  BY <1>1 DEF Below
<1>3. \A y \in S : x <= y
  BY <1>2
<1> QED BY <1>3

\* Induction over the natural numbers, for a set.
LEMMA Induct ==
    ASSUME NEW S \in SUBSET Nat, 0 \in S, \A n \in S : n + 1 \in S
    PROVE  S = Nat
<1> SUFFICES ASSUME Nat \ S # {} PROVE FALSE
  OBVIOUS
<1>1. PICK m \in Nat \ S : \A k \in Nat \ S : m <= k
  BY Least
<1>2. m # 0 /\ m - 1 \in Nat /\ m - 1 \notin Nat \ S
  BY <1>1
<1> QED BY <1>1, <1>2

\* A bounded set of natural numbers has a greatest one.
LEMMA Greatest ==
    ASSUME NEW n \in Nat, NEW S \in SUBSET (0 .. n), S # {}
    PROVE  \E m \in S : \A k \in S : k <= m
<1> DEFINE R == {k \in Nat : n - k \in S}
<1>1. R \in SUBSET Nat
  OBVIOUS
<1>2. R # {}
  <2>1. PICK k \in S : TRUE
    OBVIOUS
  <2>2. n - k \in Nat /\ n - (n - k) = k
    BY <2>1
  <2>3. n - k \in R
    BY <2>1, <2>2
  <2> QED BY <2>3
<1> HIDE DEF R
<1>3. PICK r \in R : \A k \in R : r <= k
  BY <1>1, <1>2, Least
<1>4. r \in Nat /\ n - r \in S
  BY <1>3 DEF R
<1>5. ASSUME NEW k \in S PROVE k <= n - r
  <2>1. n - k \in Nat /\ n - (n - k) = k /\ k \in Nat
    BY <1>5
  <2>2. n - k \in R
    BY <1>5, <2>1 DEF R
  <2>3. r <= n - k
    BY <1>3, <2>2
  <2> QED BY <1>4, <2>1, <2>3
<1> QED BY <1>4, <1>5

\* A function F can be iterated from a start: f has its first n iterates.
Iterates(f, n, S, a, F) ==
    f \in [0 .. n -> S] /\ \A i \in 0 .. n : f[i] = IF i = 0 THEN a ELSE F[f[i - 1]]

LEMMA Iterate ==
    ASSUME NEW S, NEW a \in S, NEW F \in [S -> S], NEW n \in Nat
    PROVE  \E f : Iterates(f, n, S, a, F)
<1> DEFINE OK(m, f) == f \in [0 .. m -> S] /\ \A i \in 0 .. m : f[i] = IF i = 0 THEN a ELSE F[f[i - 1]]
           R == {m \in Nat : \E f : OK(m, f)}
<1>1. 0 \in R
  <2> DEFINE f == [i \in 0 .. 0 |-> a]
  <2>1. OK(0, f)
    OBVIOUS
  <2> QED BY <2>1
<1>2. ASSUME NEW m \in R PROVE m + 1 \in R
  <2>1. m \in Nat
    OBVIOUS
  <2>2. PICK f : OK(m, f)
    BY <1>2
  <2> DEFINE g == [i \in 0 .. m + 1 |-> IF i <= m THEN f[i] ELSE F[f[m]]]
  <2>3. f[m] \in S /\ F[f[m]] \in S
    BY <2>1, <2>2
  <2>4. g \in [0 .. m + 1 -> S]
    BY <2>1, <2>2, <2>3
  <2>5. ASSUME NEW i \in 0 .. m + 1 PROVE g[i] = IF i = 0 THEN a ELSE F[g[i - 1]]
    <3>1. CASE i <= m
      <4>1. i \in 0 .. m /\ (i # 0 => i - 1 \in 0 .. m /\ i - 1 \in 0 .. m + 1 /\ i - 1 <= m)
        BY <2>1, <3>1
      <4>2. g[i] = f[i] /\ (i # 0 => g[i - 1] = f[i - 1])
        BY <3>1, <4>1
      <4> QED BY <2>2, <4>1, <4>2
    <3>2. CASE ~(i <= m)
      <4>1. i = m + 1 /\ i # 0 /\ i - 1 = m /\ m \in 0 .. m + 1 /\ m <= m
        BY <2>1, <3>2
      <4>2. g[i] = F[f[m]] /\ g[m] = f[m]
        BY <3>2, <4>1
      <4> QED BY <4>1, <4>2
    <3> QED BY <3>1, <3>2
  <2>6. OK(m + 1, g)
    BY <2>4, <2>5
  <2> HIDE DEF g, OK
  <2> QED BY <2>1, <2>6
<1> HIDE DEF OK
<1>3. R = Nat
  BY <1>1, <1>2, Induct
<1>4. PICK f : OK(n, f)
  BY <1>3
<1> QED BY <1>4 DEF OK, Iterates

-----------------------------------------------------------------------------
(* Counting over a finite set *)

One(b) == IF b THEN 1 ELSE 0

\* Two sets that differ at most in t.
LEMMA CountStep ==
    ASSUME NEW S, IsFiniteSet(S), NEW A \in SUBSET S, NEW B \in SUBSET S, NEW t \in S,
           \A u \in S : u # t => (u \in A <=> u \in B)
    PROVE  /\ Cardinality(A) \in Nat /\ Cardinality(B) \in Nat
           /\ Cardinality(B) = Cardinality(A) + One(t \in B) - One(t \in A)
<1>1. IsFiniteSet(A) /\ IsFiniteSet(B) /\ Cardinality(A) \in Nat /\ Cardinality(B) \in Nat
  BY FS_Subset, FS_CardinalityType
<1>2. CASE t \in B
  <2>1. B = A \cup {t}
    BY <1>2
  <2> QED BY <1>1, <1>2, <2>1, FS_AddElement DEF One
<1>3. CASE t \notin B
  <2>1. B = A \ {t}
    BY <1>3
  <2> QED BY <1>1, <1>3, <2>1, FS_RemoveElement DEF One
<1> QED BY <1>2, <1>3

\* A count over a finite set, and when it is zero.
LEMMA CountType ==
    ASSUME NEW S, IsFiniteSet(S), NEW A \in SUBSET S
    PROVE  /\ IsFiniteSet(A) /\ Cardinality(A) \in Nat
           /\ Cardinality(A) = 0 <=> A = {}
  BY FS_Subset, FS_CardinalityType, FS_EmptySet

-----------------------------------------------------------------------------
(* The elements of a sequence *)

LEMMA RangeOfAppend ==
    ASSUME NEW T, NEW q \in Seq(T), NEW x \in T
    PROVE  Append(q, x) \in Seq(T) /\ Range(Append(q, x)) = Range(q) \cup {x}
<1>1. PICK n \in Nat : n = Len(q) /\ DOMAIN q = 1 .. n
  OBVIOUS
<1>2. /\ Append(q, x) \in Seq(T) /\ DOMAIN Append(q, x) = 1 .. n + 1
      /\ Append(q, x)[n + 1] = x /\ \A i \in 1 .. n : Append(q, x)[i] = q[i]
  BY <1>1
<1>3. Range(Append(q, x)) \subseteq Range(q) \cup {x}
  BY <1>1, <1>2 DEF Range
<1>4. Range(q) \subseteq Range(Append(q, x))
  BY <1>1, <1>2 DEF Range
<1>5. x \in Range(Append(q, x))
  <2>1. n + 1 \in DOMAIN Append(q, x)
    BY <1>2
  <2> QED BY <1>2, <2>1 DEF Range
<1> QED BY <1>2, <1>3, <1>4, <1>5

LEMMA RangeOfTail ==
    ASSUME NEW T, NEW q \in Seq(T), q # <<>>
    PROVE  /\ Head(q) \in T /\ Tail(q) \in Seq(T) /\ Head(q) = q[1]
           /\ Range(q) = {Head(q)} \cup Range(Tail(q))
           /\ Len(q) # 0 /\ DOMAIN Tail(q) = 1 .. Len(q) - 1
           /\ \A i \in DOMAIN Tail(q) : Tail(q)[i] = q[i + 1]
<1>1. PICK n \in Nat : n + 1 = Len(q) /\ DOMAIN q = 1 .. n + 1
  <2>1. PICK k \in Nat : k = Len(q) /\ DOMAIN q = 1 .. k
    OBVIOUS
  <2>2. k # 0
    BY <2>1
  <2>3. k - 1 \in Nat /\ (k - 1) + 1 = k
    BY <2>2
  <2> QED BY <2>1, <2>3
<1>2. /\ Head(q) \in T /\ Tail(q) \in Seq(T) /\ Head(q) = q[1] /\ DOMAIN Tail(q) = 1 .. n
      /\ \A i \in 1 .. n : Tail(q)[i] = q[i + 1]
  BY <1>1
<1>3. Range(q) \subseteq {Head(q)} \cup Range(Tail(q))
  <2> SUFFICES ASSUME NEW i \in 1 .. n + 1 PROVE q[i] \in {Head(q)} \cup Range(Tail(q))
    BY <1>1 DEF Range
  <2>1. CASE i = 1
    BY <1>2, <2>1
  <2>2. CASE i # 1
    <3>1. i - 1 \in 1 .. n /\ (i - 1) + 1 = i
      BY <2>2
    <3> QED BY <1>2, <3>1 DEF Range
  <2> QED BY <2>1, <2>2
<1>4. Head(q) \in Range(q)
  BY <1>1, <1>2 DEF Range
<1>5. Range(Tail(q)) \subseteq Range(q)
  <2> SUFFICES ASSUME NEW i \in 1 .. n PROVE q[i + 1] \in Range(q)
    BY <1>2 DEF Range
  <2> QED BY <1>1 DEF Range
<1> QED BY <1>1, <1>2, <1>3, <1>4, <1>5

LEMMA RangeOfConcat ==
    ASSUME NEW T, NEW p \in Seq(T), NEW q \in Seq(T)
    PROVE  p \o q \in Seq(T) /\ Range(p \o q) = Range(p) \cup Range(q)
<1>1. PICK m \in Nat, n \in Nat : m = Len(p) /\ DOMAIN p = 1 .. m /\ n = Len(q) /\ DOMAIN q = 1 .. n
  OBVIOUS
<1>2. /\ p \o q \in Seq(T) /\ DOMAIN (p \o q) = 1 .. m + n
      /\ \A i \in 1 .. m + n : (p \o q)[i] = IF i <= m THEN p[i] ELSE q[i - m]
  BY <1>1
<1>3. Range(p \o q) \subseteq Range(p) \cup Range(q)
  <2> SUFFICES ASSUME NEW i \in 1 .. m + n PROVE (p \o q)[i] \in Range(p) \cup Range(q)
    BY <1>2 DEF Range
  <2>1. CASE i <= m
    BY <1>1, <1>2, <2>1 DEF Range
  <2>2. CASE ~(i <= m)
    <3>1. i - m \in 1 .. n
      BY <2>2
    <3> QED BY <1>1, <1>2, <2>2, <3>1 DEF Range
  <2> QED BY <2>1, <2>2
<1>4. Range(p) \subseteq Range(p \o q)
  <2> SUFFICES ASSUME NEW i \in 1 .. m PROVE p[i] \in Range(p \o q)
    BY <1>1 DEF Range
  <2>1. i \in 1 .. m + n /\ i <= m
    OBVIOUS
  <2>2. (p \o q)[i] = p[i] /\ i \in DOMAIN (p \o q)
    BY <1>2, <2>1
  <2> QED BY <2>2 DEF Range
<1>5. Range(q) \subseteq Range(p \o q)
  <2> SUFFICES ASSUME NEW i \in 1 .. n PROVE q[i] \in Range(p \o q)
    BY <1>1 DEF Range
  <2>1. i + m \in 1 .. m + n /\ ~(i + m <= m) /\ (i + m) - m = i
    OBVIOUS
  <2>2. (p \o q)[i + m] = q[i]
    BY <1>2, <2>1
  <2>3. i + m \in DOMAIN (p \o q)
    BY <1>2, <2>1
  <2> QED BY <2>2, <2>3 DEF Range
<1> QED BY <1>2, <1>3, <1>4, <1>5

LEMMA RangeType ==
    ASSUME NEW T, NEW q \in Seq(T)
    PROVE  Range(q) \subseteq T
  BY DEF Range

LEMMA RangeOfEmpty == Range(<<>>) = {}
  BY DEF Range

\* Distinct elements stay distinct.
LEMMA InjectiveTail ==
    ASSUME NEW T, NEW q \in Seq(T), q # <<>>, IsInjective(q)
    PROVE  IsInjective(Tail(q)) /\ Head(q) \notin Range(Tail(q))
<1>1. PICK k \in Nat : k = Len(q) /\ DOMAIN q = 1 .. k
  OBVIOUS
<1>2. k # 0
  BY <1>1
<1>3. PICK n \in Nat : n + 1 = k
  <2>1. k - 1 \in Nat /\ (k - 1) + 1 = k
    BY <1>2
  <2> QED BY <2>1
<1>4. Head(q) = q[1] /\ DOMAIN Tail(q) = 1 .. n /\ \A i \in 1 .. n : Tail(q)[i] = q[i + 1]
  BY <1>1, <1>2, <1>3
<1>5. 1 \in DOMAIN q /\ \A i \in 1 .. n : i + 1 \in DOMAIN q
  BY <1>1, <1>3
<1>6. \A i, j \in DOMAIN q : q[i] = q[j] => i = j
  BY DEF IsInjective
<1>7. Head(q) \notin Range(Tail(q))
  <2> SUFFICES ASSUME NEW i \in 1 .. n, q[i + 1] = q[1] PROVE FALSE
    BY <1>4 DEF Range
  <2>1. i + 1 = 1
    BY <1>5, <1>6
  <2> QED BY <2>1
<1>8. IsInjective(Tail(q))
  <2> SUFFICES ASSUME NEW i \in 1 .. n, NEW j \in 1 .. n, q[i + 1] = q[j + 1] PROVE i = j
    BY <1>4 DEF IsInjective
  <2>1. i + 1 = j + 1
    BY <1>5, <1>6
  <2> QED BY <2>1
<1> QED BY <1>7, <1>8

LEMMA InjectiveAppend ==
    ASSUME NEW T, NEW q \in Seq(T), NEW x \in T, x \notin Range(q), IsInjective(q)
    PROVE  IsInjective(Append(q, x))
<1>1. PICK n \in Nat : n = Len(q) /\ DOMAIN q = 1 .. n
  OBVIOUS
<1>2. PICK a : a = Append(q, x)
  OBVIOUS
<1>3. DOMAIN a = 1 .. n + 1 /\ a[n + 1] = x /\ \A i \in 1 .. n : a[i] = q[i]
  BY <1>1, <1>2
<1>4. \A i \in 1 .. n : a[i] # x /\ \A j \in 1 .. n : a[i] = a[j] => i = j
  BY <1>1, <1>3 DEF Range, IsInjective
<1>5. \A i \in 1 .. n + 1 : i = n + 1 \/ i \in 1 .. n
  OBVIOUS
<1> SUFFICES ASSUME NEW i \in 1 .. n + 1, NEW j \in 1 .. n + 1, a[i] = a[j] PROVE i = j
  BY <1>2, <1>3 DEF IsInjective
<1>6. CASE i = n + 1
  BY <1>3, <1>4, <1>5, <1>6
<1>7. CASE i \in 1 .. n
  BY <1>3, <1>4, <1>5, <1>7
<1> QED BY <1>5, <1>6, <1>7
=============================================================================

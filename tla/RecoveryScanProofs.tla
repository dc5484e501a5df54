-------------------------- MODULE RecoveryScanProofs --------------------------
(***************************************************************************)
(* Proofs about RecoveryScan: the cursor of the recovery scanner passes    *)
(* over no manifest whose message is not settled, for any number of        *)
(* manifests, any batch size and byte budget, any clock and any number of  *)
(* restarts and failed passes.                                             *)
(***************************************************************************)
EXTENDS RecoveryScan, FiniteSetTheorems, WellFoundedInduction, TLAPS

-----------------------------------------------------------------------------
(* Sorted lists. *)

\* What holds of 0 and, with n, of n + 1 holds of every natural number.
LEMMA NatSetInduction ==
  ASSUME NEW T, 0 \in T, \A n \in Nat : n \in T => n + 1 \in T
  PROVE  \A n \in Nat : n \in T
<1> SUFFICES ASSUME NEW n \in Nat, n \notin T PROVE FALSE
  OBVIOUS
<1> DEFINE Bd == {k \in Nat : k \notin T}
<1>1. Bd \subseteq Nat /\ Bd # {}
  OBVIOUS
<1>2. PICK x \in Bd : \A y \in Bd : ~(<<y, x>> \in OpToRel(<, Nat))
  BY <1>1, WFMin, NatLessThanWellFounded, Zenon
<1>3. x \in Nat /\ x # 0
  BY <1>2, Zenon
<1> DEFINE p == x - 1
<1>4. p \in Nat /\ p < x /\ p + 1 = x
  BY <1>3
<1> HIDE DEF p
<1>5. <<p, x>> \in OpToRel(<, Nat)
  BY <1>3, <1>4, Zenon DEF OpToRel
<1>6. p \in T
  BY <1>2, <1>4, <1>5, Zenon
<1> QED
  BY <1>2, <1>4, <1>6, Zenon

\* R orders S: of two elements one comes before the other, and R is transitive.
Orders(R, S) ==
  /\ \A x, y \in S : x # y => <<x, y>> \in R \/ <<y, x>> \in R
  /\ \A x, y, z \in S : <<x, y>> \in R /\ <<y, z>> \in R => <<x, z>> \in R

\* s lists S in the order R.
Lists(s, S, R) ==
  /\ s \in [1 .. Cardinality(S) -> S] /\ Range(s) = S
  /\ \A i, j \in DOMAIN s : i < j => <<s[i], s[j]>> \in R

\* S has a last element in the order R.
HasLast(R, S) == \E x \in S : \A y \in S : y # x => <<y, x>> \in R

\* A finite set that is not empty has a last element.
LEMMA LastElement ==
  ASSUME NEW R
  PROVE  \A n \in Nat : \A S : /\ IsFiniteSet(S) /\ Cardinality(S) = n + 1 /\ Orders(R, S)
                               => \E x \in S : \A y \in S : y # x => <<y, x>> \in R
<1> DEFINE Has(n) == \A S : /\ IsFiniteSet(S) /\ Cardinality(S) = n + 1 /\ Orders(R, S)
                            => \E x \in S : \A y \in S : y # x => <<y, x>> \in R
           T == {n \in Nat : Has(n)}
<1>1. Has(0)
  <2> SUFFICES ASSUME NEW S, IsFiniteSet(S), Cardinality(S) = 0 + 1
               PROVE  \E x \in S : \A y \in S : y # x => <<y, x>> \in R
    OBVIOUS
  <2>1. S # {}
    BY FS_EmptySet
  <2>2. PICK x \in S : TRUE
    BY <2>1
  <2>3. IsFiniteSet(S \ {x}) /\ Cardinality(S \ {x}) = 0
    BY FS_RemoveElement
  <2>4. S \ {x} = {}
    BY <2>3, FS_EmptySet
  <2> QED BY <2>2, <2>4, Zenon
<1>2. ASSUME NEW n \in Nat, Has(n) PROVE Has(n + 1)
  <2> SUFFICES ASSUME NEW S, IsFiniteSet(S), Cardinality(S) = n + 1 + 1, Orders(R, S)
               PROVE  \E x \in S : \A y \in S : y # x => <<y, x>> \in R
    OBVIOUS
  <2>1. S # {}
    BY FS_EmptySet
  <2>2. PICK a \in S : TRUE
    BY <2>1
  <2>3. IsFiniteSet(S \ {a}) /\ Cardinality(S \ {a}) = n + 1
    BY FS_RemoveElement
  <2>4. Orders(R, S \ {a})
    BY Zenon DEF Orders
  <2>5. PICK b \in S \ {a} : \A y \in S \ {a} : y # b => <<y, b>> \in R
    BY <1>2, <2>3, <2>4, Zenon
  <2>6. CASE <<a, b>> \in R
    BY <2>5, <2>6, Zenon
  <2>7. CASE <<b, a>> \in R
    <3>1. ASSUME NEW y \in S, y # a PROVE <<y, a>> \in R
      BY <2>5, <2>7, <3>1, Zenon DEF Orders
    <3> QED BY <3>1, Zenon
  <2> QED BY <2>5, <2>6, <2>7, Zenon DEF Orders
<1>3. 0 \in T /\ \A n \in Nat : n \in T => n + 1 \in T
  <2> HIDE DEF Has
  <2> QED BY <1>1, <1>2
<1>4. \A n \in Nat : n \in T
  <2> HIDE DEF T
  <2> QED BY <1>3, NatSetInduction, Zenon
<1> QED
  <2> HIDE DEF Has
  <2>1. \A n \in Nat : Has(n)
    BY <1>4, Zenon
  <2> QED BY <2>1, Zenon DEF Has

\* A finite ordered set that is not empty has a last element.
LEMMA LastOf ==
  ASSUME NEW R, NEW S, IsFiniteSet(S), S # {}, Orders(R, S)
  PROVE  HasLast(R, S)
<1>1. Cardinality(S) \in Nat /\ Cardinality(S) # 0
  BY FS_CardinalityType, FS_EmptySet, Zenon
<1>2. Cardinality(S) - 1 \in Nat /\ Cardinality(S) = (Cardinality(S) - 1) + 1
  BY <1>1
<1>3. PICK k \in Nat : Cardinality(S) = k + 1
  BY <1>2, Zenon
<1> QED BY <1>3, LastElement DEF HasLast

\* The list of a set with one more element, which comes last.
LEMMA ListGrows ==
  ASSUME NEW R, NEW S, NEW x \in S, NEW s, IsFiniteSet(S), NEW n \in Nat, Cardinality(S) = n + 1,
         Cardinality(S \ {x}) = n, Lists(s, S \ {x}, R), \A y \in S : y # x => <<y, x>> \in R
  PROVE  \E t : Lists(t, S, R)
<1> DEFINE t == [i \in 1 .. n + 1 |-> IF i = n + 1 THEN x ELSE s[i]]
<1>1. s \in [1 .. n -> S \ {x}] /\ DOMAIN s = 1 .. n
  BY Zenon DEF Lists
<1>2. /\ \A i \in 1 .. n : i \in 1 .. n + 1 /\ i # n + 1 /\ i < n + 1
      /\ \A i \in 1 .. n + 1 : i # n + 1 => i \in 1 .. n
      /\ n + 1 \in 1 .. n + 1 /\ \A i \in 1 .. n + 1 : ~(n + 1 < i)
  OBVIOUS
<1>3. /\ \A i \in 1 .. n : t[i] = s[i] /\ s[i] \in S \ {x}
      /\ t[n + 1] = x /\ DOMAIN t = 1 .. n + 1
  BY <1>1, <1>2
<1>4. t \in [1 .. n + 1 -> S]
  BY <1>1, <1>2, Zenon
<1> HIDE DEF t
<1>5. \A y : y \in Range(t) <=> y \in S
  <2>1. ASSUME NEW y \in Range(t) PROVE y \in S
    BY <1>3, <1>4, Zenon DEF Range
  <2>2. ASSUME NEW y \in S PROVE y \in Range(t)
    <3>1. CASE y = x
      BY <1>2, <1>3, <3>1, Zenon DEF Range
    <3>2. CASE y # x
      <4>1. y \in Range(s)
        BY <3>2, Zenon DEF Lists
      <4>2. PICK i \in 1 .. n : s[i] = y
        BY <1>1, <4>1, Zenon DEF Range
      <4> QED BY <1>2, <1>3, <4>2, Zenon DEF Range
    <3> QED BY <3>1, <3>2, Zenon
  <2> QED BY <2>1, <2>2, Zenon
<1>6. Range(t) = S
  BY <1>5
<1>7. ASSUME NEW i \in 1 .. n + 1, NEW j \in 1 .. n + 1, i < j PROVE <<t[i], t[j]>> \in R
  <2>1. i # n + 1
    BY <1>2, <1>7, Zenon
  <2>2. i \in 1 .. n
    BY <1>2, <2>1, Zenon
  <2>3. CASE j = n + 1
    BY <1>3, <2>2, <2>3, Zenon
  <2>4. CASE j # n + 1
    <3>1. j \in 1 .. n
      BY <1>2, <2>4, Zenon
    <3>2. <<s[i], s[j]>> \in R
      BY <1>1, <1>7, <2>2, <3>1, Zenon DEF Lists
    <3> QED BY <1>3, <2>2, <3>1, <3>2, Zenon
  <2> QED BY <2>3, <2>4, Zenon
<1>8. Lists(t, S, R)
  BY <1>3, <1>4, <1>6, <1>7, Zenon DEF Lists
<1> QED BY <1>8, Zenon

\* Every finite set can be listed in order.
LEMMA ListExists ==
  ASSUME NEW R, NEW S, IsFiniteSet(S), Orders(R, S)
  PROVE  \E s : Lists(s, S, R)
<1> DEFINE Has(n) == \A A : /\ IsFiniteSet(A) /\ Cardinality(A) = n /\ Orders(R, A)
                            => \E s : Lists(s, A, R)
           T == {n \in Nat : Has(n)}
<1>1. Has(0)
  <2> SUFFICES ASSUME NEW A, IsFiniteSet(A), Cardinality(A) = 0
               PROVE  \E s : Lists(s, A, R)
    OBVIOUS
  <2>1. A = {}
    BY FS_EmptySet
  <2> DEFINE s == [i \in 1 .. 0 |-> 0]
  <2>2. 1 .. 0 = {}
    OBVIOUS
  <2>3. s \in [1 .. 0 -> A] /\ DOMAIN s = {}
    BY <2>2, Zenon
  <2> HIDE DEF s
  <2>4. Range(s) = A
    BY <2>1, <2>3, Zenon DEF Range
  <2>5. Lists(s, A, R)
    BY <2>3, <2>4, Zenon DEF Lists
  <2> QED BY <2>5, Zenon
<1>2. ASSUME NEW n \in Nat, Has(n) PROVE Has(n + 1)
  <2> SUFFICES ASSUME NEW A, IsFiniteSet(A), Cardinality(A) = n + 1, Orders(R, A)
               PROVE  \E s : Lists(s, A, R)
    OBVIOUS
  <2> HIDE DEF Has
  <2>0. A # {}
    BY FS_EmptySet
  <2>1. PICK x \in A : \A y \in A : y # x => <<y, x>> \in R
    <3>1. HasLast(R, A)
      BY <2>0, LastOf, Zenon
    <3> QED BY <3>1, Zenon DEF HasLast
  <2>2. IsFiniteSet(A \ {x}) /\ Cardinality(A \ {x}) = n
    <3>1. IsFiniteSet(A \ {x}) /\ Cardinality(A \ {x}) = Cardinality(A) - 1
      BY FS_RemoveElement, Zenon
    <3> QED BY <3>1
  <2>3. Orders(R, A \ {x})
    BY Zenon DEF Orders
  <2>4. PICK s : Lists(s, A \ {x}, R)
    BY <1>2, <2>2, <2>3, Zenon DEF Has
  <2> QED BY <2>1, <2>2, <2>4, ListGrows, Zenon
<1>3. 0 \in T /\ \A n \in Nat : n \in T => n + 1 \in T
  <2> HIDE DEF Has
  <2> QED BY <1>1, <1>2
<1>4. \A n \in Nat : n \in T
  <2> HIDE DEF T
  <2> QED BY <1>3, NatSetInduction, Zenon
<1>5. Cardinality(S) \in Nat
  BY FS_CardinalityType, Zenon
<1> QED BY <1>4, <1>5, Zenon

\* Sorted lists numbers in ascending order.
LEMMA SortedNumbers ==
  ASSUME NEW S, IsFiniteSet(S), S \subseteq Nat
  PROVE  /\ Sorted(S, <) \in [1 .. Cardinality(S) -> S] /\ Range(Sorted(S, <)) = S
         /\ \A i, j \in 1 .. Cardinality(S) : i < j => Sorted(S, <)[i] < Sorted(S, <)[j]
<1> DEFINE R == {z \in S \X S : z[1] < z[2]}
<1>1. \A x, y \in S : <<x, y>> \in R <=> x < y
  OBVIOUS
<1>2. \A x, y \in S : x # y => x < y \/ y < x
  OBVIOUS
<1>3. \A x, y, z \in S : x < y /\ y < z => x < z
  OBVIOUS
<1> HIDE DEF R
<1>4. Orders(R, S)
  BY <1>1, <1>2, <1>3, Zenon DEF Orders
<1>5. PICK s : Lists(s, S, R)
  BY <1>4, ListExists, Zenon
<1>6. \A t \in [1 .. Cardinality(S) -> S] : DOMAIN t = 1 .. Cardinality(S)
  OBVIOUS
<1>7. /\ s \in [1 .. Cardinality(S) -> S] /\ Range(s) = S
      /\ \A i, j \in DOMAIN s : i < j => s[i] < s[j]
  BY <1>1, <1>5, Zenon DEF Lists
<1>8. /\ Sorted(S, <) \in [1 .. Cardinality(S) -> S] /\ Range(Sorted(S, <)) = S
      /\ \A i, j \in DOMAIN Sorted(S, <) : i < j => Sorted(S, <)[i] < Sorted(S, <)[j]
  BY <1>7, Zenon DEF Sorted
<1> QED BY <1>6, <1>8, Zenon

\* A list has a type, and so does its set.
LEMMA SeqFacts ==
  ASSUME NEW X, NEW q \in Seq(X)
  PROVE  /\ Len(q) \in Nat /\ DOMAIN q = 1 .. Len(q) /\ \A i \in DOMAIN q : q[i] \in X
         /\ Range(q) \subseteq X /\ IsFiniteSet(DOMAIN q) /\ IsFiniteSet(Range(q))
<1>1. Len(q) \in Nat /\ DOMAIN q = 1 .. Len(q) /\ \A i \in DOMAIN q : q[i] \in X
  OBVIOUS
<1>2. Range(q) \subseteq X
  BY <1>1, Zenon DEF Range
<1>3. IsFiniteSet(1 .. Len(q))
  BY <1>1, FS_Interval
<1>4. IsFiniteSet(Range(q))
  <2>1. q \in [DOMAIN q -> Range(q)]
    <3>1. q \in [DOMAIN q -> X]
      BY <1>1
    <3> QED BY <3>1, Zenon DEF Range
  <2>2. \A y \in Range(q) : \E i \in DOMAIN q : q[i] = y
    BY Zenon DEF Range
  <2>3. q \in Surjection(DOMAIN q, Range(q))
    BY <2>1, <2>2, Zenon DEF Surjection
  <2> QED BY <1>1, <1>3, <2>3, FS_Surjection, Zenon
<1> QED BY <1>1, <1>2, <1>3, <1>4, Zenon

\* The elements of a sorted list of numbers, as a list.
LEMMA SortedSeq ==
  ASSUME NEW S, IsFiniteSet(S), S \subseteq Nat
  PROVE  Sorted(S, <) \in Seq(S) /\ Range(Sorted(S, <)) = S
<1>1. Cardinality(S) \in Nat
  BY FS_CardinalityType, Zenon
<1>2. PICK s : s = Sorted(S, <)
  BY Zenon
<1>3. s \in [1 .. Cardinality(S) -> S] /\ Range(s) = S
  BY <1>2, SortedNumbers, Zenon
<1>4. s \in Seq(S)
  <2> HIDE <1>2
  <2> QED BY <1>1, <1>3
<1> QED BY <1>2, <1>3, <1>4, Zenon

\* Only keeps the elements of S and no others.
LEMMA OnlyFacts ==
  ASSUME NEW X, NEW q \in Seq(X), NEW S
  PROVE  Only(q, S) \in Seq(X) /\ Range(Only(q, S)) = Range(q) \cap S
<1> DEFINE A == {i \in DOMAIN q : q[i] \in S}
<1>1. A \subseteq DOMAIN q
  OBVIOUS
<1>2. IsFiniteSet(A) /\ A \subseteq Nat
  <2>1. DOMAIN q \subseteq Nat
    OBVIOUS
  <2> QED BY <1>1, <2>1, SeqFacts, FS_Subset, Zenon
<1> DEFINE at == Sorted(A, <)
           w == [k \in DOMAIN at |-> q[at[k]]]
<1>3. w = Only(q, S)
  BY Zenon DEF Only
<1>4. \A i : i \in A <=> i \in DOMAIN q /\ q[i] \in S
  BY Zenon
<1> HIDE DEF A
<1>5. at \in [1 .. Cardinality(A) -> A] /\ Range(at) = A
  BY <1>2, SortedNumbers, Zenon
<1> HIDE DEF at
<1>6. DOMAIN at = 1 .. Cardinality(A) /\ Cardinality(A) \in Nat
  BY <1>2, <1>5, FS_CardinalityType, Zenon
<1>7. /\ DOMAIN w = 1 .. Cardinality(A)
      /\ \A k \in DOMAIN w : w[k] = q[at[k]] /\ at[k] \in A
  BY <1>5, <1>6, Zenon
<1>8. \A i \in DOMAIN q : q[i] \in X
  BY SeqFacts, Zenon
<1>9. w \in [1 .. Cardinality(A) -> X]
  BY <1>4, <1>5, <1>6, <1>7, <1>8, Zenon
<1> HIDE DEF w
<1>10. w \in Seq(X)
  BY <1>6, <1>9
<1>11. ASSUME NEW y \in Range(w) PROVE y \in Range(q) \cap S
  BY <1>4, <1>7, <1>11, Zenon DEF Range
<1>12. ASSUME NEW y \in Range(q) \cap S PROVE y \in Range(w)
  <2>1. PICK i \in DOMAIN q : q[i] = y
    BY <1>12, Zenon DEF Range
  <2>2. i \in Range(at)
    BY <1>4, <1>5, <1>12, <2>1, Zenon
  <2>3. PICK k \in DOMAIN at : at[k] = i
    BY <2>2, Zenon DEF Range
  <2> QED BY <1>6, <1>7, <2>1, <2>3, Zenon DEF Range
<1>13. Range(w) = Range(q) \cap S
  BY <1>11, <1>12, Zenon
<1> QED BY <1>3, <1>10, <1>13, Zenon

\* Without drops the elements of S and no others.
LEMMA WithoutFacts ==
  ASSUME NEW X, NEW q \in Seq(X), NEW S
  PROVE  Without(q, S) \in Seq(X) /\ Range(Without(q, S)) = Range(q) \ S
<1>1. /\ Only(q, Range(q) \ S) \in Seq(X)
      /\ Range(Only(q, Range(q) \ S)) = Range(q) \cap (Range(q) \ S)
  BY OnlyFacts, Zenon
<1> QED BY <1>1, Zenon DEF Without

\* The set of one list after another.
LEMMA Concatenated ==
  ASSUME NEW X, NEW q \in Seq(X), NEW r \in Seq(X)
  PROVE  q \o r \in Seq(X) /\ Range(q \o r) = Range(q) \cup Range(r)
<1>1. /\ q \o r \in Seq(X) /\ Len(q \o r) = Len(q) + Len(r)
      /\ \A i \in 1 .. Len(q) : (q \o r)[i] = q[i]
      /\ \A i \in 1 .. Len(r) : (q \o r)[Len(q) + i] = r[i]
  OBVIOUS
<1>2. DOMAIN (q \o r) = 1 .. Len(q) + Len(r) /\ DOMAIN q = 1 .. Len(q) /\ DOMAIN r = 1 .. Len(r)
  BY <1>1
<1>3. /\ \A i \in 1 .. Len(q) : i \in 1 .. Len(q) + Len(r)
      /\ \A i \in 1 .. Len(r) : Len(q) + i \in 1 .. Len(q) + Len(r)
      /\ \A i \in 1 .. Len(q) + Len(r) : i \in 1 .. Len(q) \/ \E j \in 1 .. Len(r) : i = Len(q) + j
  <2>1. Len(q) \in Nat /\ Len(r) \in Nat
    OBVIOUS
  <2>2. ASSUME NEW i \in 1 .. Len(q) + Len(r), i \notin 1 .. Len(q)
        PROVE  \E j \in 1 .. Len(r) : i = Len(q) + j
    <3>1. i - Len(q) \in 1 .. Len(r) /\ i = Len(q) + (i - Len(q))
      BY <2>1, <2>2
    <3> QED BY <3>1
  <2> QED BY <2>1, <2>2
<1>4. ASSUME NEW y \in Range(q \o r) PROVE y \in Range(q) \cup Range(r)
  <2>1. PICK i \in 1 .. Len(q) + Len(r) : (q \o r)[i] = y
    BY <1>2, <1>4, Zenon DEF Range
  <2> QED BY <1>1, <1>2, <1>3, <2>1, Zenon DEF Range
<1>5. ASSUME NEW y \in Range(q) PROVE y \in Range(q \o r)
  BY <1>1, <1>2, <1>3, <1>5, Zenon DEF Range
<1>6. ASSUME NEW y \in Range(r) PROVE y \in Range(q \o r)
  <2>1. PICK i \in 1 .. Len(r) : r[i] = y
    BY <1>2, <1>6, Zenon DEF Range
  <2>2. Len(q) + i \in DOMAIN (q \o r) /\ (q \o r)[Len(q) + i] = y
    BY <1>1, <1>2, <1>3, <2>1, Zenon
  <2> QED BY <2>2, Zenon DEF Range
<1> QED BY <1>1, <1>4, <1>5, <1>6, Zenon

\* The set of a list with one more element.
LEMMA Appended ==
  ASSUME NEW X, NEW q \in Seq(X), NEW x \in X
  PROVE  Append(q, x) \in Seq(X) /\ Range(Append(q, x)) = Range(q) \cup {x}
<1>1. /\ Append(q, x) \in Seq(X) /\ DOMAIN q = 1 .. Len(q) /\ Len(q) \in Nat
      /\ DOMAIN Append(q, x) = 1 .. Len(q) + 1
      /\ \A i \in 1 .. Len(q) : i \in 1 .. Len(q) + 1 /\ Append(q, x)[i] = q[i]
      /\ Append(q, x)[Len(q) + 1] = x
  OBVIOUS
<1>2. Len(q) + 1 \in 1 .. Len(q) + 1 /\ \A i \in 1 .. Len(q) + 1 : i \in 1 .. Len(q) \/ i = Len(q) + 1
  BY <1>1
<1>3. ASSUME NEW y \in Range(Append(q, x)) PROVE y \in Range(q) \cup {x}
  <2>1. PICK i \in 1 .. Len(q) + 1 : Append(q, x)[i] = y
    BY <1>1, <1>3, Zenon DEF Range
  <2> QED BY <1>1, <1>2, <2>1, Zenon DEF Range
<1>4. ASSUME NEW y \in Range(q) PROVE y \in Range(Append(q, x))
  BY <1>1, <1>4, Zenon DEF Range
<1>5. x \in Range(Append(q, x))
  BY <1>1, <1>2, Zenon DEF Range
<1> QED BY <1>1, <1>3, <1>4, <1>5, Zenon

\* The set of a list is its first element and those of the tail.
LEMMA HeadAndTail ==
  ASSUME NEW X, NEW q \in Seq(X), q # <<>>
  PROVE  Head(q) \in X /\ Tail(q) \in Seq(X) /\ Range(q) = {Head(q)} \cup Range(Tail(q))
<1>1. /\ Tail(q) \in Seq(X) /\ DOMAIN q = 1 .. Len(q) /\ Len(q) \in Nat /\ Len(q) > 0
      /\ Head(q) = q[1] /\ DOMAIN Tail(q) = 1 .. Len(q) - 1
      /\ \A i \in 1 .. Len(q) - 1 : Tail(q)[i] = q[i + 1]
  OBVIOUS
<1>2. 1 \in 1 .. Len(q) /\ \A i \in 1 .. Len(q) - 1 : i + 1 \in 1 .. Len(q)
  BY <1>1
<1>3. \A i \in 1 .. Len(q) : i = 1 \/ \E j \in 1 .. Len(q) - 1 : i = j + 1
  <2>1. ASSUME NEW i \in 1 .. Len(q), i # 1 PROVE \E j \in 1 .. Len(q) - 1 : i = j + 1
    <3>1. i - 1 \in 1 .. Len(q) - 1 /\ i = (i - 1) + 1
      BY <1>1, <2>1
    <3> QED BY <3>1
  <2> QED BY <2>1
<1>4. q[1] \in X
  BY <1>1, <1>2
<1>5. ASSUME NEW y \in Range(q) PROVE y \in {Head(q)} \cup Range(Tail(q))
  <2>1. PICK i \in 1 .. Len(q) : q[i] = y
    BY <1>1, <1>5, Zenon DEF Range
  <2>2. CASE i = 1
    BY <1>1, <2>1, <2>2, Zenon
  <2>3. CASE i # 1
    <3>1. PICK j \in 1 .. Len(q) - 1 : i = j + 1
      BY <1>3, <2>3, Zenon
    <3> QED BY <1>1, <2>1, <3>1, Zenon DEF Range
  <2> QED BY <2>2, <2>3, Zenon
<1>6. ASSUME NEW y \in Range(Tail(q)) PROVE y \in Range(q)
  <2>1. PICK i \in 1 .. Len(q) - 1 : Tail(q)[i] = y
    BY <1>1, <1>6, Zenon DEF Range
  <2>2. q[i + 1] = y /\ i + 1 \in DOMAIN q
    BY <1>1, <1>2, <2>1, Zenon
  <2> QED BY <2>2, Zenon DEF Range
<1>7. Head(q) \in Range(q)
  BY <1>1, <1>2, Zenon DEF Range
<1> QED BY <1>1, <1>4, <1>5, <1>6, <1>7, Zenon

\* The first m elements of a list, none if m is negative.
LEMMA FirstFew ==
  ASSUME NEW X, NEW q \in Seq(X), NEW m \in Int, m <= Len(q)
  PROVE  /\ SubSeq(q, 1, m) \in Seq(X) /\ DOMAIN SubSeq(q, 1, m) = 1 .. m
         /\ \A i \in 1 .. m : i \in DOMAIN q /\ SubSeq(q, 1, m)[i] = q[i]
         /\ Range(SubSeq(q, 1, m)) \subseteq Range(q)
<1>1. CASE m < 0
  <2>1. SubSeq(q, 1, m) = <<>> /\ 1 .. m = {}
    BY <1>1
  <2>2. DOMAIN SubSeq(q, 1, m) = 1 .. m /\ SubSeq(q, 1, m) \in Seq(X)
    BY <2>1
  <2>3. Range(SubSeq(q, 1, m)) = {}
    BY <2>1, <2>2, Zenon DEF Range
  <2> QED BY <2>1, <2>2, <2>3, Zenon
<1>2. CASE m >= 0
  <2>1. m \in 0 .. Len(q)
    BY <1>2
  <2>2. /\ SubSeq(q, 1, m) \in Seq(X) /\ DOMAIN SubSeq(q, 1, m) = 1 .. m
        /\ \A i \in 1 .. m : i \in DOMAIN q /\ SubSeq(q, 1, m)[i] = q[i]
    BY <2>1
  <2>3. Range(SubSeq(q, 1, m)) \subseteq Range(q)
    BY <2>2, Zenon DEF Range
  <2> QED BY <2>2, <2>3, Zenon
<1> QED BY <1>1, <1>2

\* A list is its first m elements and the rest.
LEMMA Split ==
  ASSUME NEW X, NEW q \in Seq(X), NEW m \in 0 .. Len(q)
  PROVE  /\ SubSeq(q, 1, m) \in Seq(X) /\ SubSeq(q, m + 1, Len(q)) \in Seq(X)
         /\ Range(q) = Range(SubSeq(q, 1, m)) \cup Range(SubSeq(q, m + 1, Len(q)))
<1>0. m \in Int /\ m <= Len(q) /\ Len(q) \in Nat /\ DOMAIN q = 1 .. Len(q)
  OBVIOUS
<1>1. /\ SubSeq(q, 1, m) \in Seq(X) /\ DOMAIN SubSeq(q, 1, m) = 1 .. m
      /\ \A i \in 1 .. m : i \in DOMAIN q /\ SubSeq(q, 1, m)[i] = q[i]
      /\ Range(SubSeq(q, 1, m)) \subseteq Range(q)
  BY <1>0, FirstFew, Zenon
<1> DEFINE r == SubSeq(q, m + 1, Len(q))
<1>3. r \in Seq(X) /\ Len(r) = Len(q) - m /\ \A i \in 1 .. Len(q) - m : r[i] = q[i + m]
  OBVIOUS
<1>2. r = SubSeq(q, m + 1, Len(q))
  BY Zenon
<1> HIDE DEF r
<1>4. DOMAIN r = 1 .. Len(q) - m
  BY <1>3
<1>5. /\ \A i \in 1 .. Len(q) - m : i + m \in 1 .. Len(q)
      /\ \A i \in 1 .. Len(q) : i \in 1 .. m \/ \E j \in 1 .. Len(q) - m : i = j + m
  <2>1. ASSUME NEW i \in 1 .. Len(q), i \notin 1 .. m PROVE \E j \in 1 .. Len(q) - m : i = j + m
    <3>1. i - m \in 1 .. Len(q) - m /\ i = (i - m) + m
      BY <1>0, <2>1
    <3> QED BY <3>1
  <2> QED BY <1>0, <2>1
<1>6. ASSUME NEW y \in Range(r) PROVE y \in Range(q)
  <2>1. PICK i \in 1 .. Len(q) - m : r[i] = y
    BY <1>4, <1>6, Zenon DEF Range
  <2>2. q[i + m] = y /\ i + m \in DOMAIN q
    BY <1>0, <1>3, <1>5, <2>1, Zenon
  <2> QED BY <2>2, Zenon DEF Range
<1>7. ASSUME NEW y \in Range(q) PROVE y \in Range(SubSeq(q, 1, m)) \cup Range(r)
  <2>1. PICK i \in 1 .. Len(q) : q[i] = y
    BY <1>0, <1>7, Zenon DEF Range
  <2>2. CASE i \in 1 .. m
    BY <1>1, <2>1, <2>2, Zenon DEF Range
  <2>3. CASE i \notin 1 .. m
    <3>1. PICK j \in 1 .. Len(q) - m : i = j + m
      BY <1>5, <2>3, Zenon
    <3>2. r[j] = y /\ j \in DOMAIN r
      BY <1>3, <1>4, <2>1, <3>1, Zenon
    <3> QED BY <3>2, Zenon DEF Range
  <2> QED BY <2>2, <2>3, Zenon
<1> QED BY <1>1, <1>2, <1>3, <1>6, <1>7, Zenon

\* A set of natural numbers that is not empty has a least one.
LEMMA Least ==
  ASSUME NEW S, S \subseteq Nat, S # {}
  PROVE  Min(S) \in S /\ \A y \in S : Min(S) <= y
<1>1. PICK x \in S : \A y \in S : ~(<<y, x>> \in OpToRel(<, Nat))
  BY WFMin, NatLessThanWellFounded, Zenon
<1>2. \A y \in S : ~(y < x)
  BY <1>1, Zenon DEF OpToRel
<1>3. x \in Nat /\ \A y \in S : y \in Nat
  BY Zenon
<1>4. \A y \in S : x <= y
  BY <1>2, <1>3
<1> QED BY <1>4, Zenon DEF Min

\* A finite set of integers that is not empty has a greatest one.
LEMMA Greatest ==
  ASSUME NEW S, S \subseteq Int, S # {}, IsFiniteSet(S)
  PROVE  Max(S) \in S /\ \A y \in S : Max(S) >= y
<1> DEFINE R == {z \in S \X S : z[1] < z[2]}
<1>1. \A x, y \in S : <<x, y>> \in R <=> x < y
  OBVIOUS
<1>2. /\ \A x, y \in S : x # y => x < y \/ y < x
      /\ \A x, y, z \in S : x < y /\ y < z => x < z
  OBVIOUS
<1> HIDE DEF R
<1>3. Orders(R, S)
  BY <1>1, <1>2, Zenon DEF Orders
<1>6. PICK x \in S : \A y \in S : y # x => <<y, x>> \in R
  <2>1. HasLast(R, S)
    BY <1>3, LastOf, Zenon
  <2> QED BY <2>1, Zenon DEF HasLast
<1>7. \A y \in S : y # x => y < x
  BY <1>1, <1>6, Zenon
<1>8. \A y \in S : x >= y
  BY <1>7
<1> QED BY <1>8, Zenon DEF Max

-----------------------------------------------------------------------------
(* The batch of a pass. *)

\* Every variable has its type; the manifests there are and the marks are
\* finite in number.
Typed ==
  /\ now \in Nat /\ draft \in [Paths -> Int] /\ mtime \in [Paths -> Int]
  /\ st \in [Paths -> {"none", "owned", "orphan", "indexed", "quarantined"}]
  /\ listed \subseteq Paths /\ todo \in Seq(Paths)
  /\ marks \subseteq Paths \X Nat /\ IsFiniteSet(marks)
  /\ watermark \in Int /\ seen \subseteq Paths /\ retries \in Seq(Paths)
  /\ IsFiniteSet({p \in Paths : mtime[p] >= 0 \/ draft[p] >= 0})

\* _take_periodic_retries hands out rows whose file is there, and keeps all of
\* those in the table.
LEMMA TakeFacts ==
  ASSUME NEW q \in Seq(Paths), NEW limit, NEW exclude
  PROVE  LET t == Take(q, limit, exclude) IN
         /\ t.taken \in Seq(Paths) /\ Range(t.taken) \subseteq Visible
         /\ t.left \in Seq(Paths) /\ Range(q) \cap Visible \subseteq Range(t.left)
         /\ Range(t.left) \subseteq Range(q)
<1> DEFINE found(n) == {i \in 1 .. n : mtime[q[i]] >= 0 /\ q[i] \notin exclude}
           full_at == {n \in 0 .. Len(q) : Cardinality(found(n)) = limit}
           inspected == IF full_at = {} THEN Len(q) ELSE Min(full_at)
           front == SubSeq(q, 1, inspected)
           rest == SubSeq(q, inspected + 1, Len(q))
           t == Take(q, limit, exclude)
<1>1. t.taken = Only(front, Visible \ exclude) /\ t.left = rest \o Only(front, Visible)
  BY Zenon DEF Take
<1>2. full_at \subseteq 0 .. Len(q) /\ 0 .. Len(q) \subseteq Nat /\ Len(q) \in 0 .. Len(q)
  OBVIOUS
<1> HIDE DEF full_at, t
<1>3. inspected \in 0 .. Len(q)
  <2>1. CASE full_at = {}
    BY <1>2, <2>1, Zenon
  <2>2. CASE full_at # {}
    <3>1. full_at \subseteq Nat
      BY <1>2, Zenon
    <3>2. Min(full_at) \in full_at
      BY <2>2, <3>1, Least, Zenon
    <3> QED BY <1>2, <2>2, <3>2, Zenon
  <2> QED BY <2>1, <2>2, Zenon
<1> HIDE DEF inspected
<1>4. /\ front \in Seq(Paths) /\ rest \in Seq(Paths)
      /\ Range(q) = Range(front) \cup Range(rest)
  BY <1>3, Split, Zenon
<1> HIDE DEF front, rest
<1>5. t.taken \in Seq(Paths) /\ Range(t.taken) = Range(front) \cap (Visible \ exclude)
  <2>1. PICK V : V = Visible \ exclude
    BY Zenon
  <2>2. Only(front, V) \in Seq(Paths) /\ Range(Only(front, V)) = Range(front) \cap V
    BY <1>4, OnlyFacts, Zenon
  <2> QED BY <1>1, <2>1, <2>2, Zenon
<1>6. /\ Only(front, Visible) \in Seq(Paths)
      /\ Range(Only(front, Visible)) = Range(front) \cap Visible
  BY <1>4, OnlyFacts, Zenon
<1>7. t.left \in Seq(Paths) /\ Range(t.left) = Range(rest) \cup (Range(front) \cap Visible)
  <2>1. PICK v : v = Only(front, Visible)
    BY Zenon
  <2>2. v \in Seq(Paths) /\ Range(v) = Range(front) \cap Visible
    BY <1>6, <2>1, Zenon
  <2>3. rest \o v \in Seq(Paths) /\ Range(rest \o v) = Range(rest) \cup Range(v)
    BY <1>4, <2>2, Concatenated
  <2>4. t.left = rest \o v
    BY <1>1, <2>1, Zenon
  <2> QED BY <2>2, <2>3, <2>4, Zenon
<1>8. /\ t.taken \in Seq(Paths) /\ Range(t.taken) \subseteq Visible
      /\ t.left \in Seq(Paths) /\ Range(q) \cap Visible \subseteq Range(t.left)
      /\ Range(t.left) \subseteq Range(q)
  BY <1>4, <1>5, <1>7, Zenon
<1> QED BY <1>8, Zenon DEF t

\* The batch that fits the byte budget is the first part of the selection.
LEMMA BoundedFacts ==
  ASSUME NEW s \in Seq(Paths)
  PROVE  \E n \in 0 .. Len(s) : Bounded(s) = SubSeq(s, 1, n)
<1> DEFINE N == {n \in 0 .. Len(s) : n <= 1 \/ Bytes(SubSeq(s, 1, n)) <= BatchBytes}
<1>1. Len(s) \in Nat /\ 0 \in 0 .. Len(s) /\ 0 <= 1
  OBVIOUS
<1>2. 0 \in N
  BY <1>1, Zenon
<1>3. N \subseteq 0 .. Len(s) /\ Bounded(s) = SubSeq(s, 1, Max(N))
  BY Zenon DEF Bounded
<1> HIDE DEF N
<1>4. IsFiniteSet(0 .. Len(s)) /\ 0 .. Len(s) \subseteq Int
  BY <1>1, FS_Interval
<1>5. IsFiniteSet(N) /\ N \subseteq Int /\ N # {}
  BY <1>2, <1>3, <1>4, FS_Subset, Zenon
<1>6. Max(N) \in N
  BY <1>5, Greatest, Zenon
<1> QED BY <1>3, <1>6, Zenon

\* Fresh paths are listed by mtime, then by name.
LEMMA FreshListed ==
  ASSUME Typed
  PROVE  /\ OrderedFresh \in Seq(Paths) /\ DOMAIN OrderedFresh = 1 .. Cardinality(Fresh)
         /\ Cardinality(Fresh) \in Nat /\ Range(OrderedFresh) = Fresh
         /\ \A i, j \in DOMAIN OrderedFresh : i < j => Older(OrderedFresh[i], OrderedFresh[j])
<1>1. Fresh \subseteq Paths /\ Fresh \subseteq {p \in Paths : mtime[p] >= 0 \/ draft[p] >= 0}
  BY Zenon DEF Fresh, Visible
<1>2. IsFiniteSet(Fresh) /\ Cardinality(Fresh) \in Nat
  BY <1>1, FS_Subset, FS_CardinalityType, Zenon DEF Typed
<1>3. \A p \in Fresh : p \in Nat /\ mtime[p] \in Int
  BY <1>1, ScanConstants DEF Typed
<1>4. /\ \A p, q \in Fresh : p # q => Older(p, q) \/ Older(q, p)
      /\ \A p, q, r \in Fresh : Older(p, q) /\ Older(q, r) => Older(p, r)
  BY <1>3 DEF Older
<1> DEFINE R == {z \in Fresh \X Fresh : Older(z[1], z[2])}
<1>5. \A x, y \in Fresh : <<x, y>> \in R <=> Older(x, y)
  OBVIOUS
<1> HIDE DEF R
<1>6. Orders(R, Fresh)
  BY <1>4, <1>5, Zenon DEF Orders
<1>7. PICK s : Lists(s, Fresh, R)
  BY <1>2, <1>6, ListExists, Zenon
<1>8. /\ s \in [1 .. Cardinality(Fresh) -> Fresh] /\ Range(s) = Fresh
      /\ \A i, j \in DOMAIN s : i < j => Older(s[i], s[j])
  BY <1>5, <1>7, Zenon DEF Lists
<1>9. /\ OrderedFresh \in [1 .. Cardinality(Fresh) -> Fresh] /\ Range(OrderedFresh) = Fresh
      /\ \A i, j \in DOMAIN OrderedFresh : i < j => Older(OrderedFresh[i], OrderedFresh[j])
  BY <1>8, Zenon DEF OrderedFresh, Sorted
<1>10. OrderedFresh \in [1 .. Cardinality(Fresh) -> Paths]
  BY <1>1, <1>9, Zenon
<1>11. OrderedFresh \in Seq(Paths)
  BY <1>2, <1>10
<1> QED BY <1>2, <1>9, <1>11, Zenon

\* Of a first part f of s, continued as g and cut off, the elements that are
\* left come before all the other elements of s.
LEMMA FirstComeFirst ==
  ASSUME NEW s \in Seq(Paths), NEW m \in Int, m <= Len(s), NEW g \in Seq(Paths), NEW b \in 0 .. Len(g),
         NEW f, f = SubSeq(s, 1, m), \A i \in DOMAIN f : i \in DOMAIN g /\ g[i] = f[i],
         NEW p \in Range(SubSeq(g, 1, b)) \cap Range(f),
         NEW q \in Range(s), q \notin Range(SubSeq(g, 1, b)) \cap Range(f)
  PROVE  \E i, j \in DOMAIN s : i < j /\ s[i] = p /\ s[j] = q
<1>1. /\ DOMAIN f = 1 .. m /\ \A i \in 1 .. m : i \in DOMAIN s /\ f[i] = s[i]
  BY FirstFew
<1>2. b \in Int /\ b <= Len(g) /\ DOMAIN s = 1 .. Len(s) /\ Len(s) \in Nat
  OBVIOUS
<1>3. /\ DOMAIN SubSeq(g, 1, b) = 1 .. b
      /\ \A i \in 1 .. b : i \in DOMAIN g /\ SubSeq(g, 1, b)[i] = g[i]
  BY <1>2, FirstFew
<1>4. PICK j \in DOMAIN s : s[j] = q
  BY Zenon DEF Range
<1>5. ~(j \in 1 .. m /\ j \in 1 .. b)
  <2> SUFFICES ASSUME j \in 1 .. m, j \in 1 .. b PROVE FALSE
    BY Zenon
  <2>1. f[j] = q /\ SubSeq(g, 1, b)[j] = q
    BY <1>1, <1>3, <1>4, Zenon
  <2> QED BY <1>1, <1>3, <2>1, Zenon DEF Range
<1>6. CASE m <= b
  <2>1. PICK i \in 1 .. m : f[i] = p
    BY <1>1, Zenon DEF Range
  <2>2. i < j
    BY <1>2, <1>4, <1>5, <1>6, <2>1
  <2> QED BY <1>1, <1>4, <2>1, <2>2, Zenon
<1>7. CASE b < m
  <2>1. PICK i \in 1 .. b : SubSeq(g, 1, b)[i] = p
    BY <1>3, Zenon DEF Range
  <2>2. i < j /\ i \in 1 .. m
    BY <1>2, <1>4, <1>5, <1>7, <2>1
  <2>3. s[i] = p /\ i \in DOMAIN s
    BY <1>1, <1>3, <2>1, <2>2, Zenon
  <2> QED BY <1>4, <2>2, <2>3, Zenon
<1> QED BY <1>2, <1>6, <1>7

\* The image of a finite set is finite.
LEMMA FiniteImage ==
  ASSUME NEW S, IsFiniteSet(S), NEW f
  PROVE  IsFiniteSet({f[x] : x \in S})
<1> DEFINE g == [x \in S |-> f[x]]
<1>1. g \in Surjection(S, {f[x] : x \in S})
  BY Zenon DEF Surjection
<1> QED BY <1>1, FS_Surjection, Zenon

\* The lists of a periodic pass: the retries of the first round, the fresh
\* manifests, the retries that fill the batch up, and the batch.
Selected(one, fresh, two, chosen) ==
  /\ one = Take(retries, RetryBudget, {})
  /\ fresh = FreshUpTo(Batch - Len(one.taken))
  /\ two = Take(one.left, Batch - Len(fresh) - Len(one.taken), Range(one.taken))
  /\ chosen = Bounded(fresh \o one.taken \o two.taken)

\* What a periodic pass selects: manifests that are there, of the fresh ones the
\* oldest; the retries stay in the table.
LEMMA SelectionFacts ==
  ASSUME Typed, NEW one, NEW fresh, NEW two, NEW chosen, Selected(one, fresh, two, chosen)
  PROVE  /\ chosen \in Seq(Paths) /\ Range(chosen) \subseteq Visible
         /\ two.left \in Seq(Paths) /\ Retrying \cap Visible \subseteq Range(two.left)
         /\ \A q \in Fresh : q \in Range(chosen)
                             \/ \A p \in Range(chosen) \cap Range(fresh) : Older(p, q)
<1> DEFINE m == Min({Batch - Len(one.taken), Cardinality(Fresh)})
           s == OrderedFresh
           a == one.taken
           c == two.taken
           g == fresh \o a \o c
<1> USE DEF Selected
<1>1. /\ a \in Seq(Paths) /\ Range(a) \subseteq Visible
      /\ one.left \in Seq(Paths) /\ Retrying \cap Visible \subseteq Range(one.left)
  <2>1. retries \in Seq(Paths)
    BY Zenon DEF Typed
  <2>2. LET t == Take(retries, RetryBudget, {}) IN
        /\ t.taken \in Seq(Paths) /\ Range(t.taken) \subseteq Visible
        /\ t.left \in Seq(Paths) /\ Range(retries) \cap Visible \subseteq Range(t.left)
        /\ Range(t.left) \subseteq Range(retries)
    BY <2>1, TakeFacts, Zenon
  <2> QED BY <2>2, Zenon DEF Retrying
<1>2. /\ c \in Seq(Paths) /\ Range(c) \subseteq Visible
      /\ two.left \in Seq(Paths) /\ Range(one.left) \cap Visible \subseteq Range(two.left)
  <2>1. PICK n, E : two = Take(one.left, n, E)
    BY Zenon
  <2>2. LET t == Take(one.left, n, E) IN
        /\ t.taken \in Seq(Paths) /\ Range(t.taken) \subseteq Visible
        /\ t.left \in Seq(Paths) /\ Range(one.left) \cap Visible \subseteq Range(t.left)
        /\ Range(t.left) \subseteq Range(one.left)
    BY <1>1, TakeFacts, Zenon
  <2> QED BY <2>1, <2>2, Zenon
<1>3. /\ s \in Seq(Paths) /\ DOMAIN s = 1 .. Cardinality(Fresh)
      /\ Cardinality(Fresh) \in Nat /\ Range(s) = Fresh
      /\ \A i, j \in DOMAIN s : i < j => Older(s[i], s[j])
  BY FreshListed, Zenon
<1>4. m \in Int /\ m <= Len(s)
  <2>1. Len(a) \in Nat /\ Batch \in Nat /\ Len(s) = Cardinality(Fresh)
    BY <1>1, <1>3, ScanConstants
  <2>2. PICK n \in Int : n = Batch - Len(one.taken)
    <3>1. Batch - Len(one.taken) \in Int
      BY <2>1
    <3> QED BY <3>1, Zenon
  <2>3. m = Min({n, Len(s)}) /\ Len(s) \in Int
    BY <1>3, <2>1, <2>2
  <2>4. \E x \in {n, Len(s)} : \A y \in {n, Len(s)} : x <= y
    <3> HIDE DEF s, m
    <3>1. CASE n <= Len(s)
      BY <2>2, <2>3, <3>1
    <3>2. CASE Len(s) <= n
      BY <2>2, <2>3, <3>2
    <3> QED BY <2>2, <2>3, <3>1, <3>2
  <2>5. m \in {n, Len(s)} /\ \A y \in {n, Len(s)} : m <= y
    BY <2>3, <2>4, Zenon DEF Min
  <2> QED BY <2>2, <2>3, <2>5, Zenon
<1>5. fresh = SubSeq(s, 1, m)
  BY Zenon DEF FreshUpTo
<1> HIDE DEF m, s, a, c
<1>6. fresh \in Seq(Paths) /\ Range(fresh) \subseteq Fresh
  <2>1. SubSeq(s, 1, m) \in Seq(Paths) /\ Range(SubSeq(s, 1, m)) \subseteq Range(s)
    BY <1>3, <1>4, FirstFew, Zenon
  <2> QED BY <1>3, <1>5, <2>1, Zenon
<1>7. fresh \o a \in Seq(Paths) /\ Range(fresh \o a) = Range(fresh) \cup Range(a)
  BY <1>1, <1>6, Concatenated
<1>8. g \in Seq(Paths) /\ Range(g) = Range(fresh \o a) \cup Range(c)
  <2>1. PICK h : h = fresh \o a
    BY Zenon
  <2>2. h \in Seq(Paths)
    BY <1>7, <2>1, Zenon
  <2>3. h \o c \in Seq(Paths) /\ Range(h \o c) = Range(h) \cup Range(c)
    BY <1>2, <2>2, Concatenated
  <2> QED BY <2>1, <2>3, Zenon
<1>9. \A i \in DOMAIN fresh : i \in DOMAIN g /\ g[i] = fresh[i]
  BY <1>1, <1>2, <1>6
<1> HIDE DEF g
<1>10. PICK b \in 0 .. Len(g) : chosen = SubSeq(g, 1, b)
  <2>1. \E n \in 0 .. Len(g) : Bounded(g) = SubSeq(g, 1, n)
    BY <1>8, BoundedFacts, Zenon
  <2>2. chosen = Bounded(g)
    BY Zenon DEF g, a, c
  <2> QED BY <2>1, <2>2, Zenon
<1>11. chosen \in Seq(Paths) /\ Range(chosen) \subseteq Range(g)
  <2>1. b \in Int /\ b <= Len(g)
    BY <1>10
  <2>2. SubSeq(g, 1, b) \in Seq(Paths) /\ Range(SubSeq(g, 1, b)) \subseteq Range(g)
    BY <1>8, <2>1, FirstFew, Zenon
  <2> QED BY <1>10, <2>2, Zenon
<1>12. Range(chosen) \subseteq Visible
  <2>1. Fresh \subseteq Visible
    BY Zenon DEF Fresh
  <2> QED BY <1>1, <1>2, <1>6, <1>7, <1>8, <1>11, <2>1, Zenon
<1>13. ASSUME NEW q \in Fresh, q \notin Range(chosen), NEW p \in Range(chosen) \cap Range(fresh)
       PROVE  Older(p, q)
  <2>1. PICK i, j \in DOMAIN s : i < j /\ s[i] = p /\ s[j] = q
    <3>1. /\ p \in Range(SubSeq(g, 1, b)) \cap Range(fresh) /\ q \in Range(s)
          /\ q \notin Range(SubSeq(g, 1, b)) \cap Range(fresh)
      BY <1>3, <1>10, <1>13, Zenon
    <3>2. s \in Seq(Paths) /\ g \in Seq(Paths)
      BY <1>3, <1>8, Zenon
    <3> QED BY <1>4, <1>5, <1>9, <3>1, <3>2, FirstComeFirst, SMTT(30)
  <2> QED BY <1>3, <2>1, Zenon
<1>14. Retrying \cap Visible \subseteq Range(two.left)
  BY <1>1, <1>2, Zenon
<1> QED BY <1>2, <1>11, <1>12, <1>13, <1>14, Zenon

\* A list of elements of X is a list of elements of a larger set.
LEMMA WiderSeq ==
  ASSUME NEW X, NEW Y, X \subseteq Y, NEW s \in Seq(X)
  PROVE  s \in Seq(Y)
OBVIOUS

\* Young receipts join the retries.
LEMMA PutOffFacts ==
  ASSUME NEW q \in Seq(Paths), NEW young, young \subseteq Paths, IsFiniteSet(young)
  PROVE  PutOff(young, q) \in Seq(Paths) /\ Range(PutOff(young, q)) = Range(q) \cup young
<1> DEFINE Y == young \ Range(q)
<1>1. IsFiniteSet(Y) /\ Y \subseteq Nat /\ Y \subseteq Paths
  BY FS_Subset, ScanConstants, Zenon
<1>2. PutOff(young, q) = q \o Sorted(Y, <)
  BY Zenon DEF PutOff
<1>3. Range(q) \cup Y = Range(q) \cup young
  BY Zenon
<1> HIDE DEF Y
<1>4. PICK s : s = Sorted(Y, <)
  BY Zenon
<1>5. s \in Seq(Y) /\ Range(s) = Y
  BY <1>1, <1>4, SortedSeq, Zenon
<1>6. s \in Seq(Paths)
  BY <1>1, <1>5, WiderSeq, Zenon
<1>7. q \o s \in Seq(Paths) /\ Range(q \o s) = Range(q) \cup Range(s)
  BY <1>6, Concatenated
<1> QED BY <1>2, <1>3, <1>4, <1>5, <1>7, Zenon

\* The message of this manifest is to be settled after the step.
StillUnsettled(p) == mtime'[p] >= 0 /\ st'[p] \in {"owned", "orphan"}

\* A pass quarantines what is bad and changes no other manifest; of the
\* manifests it selected and of the retries, those still unsettled are retries
\* or to be replayed.
LEMMA ClassifyFacts ==
  ASSUME Typed, NEW chosen \in Seq(Paths), Range(chosen) \subseteq Visible, NEW left \in Seq(Paths),
         Classify(chosen, left)
  PROVE  /\ retries' \in Seq(Paths) /\ todo' \in Seq(Paths)
         /\ mtime' \in [Paths -> Int]
         /\ st' \in [Paths -> {"none", "owned", "orphan", "indexed", "quarantined"}]
         /\ \A p \in Paths : \/ mtime'[p] = mtime[p] /\ st'[p] = st[p]
                             \/ mtime'[p] = -1 /\ st'[p] = "quarantined"
         /\ \A p \in Paths : StillUnsettled(p) =>
              /\ p \in Range(left) => p \in Range(retries')
              /\ p \in Range(chosen) => p \in Range(retries') \/ p \in Range(todo')
<1> DEFINE sel == Range(chosen)
           done == {p \in sel : st[p] = "indexed"}
           young == {p \in sel \ done : strict /\ now - mtime[p] < Stability}
           bad == (sel \ (done \cup young)) \cap Bad
           live == Without(chosen, done \cup young \cup bad)
<1>1. /\ retries' = PutOff(young, Without(left, done))
      /\ mtime' = [p \in Paths |-> IF p \in bad THEN -1 ELSE mtime[p]]
      /\ st' = [p \in Paths |-> IF p \in bad THEN "quarantined" ELSE st[p]]
      /\ todo' = Without(live, Legacy) \o Only(live, Legacy)
  BY Zenon DEF Classify
<1>2. done \subseteq sel /\ young \subseteq sel /\ \A p \in done : st[p] = "indexed"
  BY Zenon
<1>3. sel \subseteq Paths /\ IsFiniteSet(sel)
  BY SeqFacts, Zenon
<1>4. bad \subseteq sel
  BY Zenon
<1> HIDE DEF sel, done, young, bad
<1>5. live \in Seq(Paths) /\ Range(live) = sel \ (done \cup young \cup bad)
  <2>1. PICK D : D = done \cup young \cup bad
    BY Zenon
  <2>2. Without(chosen, D) \in Seq(Paths) /\ Range(Without(chosen, D)) = Range(chosen) \ D
    BY WithoutFacts, Zenon
  <2> QED BY <2>1, <2>2, Zenon DEF sel
<1> HIDE DEF live
<1>6. todo' \in Seq(Paths) /\ Range(todo') = Range(live)
  <2>1. PICK u : u = Without(live, Legacy)
    BY Zenon
  <2>2. PICK w : w = Only(live, Legacy)
    BY Zenon
  <2>3. u \in Seq(Paths) /\ Range(u) = Range(live) \ Legacy
    BY <1>5, <2>1, WithoutFacts
  <2>4. w \in Seq(Paths) /\ Range(w) = Range(live) \cap Legacy
    BY <1>5, <2>2, OnlyFacts, Zenon
  <2>5. u \o w \in Seq(Paths) /\ Range(u \o w) = Range(u) \cup Range(w)
    BY <2>3, <2>4, Concatenated
  <2>6. todo' = u \o w
    BY <1>1, <2>1, <2>2, Zenon
  <2> QED BY <2>3, <2>4, <2>5, <2>6, Zenon
<1>7. retries' \in Seq(Paths) /\ Range(retries') = (Range(left) \ done) \cup young
  <2>1. PICK q : q = Without(left, done)
    BY Zenon
  <2>2. q \in Seq(Paths) /\ Range(q) = Range(left) \ done
    BY <2>1, WithoutFacts, Zenon
  <2>3. young \subseteq Paths /\ IsFiniteSet(young)
    BY <1>2, <1>3, FS_Subset, Zenon
  <2>4. PutOff(young, q) \in Seq(Paths) /\ Range(PutOff(young, q)) = Range(q) \cup young
    BY <2>2, <2>3, PutOffFacts, Zenon
  <2> QED BY <1>1, <2>1, <2>2, <2>4, Zenon
<1>8. \A p \in Paths : /\ p \in bad => mtime'[p] = -1 /\ st'[p] = "quarantined"
                       /\ p \notin bad => mtime'[p] = mtime[p] /\ st'[p] = st[p]
  BY <1>1, Zenon
<1>9. mtime' \in [Paths -> Int]
  <2>1. mtime \in [Paths -> Int] /\ -1 \in Int
    BY DEF Typed
  <2> QED BY <1>1, <2>1, Zenon
<1>10. st' \in [Paths -> {"none", "owned", "orphan", "indexed", "quarantined"}]
  <2>1. st \in [Paths -> {"none", "owned", "orphan", "indexed", "quarantined"}]
    BY Zenon DEF Typed
  <2> QED BY <1>1, <2>1, Zenon
<1>11. ASSUME NEW p \in Paths, StillUnsettled(p)
       PROVE  /\ p \in Range(left) => p \in Range(retries')
              /\ p \in Range(chosen) => p \in Range(retries') \/ p \in Range(todo')
  <2>1. p \notin bad
    BY <1>8, <1>11, Zenon DEF StillUnsettled
  <2>2. p \notin done
    BY <1>2, <1>8, <1>11, <2>1, Zenon DEF StillUnsettled
  <2> QED BY <1>5, <1>6, <1>7, <2>1, <2>2, Zenon DEF sel
<1> QED BY <1>6, <1>7, <1>8, <1>9, <1>10, <1>11, Zenon

-----------------------------------------------------------------------------
(* The inductive invariant. *)

\* No mark of this pass is at or after the manifest.
Beyond(p) == \A m \in marks : m[2] < mtime[p] \/ (m[2] = mtime[p] /\ m[1] # p)

\* A manifest to be settled is ahead of the cursor.  A pass that has listed the
\* directories found it; one that replays has it on its list, among the
\* retries, or left it behind all its marks.
Kept(p) ==
  /\ Ahead(p)
  /\ pc = "listed" => p \in listed
  /\ pc = "replay" => p \in Range(todo) \/ p \in Retrying \/ (startup /\ PastWatermark(p) /\ Beyond(p))

\* The times of a manifest: none lies in the future, the final manifest is not
\* older than the pending one, and one written between passes is not older
\* than the watermark.  The cursor knows no path before its manifest is there.
Timely(p) ==
  /\ mtime[p] <= now /\ draft[p] <= now
  /\ draft[p] >= 0 => mtime[p] <= draft[p]
  /\ draft[p] >= 0 /\ p \notin raced => pc = "idle" /\ draft[p] >= watermark
  /\ st[p] = "none" => mtime[p] = -1 /\ p \notin seen /\ \A m \in marks : m[1] # p
  /\ st[p] \in {"owned", "orphan"} => mtime[p] >= 0

\* The times of the cursor.
Clocked == watermark <= now /\ \A m \in marks : m[2] <= now

IInv ==
  /\ Typed /\ Clocked
  /\ \A p \in Paths : Timely(p)
  /\ \A p \in Paths : Unsettled(p) /\ p \notin raced => Kept(p)

\* What a step of ingestd or of the clock leaves alone stays as it was for the
\* scanner.
LEMMA SamePath ==
  ASSUME IInv, UNCHANGED <<pass, cursor>>, raced \subseteq raced', now' \in Nat, now <= now',
         NEW p \in Paths, mtime'[p] = mtime[p], draft'[p] \in {draft[p], -1},
         st'[p] = "none" => st[p] = "none",
         st'[p] \in {"owned", "orphan"} => st[p] \in {"owned", "orphan"}
  PROVE  Timely(p)' /\ (Unsettled(p)' /\ p \notin raced' => Kept(p)')
<1>1. /\ now \in Nat /\ mtime[p] \in Int /\ draft[p] \in Int
  BY Zenon DEF IInv, Typed
<1>2. Timely(p) /\ (Unsettled(p) /\ p \notin raced => Kept(p))
  BY Zenon DEF IInv
<1>3. UNCHANGED <<pc, listed, todo, marks, watermark, seen, retries, startup>>
  BY Zenon DEF pass, cursor
<1>4. mtime'[p] <= now' /\ draft'[p] <= now'
  BY <1>1, <1>2 DEF Timely
<1>5. draft'[p] >= 0 => draft'[p] = draft[p]
  BY <1>1
<1>6. Timely(p)'
  BY <1>2, <1>3, <1>4, <1>5, Zenon DEF Timely
<1>7. ASSUME Unsettled(p)', p \notin raced' PROVE Kept(p)'
  <2>1. Kept(p)
    BY <1>2, <1>7, Zenon DEF Unsettled
  <2> QED BY <1>3, <2>1, Zenon DEF Kept, Ahead, Retrying, PastWatermark, Beyond
<1> QED BY <1>6, <1>7, Zenon

\* The types and the times of the cursor in a step that leaves pass and cursor
\* alone.
LEMMA SameCursor ==
  ASSUME IInv, UNCHANGED <<pass, cursor>>, now' \in Nat, now <= now',
         draft' \in [Paths -> Int], mtime' \in [Paths -> Int],
         st' \in [Paths -> {"none", "owned", "orphan", "indexed", "quarantined"}],
         IsFiniteSet({p \in Paths : mtime'[p] >= 0 \/ draft'[p] >= 0})
  PROVE  Typed' /\ Clocked'
<1>1. UNCHANGED <<listed, todo, marks, watermark, seen, retries>>
  BY Zenon DEF pass, cursor
<1>2. Typed'
  BY <1>1, Zenon DEF IInv, Typed
<1>3. now \in Nat /\ watermark \in Int /\ \A m \in marks : m[2] \in Int
  BY DEF IInv, Typed
<1>4. watermark <= now' /\ \A m \in marks : m[2] <= now'
  BY <1>3 DEF IInv, Clocked
<1> QED BY <1>1, <1>2, <1>4, Zenon DEF Clocked

\* Steps that write no manifest: the clock, the heartbeat, a commit, a message
\* ingestd loses, a repaired domain.
LEMMA QuietStep ==
  ASSUME IInv, Tick \/ Heartbeat \/ \E p \in Paths : Commit(p) \/ Orphan(p) \/ RepairDomain(p)
  PROVE  IInv'
<1>1. /\ UNCHANGED <<pass, cursor>> /\ raced' = raced /\ mtime' = mtime
      /\ now \in Nat /\ draft \in [Paths -> Int] /\ mtime \in [Paths -> Int]
      /\ st \in [Paths -> {"none", "owned", "orphan", "indexed", "quarantined"}]
      /\ IsFiniteSet({p \in Paths : mtime[p] >= 0 \/ draft[p] >= 0})
  BY Zenon DEF IInv, Typed, Tick, Heartbeat, Commit, Orphan, RepairDomain, disk
<1>2. now' \in Nat /\ now <= now'
  <2>1. now' = now \/ now' = now + 1
    BY Zenon DEF Tick, Heartbeat, Commit, Orphan, RepairDomain, clock
  <2> QED BY <1>1, <2>1
<1>3. /\ draft' \in [Paths -> Int]
      /\ \A p \in Paths : draft'[p] = draft[p] \/ draft'[p] = -1
  <2>1. draft' = draft \/ \E p \in Paths : draft' = [draft EXCEPT ![p] = -1]
    BY Zenon DEF Tick, Heartbeat, Commit, Orphan, RepairDomain, disk
  <2> QED BY <1>1, <2>1
<1>4. st' = st \/ \E p \in Paths : /\ st[p] = "owned"
                                   /\ \/ st' = [st EXCEPT ![p] = "indexed"]
                                      \/ st' = [st EXCEPT ![p] = "orphan"]
  BY Zenon DEF Tick, Heartbeat, Commit, Orphan, RepairDomain
<1>5. /\ st' \in [Paths -> {"none", "owned", "orphan", "indexed", "quarantined"}]
      /\ \A p \in Paths : /\ st'[p] = "none" => st[p] = "none"
                          /\ st'[p] \in {"owned", "orphan"} => st[p] \in {"owned", "orphan"}
  BY <1>1, <1>4
<1>6. IsFiniteSet({p \in Paths : mtime'[p] >= 0 \/ draft'[p] >= 0})
  <2>1. \A p \in Paths : draft'[p] >= 0 => draft[p] >= 0
    BY <1>1, <1>3
  <2>2. {p \in Paths : mtime'[p] >= 0 \/ draft'[p] >= 0}
          \subseteq {p \in Paths : mtime[p] >= 0 \/ draft[p] >= 0}
    BY <1>1, <2>1, Zenon
  <2> QED BY <1>1, <2>2, FS_Subset, Zenon
<1>7. Typed' /\ Clocked'
  BY <1>1, <1>2, <1>3, <1>5, <1>6, SameCursor, Zenon
<1>8. ASSUME NEW p \in Paths PROVE Timely(p)' /\ (Unsettled(p)' /\ p \notin raced' => Kept(p)')
  BY <1>1, <1>2, <1>3, <1>5, SamePath, Zenon
<1> QED BY <1>7, <1>8, Zenon DEF IInv

\* One more path does not make the manifests infinite in number.
LEMMA OneMore ==
  ASSUME Typed, NEW q \in Paths, \A p \in Paths : p # q => mtime'[p] = mtime[p] /\ draft'[p] = draft[p]
  PROVE  IsFiniteSet({p \in Paths : mtime'[p] >= 0 \/ draft'[p] >= 0})
<1> DEFINE W == {p \in Paths : mtime[p] >= 0 \/ draft[p] >= 0}
           V == {p \in Paths : mtime'[p] >= 0 \/ draft'[p] >= 0}
<1>1. IsFiniteSet(W)
  BY Zenon DEF Typed
<1>2. V \subseteq W \cup {q}
  BY Zenon
<1>3. IsFiniteSet(W \cup {q})
  BY <1>1, FS_AddElement, Zenon
<1> QED BY <1>2, <1>3, FS_Subset, Zenon

\* ingestd writes a temporary file.
LEMMA WriteTemporaryStep ==
  ASSUME IInv, NEW q \in Paths, WriteTemporary(q)
  PROVE  IInv'
<1>1. /\ UNCHANGED <<pass, cursor>> /\ mtime' = mtime /\ now' = now /\ st' = st
      /\ draft' = [draft EXCEPT ![q] = now] /\ raced' = Races(q)
  BY Zenon DEF WriteTemporary, clock
<1>2. /\ now \in Nat /\ draft \in [Paths -> Int] /\ mtime \in [Paths -> Int]
      /\ st \in [Paths -> {"none", "owned", "orphan", "indexed", "quarantined"}]
  BY Zenon DEF IInv, Typed
<1>3. /\ draft' \in [Paths -> Int] /\ draft'[q] = now
      /\ \A p \in Paths : p # q => draft'[p] = draft[p]
  BY <1>1, <1>2
<1>4. IsFiniteSet({p \in Paths : mtime'[p] >= 0 \/ draft'[p] >= 0})
  BY <1>1, <1>3, OneMore, Zenon DEF IInv
<1>5. now' \in Nat /\ now <= now'
  BY <1>1, <1>2
<1>6. Typed' /\ Clocked'
  BY <1>1, <1>2, <1>3, <1>4, <1>5, SameCursor, Zenon
<1>7. raced \subseteq raced' /\ (q \notin raced' => pc = "idle" /\ q \notin raced)
  BY <1>1, Zenon DEF Races
<1>8. ASSUME NEW p \in Paths, p # q
      PROVE  Timely(p)' /\ (Unsettled(p)' /\ p \notin raced' => Kept(p)')
  BY <1>1, <1>3, <1>5, <1>7, <1>8, SamePath, Zenon
<1>9. Timely(q)'
  <2>1. Timely(q) /\ watermark <= now
    BY Zenon DEF IInv, Clocked
  <2>2. mtime'[q] <= now' /\ draft'[q] <= now' /\ mtime'[q] <= draft'[q] /\ draft'[q] >= watermark
    BY <1>1, <1>2, <1>3, <2>1 DEF Timely, IInv, Typed
  <2> QED BY <1>1, <1>7, <2>1, <2>2, Zenon DEF Timely, pass, cursor
<1>10. ASSUME Unsettled(q)', q \notin raced' PROVE Kept(q)'
  <2>1. Kept(q)
    BY <1>1, <1>7, <1>10, Zenon DEF IInv, Unsettled
  <2> QED BY <1>1, <2>1, Zenon DEF Kept, Ahead, Retrying, PastWatermark, Beyond, pass, cursor
<1> QED BY <1>6, <1>8, <1>9, <1>10, Zenon DEF IInv

\* ingestd renames it: a manifest renamed between passes is ahead of the cursor.
LEMMA RenameStep ==
  ASSUME IInv, NEW q \in Paths, Rename(q)
  PROVE  IInv'
<1>1. /\ UNCHANGED <<pass, cursor>> /\ now' = now /\ draft[q] >= 0
      /\ mtime' = [mtime EXCEPT ![q] = draft[q]] /\ draft' = [draft EXCEPT ![q] = -1]
      /\ st' = [st EXCEPT ![q] = IF @ = "none" THEN "owned" ELSE @]
      /\ raced' = Races(q)
  BY Zenon DEF Rename, clock
<1>2. /\ now \in Nat /\ draft \in [Paths -> Int] /\ mtime \in [Paths -> Int]
      /\ st \in [Paths -> {"none", "owned", "orphan", "indexed", "quarantined"}]
      /\ watermark \in Int
  BY Zenon DEF IInv, Typed
<1>3. /\ draft' \in [Paths -> Int] /\ draft'[q] = -1
      /\ mtime' \in [Paths -> Int] /\ mtime'[q] = draft[q]
      /\ \A p \in Paths : p # q => draft'[p] = draft[p] /\ mtime'[p] = mtime[p]
  BY <1>1, <1>2
<1>4. /\ st' \in [Paths -> {"none", "owned", "orphan", "indexed", "quarantined"}]
      /\ st'[q] = (IF st[q] = "none" THEN "owned" ELSE st[q])
      /\ \A p \in Paths : p # q => st'[p] = st[p]
  BY <1>1, <1>2
<1>5. IsFiniteSet({p \in Paths : mtime'[p] >= 0 \/ draft'[p] >= 0})
  BY <1>3, OneMore, Zenon DEF IInv
<1>6. now' \in Nat /\ now <= now'
  BY <1>1, <1>2
<1>7. Typed' /\ Clocked'
  BY <1>1, <1>3, <1>4, <1>5, <1>6, SameCursor, Zenon
<1>8. raced \subseteq raced' /\ (q \notin raced' => pc = "idle" /\ q \notin raced)
  BY <1>1, Zenon DEF Races
<1>9. ASSUME NEW p \in Paths, p # q
      PROVE  Timely(p)' /\ (Unsettled(p)' /\ p \notin raced' => Kept(p)')
  BY <1>1, <1>3, <1>4, <1>6, <1>8, <1>9, SamePath, Zenon
<1>10. Timely(q)
  BY Zenon DEF IInv
<1>11. Timely(q)'
  <2>1. mtime'[q] <= now' /\ draft'[q] <= now' /\ ~(draft'[q] >= 0) /\ mtime'[q] >= 0
    BY <1>1, <1>2, <1>3, <1>10 DEF Timely
  <2>2. st'[q] # "none"
    BY <1>4
  <2> QED BY <2>1, <2>2, Zenon DEF Timely
<1>12. ASSUME Unsettled(q)', q \notin raced' PROVE Kept(q)'
  <2>1. pc = "idle" /\ q \notin raced /\ draft[q] >= watermark
    BY <1>1, <1>8, <1>10, <1>12, Zenon DEF Timely
  <2>2. pc' = "idle" /\ startup' = startup /\ retries' = retries /\ watermark' = watermark /\ seen' = seen
    BY <1>1, <2>1, Zenon DEF pass, cursor
  <2>3. pc' # "listed" /\ pc' # "replay"
    BY <2>2
  <2>4. CASE st[q] = "none"
    <3>1. q \notin seen
      BY <1>10, <2>4, Zenon DEF Timely
    <3>2. draft[q] > watermark \/ draft[q] = watermark
      BY <1>2, <2>1
    <3>3. Ahead(q)'
      BY <1>3, <2>2, <3>1, <3>2, Zenon DEF Ahead, PastWatermark
    <3> QED BY <2>3, <3>3, Zenon DEF Kept
  <2>5. CASE st[q] # "none"
    <3>1. st[q] \in {"owned", "orphan"}
      BY <1>4, <1>12, <2>5, Zenon DEF Unsettled
    <3>2. Ahead(q)
      BY <1>10, <2>1, <3>1, Zenon DEF IInv, Kept, Unsettled, Timely
    <3>3. mtime[q] <= draft[q]
      BY <1>1, <1>10, Zenon DEF Timely
    <3>4. PastWatermark(q) => draft[q] > watermark \/ (draft[q] = watermark /\ q \notin seen)
      BY <1>2, <3>3 DEF PastWatermark
    <3>5. Ahead(q)'
      BY <1>3, <2>2, <3>2, <3>4, Zenon DEF Ahead, PastWatermark, Retrying
    <3> QED BY <2>3, <3>5, Zenon DEF Kept
  <2> QED BY <2>4, <2>5, Zenon
<1> QED BY <1>7, <1>9, <1>11, <1>12, Zenon DEF IInv

\* A pass begins: it lists every manifest there is.
LEMMA ScanStartStep ==
  ASSUME IInv, ScanStart
  PROVE  IInv'
<1>1. /\ pc = "idle" /\ pc' = "listed" /\ listed' = Visible
      /\ raced' = raced \cup {p \in Paths : draft[p] >= 0}
      /\ UNCHANGED <<now, draft, mtime, st, todo, marks, watermark, seen, retries, startup>>
  BY Zenon DEF ScanStart, clock, disk, cursor
<1>2. Visible \subseteq Paths
  BY Zenon DEF Visible
<1>3. Typed' /\ Clocked'
  BY <1>1, <1>2, Zenon DEF IInv, Typed, Clocked
<1>4. ASSUME NEW p \in Paths PROVE Timely(p)'
  BY <1>1, Zenon DEF IInv, Timely
<1>5. ASSUME NEW p \in Paths, Unsettled(p)', p \notin raced' PROVE Kept(p)'
  <2>1. Kept(p) /\ p \in Visible
    BY <1>1, <1>5, Zenon DEF IInv, Unsettled, Visible
  <2>2. pc' # "replay"
    BY <1>1
  <2> QED BY <1>1, <2>1, <2>2, Zenon DEF Kept, Ahead, PastWatermark, Retrying
<1> QED BY <1>3, <1>4, <1>5, Zenon DEF IInv

\* What a pass that has read the directories owes the invariant, whatever its
\* selection.
LEMMA ScanStep ==
  ASSUME IInv, NEW chosen \in Seq(Paths), Range(chosen) \subseteq Visible,
         NEW left \in Seq(Paths), Retrying \cap Visible \subseteq Range(left), NEW F,
         Classify(chosen, left), marks' = Marks(Range(chosen), F),
         pc = "listed", pc' = "replay", listed' = {},
         UNCHANGED <<now, draft, watermark, seen, startup, raced>>,
         \A q \in listed \cap Visible : Ahead(q) =>
           \/ q \in Retrying \/ q \in Range(chosen)
           \/ startup /\ PastWatermark(q) /\ \A p \in Range(chosen) \cap F : Older(p, q)
  PROVE  IInv'
<1>1. /\ retries' \in Seq(Paths) /\ todo' \in Seq(Paths)
      /\ mtime' \in [Paths -> Int]
      /\ st' \in [Paths -> {"none", "owned", "orphan", "indexed", "quarantined"}]
      /\ \A p \in Paths : \/ mtime'[p] = mtime[p] /\ st'[p] = st[p]
                          \/ mtime'[p] = -1 /\ st'[p] = "quarantined"
      /\ \A p \in Paths : StillUnsettled(p) =>
           /\ p \in Range(left) => p \in Range(retries')
           /\ p \in Range(chosen) => p \in Range(retries') \/ p \in Range(todo')
  BY ClassifyFacts, Zenon DEF IInv
<1>2. /\ mtime \in [Paths -> Int] /\ draft \in [Paths -> Int] /\ now \in Nat /\ watermark \in Int
  BY Zenon DEF IInv, Typed
<1>3. \A p \in Range(chosen) : p \in Paths /\ mtime[p] >= 0 /\ mtime[p] \in Nat /\ mtime[p] <= now
  <2>1. \A p \in Range(chosen) : p \in Paths /\ mtime[p] >= 0 /\ mtime[p] <= now
    BY Zenon DEF Visible, IInv, Timely
  <2> QED BY <1>2, <2>1
<1>4. IsFiniteSet(Range(chosen))
  BY SeqFacts, Zenon
<1>5. marks' = {<<p, mtime[p]>> : p \in Range(chosen) \cap F}
  BY Zenon DEF Marks
<1>6. IsFiniteSet(marks')
  <2>1. IsFiniteSet(Range(chosen) \cap F)
    BY <1>4, FS_Subset, Zenon
  <2>2. PICK S : S = Range(chosen) \cap F
    BY Zenon
  <2> DEFINE g == [p \in S |-> <<p, mtime[p]>>]
  <2>3. IsFiniteSet({g[p] : p \in S})
    <3> HIDE DEF g
    <3> QED BY <2>1, <2>2, FiniteImage, Zenon
  <2>4. {g[p] : p \in S} = {<<p, mtime[p]>> : p \in S}
    BY Zenon
  <2> QED BY <1>5, <2>2, <2>3, <2>4, Zenon
<1>7. \A m \in marks' : m \in Paths \X Nat /\ m[2] <= now /\ m[2] = mtime[m[1]] /\ m[1] \in Range(chosen) \cap F
  <2>1. ASSUME NEW m \in marks'
        PROVE  m \in Paths \X Nat /\ m[2] <= now /\ m[2] = mtime[m[1]] /\ m[1] \in Range(chosen) \cap F
    <3>1. PICK p \in Range(chosen) \cap F : m = <<p, mtime[p]>>
      BY <1>5, Zenon
    <3>2. p \in Paths /\ mtime[p] \in Nat /\ mtime[p] <= now
      BY <1>3, Zenon
    <3> QED BY <3>1, <3>2
  <2> QED BY <2>1, Zenon
<1>8. IsFiniteSet({p \in Paths : mtime'[p] >= 0 \/ draft'[p] >= 0})
  <2>1. \A p \in Paths : mtime'[p] >= 0 => mtime'[p] = mtime[p]
    BY <1>1, SMTT(30)
  <2>2. {p \in Paths : mtime'[p] >= 0 \/ draft'[p] >= 0}
          \subseteq {p \in Paths : mtime[p] >= 0 \/ draft[p] >= 0}
    BY <2>1, Zenon
  <2> QED BY <2>2, FS_Subset, Zenon DEF IInv, Typed
<1>9. Typed' /\ Clocked'
  <2>1. marks' \subseteq Paths \X Nat
    BY <1>7, Zenon
  <2> QED BY <1>1, <1>6, <1>7, <1>8, <2>1, Zenon DEF IInv, Typed, Clocked
<1>10. ASSUME NEW p \in Paths PROVE Timely(p)'
  <2>1. Timely(p)
    BY Zenon DEF IInv
  <2>2. mtime'[p] <= now /\ (draft[p] >= 0 => mtime'[p] <= draft[p])
    <3>1. mtime'[p] = mtime[p] \/ mtime'[p] = -1
      BY <1>1, Zenon
    <3>2. mtime[p] \in Int /\ draft[p] \in Int /\ mtime[p] <= now /\ (draft[p] >= 0 => mtime[p] <= draft[p])
      BY <1>2, <2>1, Zenon DEF Timely
    <3> QED BY <1>2, <3>1, <3>2
  <2>3. draft[p] >= 0 => p \in raced
    <3>1. pc # "idle"
      OBVIOUS
    <3> QED BY <2>1, <3>1, Zenon DEF Timely
  <2>4. ASSUME st'[p] = "none" PROVE mtime'[p] = -1 /\ p \notin seen /\ \A m \in marks' : m[1] # p
    <3>1. st'[p] = st[p] /\ mtime'[p] = mtime[p]
      BY <1>1, <2>4
    <3>2. mtime[p] = -1 /\ p \notin seen
      BY <2>1, <2>4, <3>1, Zenon DEF Timely
    <3>3. p \notin Range(chosen)
      <4>1. ~(mtime[p] >= 0)
        BY <3>2
      <4> QED BY <1>3, <4>1, Zenon
    <3> QED BY <1>7, <3>1, <3>2, <3>3, Zenon
  <2>5. ASSUME st'[p] \in {"owned", "orphan"} PROVE mtime'[p] >= 0
    <3>1. st'[p] = st[p] /\ mtime'[p] = mtime[p]
      BY <1>1, <2>5
    <3> QED BY <2>1, <2>5, <3>1, Zenon DEF Timely
  <2> QED BY <2>1, <2>2, <2>3, <2>4, <2>5, Zenon DEF Timely
<1>11. ASSUME NEW q \in Paths, Unsettled(q)', q \notin raced' PROVE Kept(q)'
  <2>1. StillUnsettled(q) /\ mtime'[q] = mtime[q] /\ st'[q] = st[q]
    BY <1>1, <1>11, Zenon DEF Unsettled, StillUnsettled
  <2>2. Kept(q) /\ q \in Visible
    BY <1>11, <2>1, Zenon DEF IInv, Unsettled, Visible
  <2>3. q \in listed \cap Visible /\ Ahead(q)
    BY <2>2, Zenon DEF Kept
  <2>4. q \in Retrying => q \in Retrying'
    BY <1>1, <2>1, <2>2, Zenon DEF Retrying
  <2>5. q \in Range(todo') \/ q \in Retrying' \/ (startup' /\ PastWatermark(q)' /\ Beyond(q)')
    <3>1. ASSUME startup, PastWatermark(q), \A p \in Range(chosen) \cap F : Older(p, q)
          PROVE  startup' /\ PastWatermark(q)' /\ Beyond(q)'
      <4>1. startup' /\ PastWatermark(q)'
        BY <2>1, <3>1, Zenon DEF PastWatermark
      <4>2. ASSUME NEW m \in marks' PROVE m[2] < mtime'[q] \/ (m[2] = mtime'[q] /\ m[1] # q)
        <5>1. Older(m[1], q) /\ m[2] = mtime[m[1]] /\ m[1] \in Paths
          BY <1>3, <1>7, <3>1, Zenon
        <5>2. m[1] < q => m[1] # q
          BY <5>1, ScanConstants
        <5> QED BY <2>1, <5>1, <5>2, Zenon DEF Older
      <4> QED BY <4>1, <4>2, Zenon DEF Beyond
    <3> QED BY <1>1, <2>1, <2>3, <2>4, <3>1, Zenon DEF Retrying
  <2>6. Ahead(q)'
    BY <2>1, <2>2, <2>4, Zenon DEF Kept, Ahead, PastWatermark
  <2>7. pc' # "listed"
    OBVIOUS
  <2> QED BY <2>5, <2>6, <2>7, Zenon DEF Kept
<1> QED BY <1>9, <1>10, <1>11, Zenon DEF IInv

\* A periodic pass: a fresh manifest it does not select is behind all it marks.
LEMMA ScanPeriodicStep ==
  ASSUME IInv, ScanPeriodic
  PROVE  IInv'
<1>1. PICK one \in {Take(retries, RetryBudget, {})} :
      \E fresh \in {FreshUpTo(Batch - Len(one.taken))} :
      \E two \in {Take(one.left, Batch - Len(fresh) - Len(one.taken), Range(one.taken))} :
      \E chosen \in {Bounded(fresh \o one.taken \o two.taken)} :
        Classify(chosen, two.left) /\ marks' = Marks(Range(chosen), Range(fresh))
  BY Zenon DEF ScanPeriodic
<1>2. PICK fresh \in {FreshUpTo(Batch - Len(one.taken))} :
      \E two \in {Take(one.left, Batch - Len(fresh) - Len(one.taken), Range(one.taken))} :
      \E chosen \in {Bounded(fresh \o one.taken \o two.taken)} :
        Classify(chosen, two.left) /\ marks' = Marks(Range(chosen), Range(fresh))
  BY <1>1, Zenon
<1>3. PICK two \in {Take(one.left, Batch - Len(fresh) - Len(one.taken), Range(one.taken))} :
      \E chosen \in {Bounded(fresh \o one.taken \o two.taken)} :
        Classify(chosen, two.left) /\ marks' = Marks(Range(chosen), Range(fresh))
  BY <1>2, Zenon
<1>4. PICK chosen \in {Bounded(fresh \o one.taken \o two.taken)} :
        Classify(chosen, two.left) /\ marks' = Marks(Range(chosen), Range(fresh))
  BY <1>3, Zenon
<1>5. Selected(one, fresh, two, chosen)
  BY <1>1, <1>2, <1>3, <1>4, Zenon DEF Selected
<1>6. /\ chosen \in Seq(Paths) /\ Range(chosen) \subseteq Visible
      /\ two.left \in Seq(Paths) /\ Retrying \cap Visible \subseteq Range(two.left)
      /\ \A q \in Fresh : q \in Range(chosen)
                          \/ \A p \in Range(chosen) \cap Range(fresh) : Older(p, q)
  <2>1. Typed
    BY Zenon DEF IInv
  <2> QED BY <1>5, <2>1, SelectionFacts, Zenon
<1>7. /\ pc = "listed" /\ startup /\ pc' = "replay" /\ listed' = {}
      /\ UNCHANGED <<now, draft, watermark, seen, startup, raced>>
  BY Zenon DEF ScanPeriodic, clock
<1>8. ASSUME NEW q \in listed \cap Visible, Ahead(q)
      PROVE  \/ q \in Retrying \/ q \in Range(chosen)
             \/ /\ startup /\ PastWatermark(q)
                /\ \A p \in Range(chosen) \cap Range(fresh) : Older(p, q)
  <2>1. q \in Retrying \/ (q \in Fresh /\ PastWatermark(q))
    BY <1>7, <1>8, Zenon DEF Ahead, Fresh
  <2> QED BY <1>6, <1>7, <2>1, Zenon
<1>9. PICK F, left : F = Range(fresh) /\ left = two.left
  BY Zenon
<1> QED BY <1>4, <1>6, <1>7, <1>8, <1>9, ScanStep, Zenon

\* A full pass selects every manifest it found.
LEMMA ScanFullStep ==
  ASSUME IInv, ScanFull
  PROVE  IInv'
<1> DEFINE V == listed \cap Visible
<1>1. PICK chosen : chosen = Sorted(V, <) /\ Classify(chosen, retries)
                    /\ marks' = Marks(Range(chosen), Range(chosen))
  BY Zenon DEF ScanFull
<1>2. /\ V \subseteq Visible /\ V \subseteq Paths
      /\ V \subseteq {p \in Paths : mtime[p] >= 0 \/ draft[p] >= 0}
  BY Zenon DEF Visible
<1>3. IsFiniteSet(V) /\ V \subseteq Nat
  BY <1>2, FS_Subset, ScanConstants, Zenon DEF IInv, Typed
<1> HIDE DEF V
<1>4. chosen \in Seq(V) /\ Range(chosen) = V
  BY <1>1, <1>3, SortedSeq, Zenon
<1>5. chosen \in Seq(Paths)
  BY <1>2, <1>4, WiderSeq, Zenon
<1>6. /\ pc = "listed" /\ pc' = "replay" /\ listed' = {}
      /\ UNCHANGED <<now, draft, watermark, seen, startup, raced>>
  BY Zenon DEF ScanFull, clock
<1>7. retries \in Seq(Paths) /\ Retrying \cap Visible \subseteq Range(retries)
  BY Zenon DEF IInv, Typed, Retrying
<1>8. \A q \in listed \cap Visible : q \in Range(chosen)
  BY <1>4, Zenon DEF V
<1>9. Range(chosen) \subseteq Visible
  BY <1>2, <1>4, Zenon
<1>10. Classify(chosen, retries) /\ marks' = Marks(Range(chosen), Range(chosen))
  BY <1>1, Zenon
<1> QED BY <1>5, <1>6, <1>7, <1>8, <1>9, <1>10, ScanStep, Zenon

\* The next receipt is replayed, or waits for its domain as a retry.
LEMMA ReplayStep ==
  ASSUME IInv, Replay
  PROVE  IInv'
<1>1. PICK q : q = Head(todo)
  BY Zenon
<1>2. /\ pc = "replay" /\ todo # <<>> /\ todo' = Tail(todo)
      /\ UNCHANGED <<now, draft, mtime, pc, listed, marks, watermark, seen, startup, raced>>
      /\ \/ retries' = Schedule(retries, q) /\ st' = st
         \/ retries' = Without(retries, {q}) /\ st' = [st EXCEPT ![q] = "indexed"]
  BY <1>1, Zenon DEF Replay, clock, disk
<1>3. /\ todo \in Seq(Paths) /\ retries \in Seq(Paths)
      /\ st \in [Paths -> {"none", "owned", "orphan", "indexed", "quarantined"}]
  BY Zenon DEF IInv, Typed
<1>4. q \in Paths /\ todo' \in Seq(Paths) /\ Range(todo) = {q} \cup Range(todo')
  BY <1>1, <1>2, <1>3, HeadAndTail, Zenon
<1>5. /\ retries' \in Seq(Paths) /\ Range(retries) \ {q} \subseteq Range(retries')
      /\ st' = st => q \in Range(retries') \/ st'[q] = "indexed"
  <2>1. CASE retries' = Schedule(retries, q)
    <3>1. CASE q \in Range(retries)
      BY <1>3, <2>1, <3>1, Zenon DEF Schedule
    <3>2. CASE q \notin Range(retries)
      <4>1. retries' = Append(retries, q)
        BY <2>1, <3>2, Zenon DEF Schedule
      <4>2. Append(retries, q) \in Seq(Paths) /\ Range(Append(retries, q)) = Range(retries) \cup {q}
        BY <1>3, <1>4, Appended
      <4> QED BY <4>1, <4>2, Zenon
    <3> QED BY <3>1, <3>2, Zenon
  <2>2. CASE retries' = Without(retries, {q}) /\ st' = [st EXCEPT ![q] = "indexed"]
    <3>1. PICK D : D = {q}
      BY Zenon
    <3>2. Without(retries, D) \in Seq(Paths) /\ Range(Without(retries, D)) = Range(retries) \ D
      BY <1>3, WithoutFacts, Zenon
    <3>3. st'[q] = "indexed"
      BY <1>3, <1>4, <2>2
    <3> QED BY <2>2, <3>1, <3>2, <3>3, Zenon
  <2> QED BY <1>2, <2>1, <2>2, Zenon
<1>6. /\ st' \in [Paths -> {"none", "owned", "orphan", "indexed", "quarantined"}]
      /\ \A p \in Paths : st'[p] = st[p] \/ (p = q /\ st'[p] = "indexed")
      /\ st' # st => st'[q] = "indexed"
  BY <1>2, <1>3, <1>4
<1>7. Typed' /\ Clocked'
  BY <1>2, <1>4, <1>5, <1>6, Zenon DEF IInv, Typed, Clocked
<1>8. ASSUME NEW p \in Paths PROVE Timely(p)'
  <2>1. (st'[p] = "none" => st[p] = "none") /\ (st'[p] \in {"owned", "orphan"} => st[p] = st'[p])
    BY <1>6
  <2> QED BY <1>2, <2>1, Zenon DEF IInv, Timely
<1>9. ASSUME NEW p \in Paths, Unsettled(p)', p \notin raced' PROVE Kept(p)'
  <2>1. st'[p] # "indexed"
    BY <1>9 DEF Unsettled
  <2>2. Unsettled(p) /\ p \notin raced
    BY <1>2, <1>6, <1>9, <2>1, Zenon DEF Unsettled
  <2>3. Kept(p)
    BY <2>2, Zenon DEF IInv
  <2>4. p = q => p \in Retrying'
    BY <1>5, <1>6, <2>1, Zenon DEF Retrying
  <2>5. p # q => (p \in Range(todo) => p \in Range(todo')) /\ (p \in Retrying => p \in Retrying')
    BY <1>4, <1>5, Zenon DEF Retrying
  <2> QED BY <1>2, <2>3, <2>4, <2>5, Zenon DEF Kept, Ahead, PastWatermark, Beyond
<1> QED BY <1>7, <1>8, <1>9, Zenon DEF IInv

\* A pass that fails, and a process that is restarted, keep the invariant: the
\* cursor stays, or is back at the start.
LEMMA AbandonStep ==
  ASSUME IInv, ReplayFails \/ Restart
  PROVE  IInv'
<1>1. /\ pc' = "idle" /\ listed' = {} /\ todo' = <<>> /\ marks' = {}
      /\ UNCHANGED <<now, draft, mtime, st, raced>>
  BY Zenon DEF ReplayFails, Restart, Idle, clock, disk
<1>2. \/ UNCHANGED <<watermark, seen, retries, startup>> /\ pc # "idle"
      \/ watermark' = -1 /\ seen' = {} /\ retries' = <<>> /\ ~startup'
  <2>1. pc = "replay" => pc # "idle"
    OBVIOUS
  <2> QED BY <2>1, Zenon DEF ReplayFails, Restart, cursor
<1>3. <<>> \in Seq(Paths) /\ IsFiniteSet({}) /\ -1 \in Int
  BY FS_EmptySet
<1>4. now \in Nat /\ \A p \in Paths : draft[p] \in Int
  BY Zenon DEF IInv, Typed
<1>5. -1 <= now /\ \A p \in Paths : draft[p] >= 0 => draft[p] >= -1
  BY <1>4
<1>6. Typed'
  BY <1>1, <1>2, <1>3, Zenon DEF IInv, Typed
<1>7. Clocked'
  BY <1>1, <1>2, <1>5, Zenon DEF IInv, Clocked
<1>8. ASSUME NEW p \in Paths PROVE Timely(p)'
  <2>1. Timely(p)
    BY Zenon DEF IInv
  <2>2. draft[p] >= 0 /\ p \notin raced => draft[p] >= watermark'
    BY <1>2, <1>5, <2>1, Zenon DEF Timely
  <2>3. p \in seen' => p \in seen
    BY <1>2, Zenon
  <2> QED BY <1>1, <2>1, <2>2, <2>3, Zenon DEF Timely
<1>9. ASSUME NEW p \in Paths, Unsettled(p)', p \notin raced' PROVE Kept(p)'
  <2>1. Kept(p)
    BY <1>1, <1>9, Zenon DEF IInv, Unsettled
  <2>2. pc' # "listed" /\ pc' # "replay"
    BY <1>1
  <2>3. CASE ~startup'
    BY <2>2, <2>3, Zenon DEF Kept, Ahead
  <2>4. CASE UNCHANGED <<watermark, seen, retries, startup>>
    <3>1. Ahead(p)'
      BY <1>1, <2>1, <2>4, Zenon DEF Kept, Ahead, PastWatermark, Retrying
    <3> QED BY <2>2, <3>1, Zenon DEF Kept
  <2> QED BY <1>2, <2>3, <2>4, Zenon
<1> QED BY <1>6, <1>7, <1>8, <1>9, Zenon DEF IInv

\* Where the watermark goes at the end of a pass: it stays, or takes the latest
\* mark.
LEMMA AdvanceFacts ==
  ASSUME Typed, Advance
  PROVE  \/ UNCHANGED <<watermark, seen>> /\ startup
         \/ watermark' = -1 /\ seen' = {} /\ ~startup
         \/ /\ \E k \in marks : k[2] = watermark'
            /\ \A m \in marks : m[2] <= watermark'
            /\ watermark' > watermark \/ ~startup
            /\ seen' = {m[1] : m \in {k \in marks : k[2] = watermark'}}
         \/ /\ watermark' = watermark /\ startup
            /\ seen' = seen \cup {m[1] : m \in {k \in marks : k[2] = watermark}}
<1> DEFINE latest == Max({m[2] : m \in marks})
           there == {m[1] : m \in {k \in marks : k[2] = latest}}
<1>1. CASE marks = {}
  <2>1. CASE startup
    <3>1. UNCHANGED <<watermark, seen>>
      BY <1>1, <2>1, Zenon DEF Advance
    <3> QED BY <2>1, <3>1, Zenon
  <2>2. CASE ~startup
    <3>1. watermark' = -1 /\ seen' = {}
      BY <1>1, <2>2, Zenon DEF Advance
    <3> QED BY <2>2, <3>1, Zenon
  <2> QED BY <2>1, <2>2, Zenon
<1>2. CASE marks # {}
  <2> DEFINE f == [m \in marks |-> m[2]]
             T == {m[2] : m \in marks}
  <2>1. IsFiniteSet({f[m] : m \in marks})
    <3>1. IsFiniteSet(marks)
      BY Zenon DEF Typed
    <3> HIDE DEF f
    <3> QED BY <3>1, FiniteImage, Zenon
  <2>2. {f[m] : m \in marks} = T
    BY Zenon
  <2>3. \A m \in marks : m[2] \in Int
    BY DEF Typed
  <2>4. T \subseteq Int /\ T # {} /\ IsFiniteSet(T)
    BY <1>2, <2>1, <2>2, <2>3, Zenon
  <2>5. Max(T) \in T /\ \A y \in T : Max(T) >= y
    BY <2>4, Greatest, Zenon
  <2>6. (\E k \in marks : k[2] = latest) /\ \A m \in marks : latest >= m[2]
    BY <2>4, <2>5, Zenon
  <2>7. \/ (~startup \/ latest > watermark) /\ watermark' = latest /\ seen' = there
        \/ startup /\ latest = watermark /\ UNCHANGED watermark /\ seen' = seen \cup there
        \/ startup /\ latest < watermark /\ UNCHANGED <<watermark, seen>>
    BY <1>2, Zenon DEF Advance
  <2>8. latest \in Int
    BY <2>4, <2>5, Zenon
  <2> HIDE DEF latest
  <2>9. \A m \in marks : m[2] <= latest
    BY <2>3, <2>6, <2>8
  <2> QED BY <2>6, <2>7, <2>9, Zenon
<1> QED BY <1>1, <1>2, Zenon

\* A pass ends and moves the watermark: what it left behind all its marks is
\* still ahead.
LEMMA ScanEndStep ==
  ASSUME IInv, ScanEnd
  PROVE  IInv'
<1>1. /\ pc = "replay" /\ todo = <<>> /\ Advance /\ startup' = TRUE
      /\ pc' = "idle" /\ listed' = {} /\ todo' = <<>> /\ marks' = {}
      /\ UNCHANGED <<now, draft, mtime, st, retries, raced>>
  BY Zenon DEF ScanEnd, Idle, clock, disk
<1>2. Typed
  BY Zenon DEF IInv
<1>3. \/ UNCHANGED <<watermark, seen>> /\ startup
      \/ watermark' = -1 /\ seen' = {} /\ ~startup
      \/ /\ \E k \in marks : k[2] = watermark'
         /\ \A m \in marks : m[2] <= watermark'
         /\ watermark' > watermark \/ ~startup
         /\ seen' = {m[1] : m \in {k \in marks : k[2] = watermark'}}
      \/ /\ watermark' = watermark /\ startup
         /\ seen' = seen \cup {m[1] : m \in {k \in marks : k[2] = watermark}}
  BY <1>1, <1>2, AdvanceFacts, Zenon
<1>4. <<>> \in Seq(Paths) /\ IsFiniteSet({}) /\ -1 \in Int /\ Range(<<>>) = {}
  BY FS_EmptySet DEF Range
<1>5. now \in Nat /\ watermark \in Int /\ \A m \in marks : m[1] \in Paths /\ m[2] \in Int /\ m[2] <= now
  BY DEF IInv, Typed, Clocked
<1>6. -1 <= now /\ watermark <= now
  BY <1>5 DEF IInv, Clocked
<1>7. watermark' \in Int /\ watermark' <= now
  BY <1>3, <1>4, <1>5, <1>6, Zenon
<1>8. \A p \in seen' : p \in seen \/ \E m \in marks : m[1] = p
  BY <1>3, Zenon
<1>9. seen \subseteq Paths
  BY Zenon DEF IInv, Typed
<1>10. Typed'
  <2>1. seen' \subseteq Paths
    BY <1>5, <1>8, <1>9, Zenon
  <2> QED BY <1>1, <1>2, <1>4, <1>7, <2>1, Zenon DEF Typed
<1>11. Clocked'
  BY <1>1, <1>7, Zenon DEF Clocked
<1>12. ASSUME NEW p \in Paths PROVE Timely(p)'
  <2>1. Timely(p)
    BY Zenon DEF IInv
  <2>2. pc # "idle"
    BY <1>1
  <2>3. draft[p] >= 0 => p \in raced
    BY <2>1, <2>2, Zenon DEF Timely
  <2>4. st[p] = "none" => p \notin seen'
    BY <1>8, <2>1, Zenon DEF Timely
  <2> QED BY <1>1, <2>1, <2>3, <2>4, Zenon DEF Timely
<1>13. ASSUME NEW p \in Paths, Unsettled(p)', p \notin raced' PROVE Kept(p)'
  <2>1. p \in Retrying \/ (startup /\ PastWatermark(p) /\ Beyond(p))
    <3>1. Kept(p)
      BY <1>1, <1>13, Zenon DEF IInv, Unsettled
    <3> QED BY <1>1, <1>4, <3>1, Zenon DEF Kept
  <2>2. pc' # "listed" /\ pc' # "replay"
    BY <1>1
  <2>3. CASE p \in Retrying
    BY <1>1, <2>2, <2>3, Zenon DEF Kept, Ahead, Retrying
  <2>4. CASE startup /\ PastWatermark(p) /\ Beyond(p)
    <3>1. mtime[p] \in Int
      BY <1>2, Zenon DEF Typed
    <3>2. \A m \in marks : m[2] = mtime[p] => m[1] # p
      <4>1. ASSUME NEW m \in marks, m[2] = mtime[p] PROVE m[1] # p
        <5>1. ~(m[2] < mtime[p])
          BY <1>5, <3>1, <4>1
        <5> QED BY <2>4, <5>1, Zenon DEF Beyond
      <4> QED BY <4>1, Zenon
    <3>3. PastWatermark(p)'
      <4>1. CASE UNCHANGED <<watermark, seen>>
        BY <1>1, <2>4, <4>1, Zenon DEF PastWatermark
      <4>2. CASE /\ \E k \in marks : k[2] = watermark'
                 /\ seen' = {m[1] : m \in {k \in marks : k[2] = watermark'}}
        <5>1. PICK k \in marks : k[2] = watermark'
          BY <4>2, Zenon
        <5>2. k[2] < mtime[p] \/ k[2] = mtime[p]
          BY <2>4, Zenon DEF Beyond
        <5>3. mtime[p] > watermark' \/ mtime[p] = watermark'
          BY <1>5, <3>1, <5>1, <5>2
        <5>4. mtime[p] = watermark' => p \notin seen'
          BY <3>2, <4>2, Zenon
        <5> QED BY <1>1, <5>3, <5>4, Zenon DEF PastWatermark
      <4>3. CASE /\ watermark' = watermark
                 /\ seen' = seen \cup {m[1] : m \in {k \in marks : k[2] = watermark}}
        <5>1. mtime[p] = watermark /\ p \notin seen => p \notin seen'
          BY <3>2, <4>3, Zenon
        <5> QED BY <1>1, <2>4, <4>3, <5>1, Zenon DEF PastWatermark
      <4> QED BY <1>3, <2>4, <4>1, <4>2, <4>3, Zenon
    <3> QED BY <2>2, <3>3, Zenon DEF Kept, Ahead
  <2> QED BY <2>1, <2>3, <2>4, Zenon
<1> QED BY <1>10, <1>11, <1>12, <1>13, Zenon DEF IInv

-----------------------------------------------------------------------------
(* The theorems. *)

\* The invariant holds when the process and the daemon start.
LEMMA InitInv == Init => IInv
<1> SUFFICES ASSUME Init PROVE IInv
  OBVIOUS
<1>1. /\ now = 0 /\ draft = [p \in Paths |-> -1] /\ mtime = [p \in Paths |-> -1]
      /\ st = [p \in Paths |-> "none"] /\ listed = {} /\ todo = <<>> /\ marks = {}
      /\ watermark = -1 /\ seen = {} /\ retries = <<>>
  BY Zenon DEF Init
<1>2. \A p \in Paths : draft[p] = -1 /\ mtime[p] = -1 /\ st[p] = "none"
  BY <1>1, Zenon
<1>3. 0 \in Nat /\ <<>> \in Seq(Paths) /\ IsFiniteSet({}) /\ -1 \in Int /\ -1 <= 0 /\ ~(-1 >= 0)
  BY FS_EmptySet
<1>4. {p \in Paths : mtime[p] >= 0 \/ draft[p] >= 0} = {}
  BY <1>2, <1>3, Zenon
<1>5. /\ draft \in [Paths -> Int] /\ mtime \in [Paths -> Int]
      /\ st \in [Paths -> {"none", "owned", "orphan", "indexed", "quarantined"}]
  BY <1>1, <1>3, Zenon
<1>6. Typed
  BY <1>1, <1>3, <1>4, <1>5, Zenon DEF Typed
<1>7. Clocked
  BY <1>1, <1>3, Zenon DEF Clocked
<1>8. ASSUME NEW p \in Paths PROVE Timely(p) /\ ~Unsettled(p)
  <2>1. mtime[p] <= now /\ draft[p] <= now /\ ~(draft[p] >= 0) /\ ~(mtime[p] >= 0)
    BY <1>1, <1>2, <1>3, Zenon
  <2>2. st[p] \notin {"owned", "orphan"}
    BY <1>2
  <2> QED BY <1>1, <1>2, <2>1, <2>2, Zenon DEF Timely, Unsettled
<1> QED BY <1>6, <1>7, <1>8, Zenon DEF IInv

\* Every step keeps the invariant.
LEMMA NextInv == IInv /\ [Next]_vars => IInv'
<1> SUFFICES ASSUME IInv, [Next]_vars PROVE IInv'
  OBVIOUS
<1>1. CASE UNCHANGED vars
  <2>1. UNCHANGED <<now, draft, mtime, st, pc, listed, todo, marks, watermark, seen, retries,
                    startup, raced>>
    BY <1>1, Zenon DEF vars, clock, disk, pass, cursor
  <2>2. Typed' /\ Clocked'
    BY <2>1, Zenon DEF IInv, Typed, Clocked
  <2>3. \A p \in Paths : Timely(p)'
    BY <2>1, Zenon DEF IInv, Timely
  <2>4. ASSUME NEW p \in Paths, Unsettled(p)', p \notin raced' PROVE Kept(p)'
    <3>1. Kept(p)
      BY <2>1, <2>4, Zenon DEF IInv, Unsettled
    <3> QED BY <2>1, <3>1, Zenon DEF Kept, Ahead, Retrying, PastWatermark, Beyond
  <2> QED BY <2>2, <2>3, <2>4, Zenon DEF IInv
<1>2. CASE Next
  <2>1. CASE Tick \/ Heartbeat \/ \E p \in Paths : Commit(p) \/ Orphan(p) \/ RepairDomain(p)
    BY <2>1, QuietStep, Zenon
  <2>2. ASSUME NEW p \in Paths, WriteTemporary(p) PROVE IInv'
    BY <2>2, WriteTemporaryStep, Zenon
  <2>3. ASSUME NEW p \in Paths, Rename(p) PROVE IInv'
    BY <2>3, RenameStep, Zenon
  <2>4. CASE ScanStart
    BY <2>4, ScanStartStep, Zenon
  <2>5. CASE ScanPeriodic
    BY <2>5, ScanPeriodicStep, Zenon
  <2>6. CASE ScanFull
    BY <2>6, ScanFullStep, Zenon
  <2>7. CASE Replay
    BY <2>7, ReplayStep, Zenon
  <2>8. CASE ReplayFails \/ Restart
    BY <2>8, AbandonStep, Zenon
  <2>9. CASE ScanEnd
    BY <2>9, ScanEndStep, Zenon
  <2> QED
    BY <1>2, <2>1, <2>2, <2>3, <2>4, <2>5, <2>6, <2>7, <2>8, <2>9, Zenon DEF Next
<1> QED BY <1>1, <1>2, Zenon

\* In every behaviour of the scanner and of ingestd, every manifest to be settled
\* whose writing overlapped no pass is ahead of the cursor at every moment of a
\* pass: found by it, on its list, a retry, or behind all it marked.
THEOREM ScanInvariant == Spec => []IInv
<1>1. Init => IInv
  BY InitInv
<1>2. IInv /\ [Next]_vars => IInv'
  BY NextInv
<1> QED BY <1>1, <1>2, PTL DEF Spec

\* "the next pass cannot jump over an incompletely processed batch"
\* (recovery.py:271) holds for any manifests, sizes, batch size, retry share,
\* byte budget, stability time, errors and restarts.
THEOREM NothingSkippedAlways == Spec => []NothingSkipped
<1>1. IInv => NothingSkipped
  <2> SUFFICES ASSUME IInv, NEW p \in Paths, Unsettled(p) PROVE Ahead(p) \/ p \in raced
    BY Zenon DEF NothingSkipped
  <2> QED BY Zenon DEF IInv, Kept
<1> QED BY <1>1, ScanInvariant, PTL
=============================================================================

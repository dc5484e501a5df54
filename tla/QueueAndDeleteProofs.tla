------------------------ MODULE QueueAndDeleteProofs ------------------------
(***************************************************************************)
(* Proofs about the two components that count: the mail queue of ingestd,  *)
(* which accounts for slots and bytes, and the bulk deletion of mailboxes, *)
(* which goes through numbered pages.  Both rest on the facts about finite *)
(* sums and the inductions stated first.                                   *)
(*                                                                         *)
(* MailQueue, for any number of sessions and workers, any budgets and any  *)
(* sizes of body lines: IInv is inductive; the safety properties are its   *)
(* conjuncts or follow from it.                                            *)
(*                                                                         *)
(* BulkDelete, for any messages and mailboxes, any page size and any       *)
(* number of deliveries, jobs, stops and failures.  What a job has still   *)
(* to delete is not the range of rowids it froze, because rowids come      *)
(* back, but the generation: Unswept says that an active delivery no       *)
(* younger than the job is one that the request covered and, while the     *)
(* job is incomplete, lies ahead of its cursor.                            *)
(***************************************************************************)
EXTENDS MailQueue, BulkDelete,
        FiniteSetTheorems, SequenceTheorems, WellFoundedInduction, TLAPS

-----------------------------------------------------------------------------
(* Sums of functions over finite sets.  Induction is done on sets of naturals. *)

(* Induction over the naturals, with the property given as a set. *)
LEMMA NatSetInduction ==
  ASSUME NEW T, 0 \in T, \A n \in Nat : n \in T => n + 1 \in T
  PROVE  \A n \in Nat : n \in T
PROOF
<1> SUFFICES ASSUME NEW n \in Nat, n \notin T PROVE FALSE
  OBVIOUS
<1> DEFINE Bad == {k \in Nat : k \notin T}
<1>1. Bad \subseteq Nat /\ Bad # {}
  OBVIOUS
<1>2. PICK x \in Bad : \A y \in Bad : ~(<<y, x>> \in OpToRel(<, Nat))
  BY <1>1, WFMin, NatLessThanWellFounded, Zenon
<1>3. x \in Nat /\ x # 0
  BY <1>2, Zenon
<1> DEFINE p == x - 1
<1>4. p \in Nat /\ p < x /\ p + 1 = x
  BY <1>3
<1> HIDE DEF p
<1>5. <<p, x>> \in OpToRel(<, Nat)
  BY <1>3, <1>4, Zenon DEF OpToRel
<1>6. p \in T
  BY <1>2, <1>4, <1>5, Zenon
<1> QED
  BY <1>2, <1>4, <1>6, Zenon

(* Induction over the subsets of a finite set, by their cardinality. *)
LEMMA SubsetInduction ==
  ASSUME NEW S, IsFiniteSet(S), NEW T,
         \A A \in SUBSET S :
            (\A B \in SUBSET A : B # A => B \in T) => A \in T
  PROVE  \A A \in SUBSET S : A \in T
PROOF
<1> DEFINE Upto(n) == \A A \in SUBSET S : Cardinality(A) < n => A \in T
           N == {n \in Nat : Upto(n)}
<1>1. \A A \in SUBSET S : IsFiniteSet(A) /\ Cardinality(A) \in Nat
  BY FS_Subset, FS_CardinalityType, Zenon
<1>2. Upto(0)
  BY <1>1
<1>3. ASSUME NEW n \in Nat, Upto(n) PROVE Upto(n + 1)
  <2> SUFFICES ASSUME NEW A \in SUBSET S, Cardinality(A) < n + 1 PROVE A \in T
    OBVIOUS
  <2>1. ASSUME NEW B \in SUBSET A, B # A PROVE B \in T
    <3>1. Cardinality(B) <= Cardinality(A) /\ Cardinality(B) # Cardinality(A)
      BY <1>1, <2>1, FS_Subset, Zenon
    <3>2. B \in SUBSET S
      OBVIOUS
    <3> QED BY <1>1, <1>3, <3>1, <3>2
  <2> QED BY <2>1, Zenon
<1>4. \A n \in Nat : Upto(n)
  <2> HIDE DEF Upto
  <2>1. 0 \in N /\ \A n \in Nat : n \in N => n + 1 \in N
    BY <1>2, <1>3
  <2> HIDE DEF N
  <2>2. \A n \in Nat : n \in N
    BY <2>1, NatSetInduction, Zenon
  <2> QED BY <2>2, Zenon DEF N
<1> TAKE A \in SUBSET S
<1>5. Cardinality(A) + 1 \in Nat /\ Cardinality(A) < Cardinality(A) + 1
  BY <1>1
<1> QED
  BY <1>4, <1>5, Zenon

-----------------------------------------------------------------------------
Pick(A) == CHOOSE x \in A : TRUE
SumStep(f, g, A) == IF A = {} THEN 0 ELSE f[Pick(A)] + g[A \ {Pick(A)}]
IsSum(f, g, S) == g = [A \in SUBSET S |-> SumStep(f, g, A)]
TheSum(f, S) == CHOOSE g : IsSum(f, g, S)

(* The library sum is the value of its recursion at the whole set. *)
LEMMA SumUnfold ==
  ASSUME NEW f, NEW S
  PROVE  SumFunctionOnSet(f, S) = TheSum(f, S)[S]
BY Zenon DEF SumFunctionOnSet, FoldFunctionOnSet, MapThenFoldSet, TheSum, IsSum, SumStep, Pick

(* The recursion has a solution: built for larger and larger subsets. *)
LEMMA SumExists ==
  ASSUME NEW S, IsFiniteSet(S), NEW f
  PROVE  IsSum(f, TheSum(f, S), S)
PROOF
<1> DEFINE D(n) == {A \in SUBSET S : Cardinality(A) <= n}
           Partial(g, n) == g = [A \in D(n) |-> SumStep(f, g, A)]
           Has(n) == \E g : Partial(g, n)
           N == {n \in Nat : Has(n)}
<1>1. \A A \in SUBSET S : IsFiniteSet(A) /\ Cardinality(A) \in Nat
  BY FS_Subset, FS_CardinalityType, Zenon
<1>2. \A A \in SUBSET S : Cardinality(A) = 0 <=> A = {}
  BY <1>1, FS_EmptySet, Zenon
<1>3. ASSUME NEW A \in SUBSET S, A # {}
      PROVE  /\ Pick(A) \in A
             /\ A \ {Pick(A)} \in SUBSET S
             /\ Cardinality(A \ {Pick(A)}) = Cardinality(A) - 1
  <2>1. Pick(A) \in A
    BY <1>3, Zenon DEF Pick
  <2> QED BY <1>1, <2>1, FS_RemoveElement, Zenon
<1>4. Has(0)
  <2> DEFINE z == [A \in D(0) |-> 0]
  <2>1. \A A \in D(0) : A = {}
    BY <1>1, <1>2
  <2>2. \A A \in D(0) : SumStep(f, z, A) = 0
    BY <2>1, Zenon DEF SumStep
  <2>3. Partial(z, 0)
    <3> DEFINE st(A) == SumStep(f, z, A)
    <3>1. \A A \in D(0) : st(A) = 0 BY <2>2, Zenon
    <3> HIDE DEF st
    <3>2. [A \in D(0) |-> st(A)] = [A \in D(0) |-> 0] BY <3>1, Zenon
    <3> QED BY <3>2, Zenon DEF st
  <2> QED BY <2>3, Zenon
<1>5. ASSUME NEW n \in Nat, Has(n) PROVE Has(n + 1)
  <2>1. PICK g : Partial(g, n)
    BY <1>5, Zenon
  <2> DEFINE h == [A \in D(n + 1) |-> SumStep(f, g, A)]
  <2>2. ASSUME NEW A \in D(n + 1) PROVE SumStep(f, h, A) = SumStep(f, g, A)
    <3>1. CASE A = {}
      BY <3>1, Zenon DEF SumStep
    <3>2. CASE A # {}
      <4> DEFINE B == A \ {Pick(A)}
      <4>1. B \in D(n) /\ B \in D(n + 1)
        BY <1>1, <1>3, <3>2
      <4>2. h[B] = SumStep(f, g, B)
        BY <4>1, Zenon
      <4>3. g[B] = SumStep(f, g, B)
        <5> HIDE DEF B
        <5> QED BY <2>1, <4>1, Zenon
      <4> HIDE DEF h
      <4> QED BY <3>2, <4>2, <4>3, Zenon DEF SumStep
    <3> QED BY <3>1, <3>2, Zenon
  <2>3. h = [A \in D(n + 1) |-> SumStep(f, h, A)]
    <3> DEFINE a(A) == SumStep(f, g, A)
               b(A) == SumStep(f, h, A)
    <3>1. \A A \in D(n + 1) : b(A) = a(A)
      BY <2>2, Zenon
    <3>2. h = [A \in D(n + 1) |-> a(A)]
      OBVIOUS
    <3> HIDE DEF h, a, b
    <3>3. h = [A \in D(n + 1) |-> b(A)]
      BY <3>1, <3>2, Zenon
    <3> QED BY <3>3, Zenon DEF b
  <2> HIDE DEF h
  <2> QED BY <2>3, Zenon
<1>6. \A n \in Nat : Has(n)
  <2> HIDE DEF Has
  <2>1. 0 \in N /\ \A n \in Nat : n \in N => n + 1 \in N
    BY <1>4, <1>5
  <2> HIDE DEF N
  <2>2. \A n \in Nat : n \in N
    BY <2>1, NatSetInduction, Zenon
  <2> QED BY <2>2, Zenon DEF N
<1>7. Has(Cardinality(S))
  BY <1>1, <1>6, Zenon
<1>8. D(Cardinality(S)) = SUBSET S
  BY <1>1, FS_Subset, Zenon
<1>9. \E g : IsSum(f, g, S)
  BY <1>7, <1>8, Zenon DEF IsSum
<1> QED
  BY <1>9, Zenon DEF TheSum

(* The chosen recursion satisfies its equation on every subset. *)
LEMMA SumEquation ==
  ASSUME NEW S, IsFiniteSet(S), NEW f, NEW A \in SUBSET S
  PROVE  TheSum(f, S)[A] = SumStep(f, TheSum(f, S), A)
PROOF
<1> DEFINE g == TheSum(f, S)
<1>1. g = [B \in SUBSET S |-> SumStep(f, g, B)]
  BY SumExists, Zenon DEF IsSum
<1> HIDE DEF g
<1>2. g[A] = SumStep(f, g, A)
  BY <1>1, Zenon
<1> QED BY <1>2, Zenon DEF g

(* The sum over a subset does not depend on the set it is taken in. *)
LEMMA SumOfSubset ==
  ASSUME NEW S, IsFiniteSet(S), NEW f, NEW A \in SUBSET S
  PROVE  TheSum(f, S)[A] = SumFunctionOnSet(f, A)
PROOF
<1> DEFINE T == {B \in SUBSET A : TheSum(f, S)[B] = TheSum(f, A)[B]}
<1>1. IsFiniteSet(A)
  BY FS_Subset, Zenon
<1>2. ASSUME NEW B \in SUBSET A, \A C \in SUBSET B : C # B => C \in T
      PROVE  B \in T
  <2>1. /\ TheSum(f, S)[B] = SumStep(f, TheSum(f, S), B)
        /\ TheSum(f, A)[B] = SumStep(f, TheSum(f, A), B)
    BY <1>1, SumEquation, Zenon
  <2>2. CASE B = {}
    BY <2>1, <2>2, Zenon DEF SumStep
  <2>3. CASE B # {}
    <3> DEFINE C == B \ {Pick(B)}
    <3>1. C \in SUBSET B /\ C # B
      BY <2>3, Zenon DEF Pick
    <3>2. TheSum(f, S)[C] = TheSum(f, A)[C]
      BY <1>2, <3>1, Zenon
    <3> QED BY <2>1, <2>3, <3>2, Zenon DEF SumStep
  <2> QED BY <2>2, <2>3, Zenon
<1> HIDE DEF T
<1>3. A \in T
  BY <1>1, <1>2, SubsetInduction, Zenon
<1> QED
  BY <1>3, SumUnfold, Zenon DEF T

-----------------------------------------------------------------------------
(* The facts used elsewhere. *)

(* The empty sum is zero. *)
LEMMA SumEmpty ==
  ASSUME NEW f
  PROVE  SumFunctionOnSet(f, {}) = 0
PROOF
<1>1. IsFiniteSet({}) /\ {} \in SUBSET {}
  BY FS_EmptySet, Zenon
<1>2. TheSum(f, {})[{}] = SumStep(f, TheSum(f, {}), {})
  BY <1>1, SumEquation, Zenon
<1> QED BY <1>2, SumUnfold, Zenon DEF SumStep

(* A sum of naturals is a natural. *)
LEMMA SumNat ==
  ASSUME NEW S, IsFiniteSet(S), NEW f, \A x \in S : f[x] \in Nat
  PROVE  SumFunctionOnSet(f, S) \in Nat
PROOF
<1> DEFINE g == TheSum(f, S)
           T == {A \in SUBSET S : g[A] \in Nat}
<1>1. ASSUME NEW A \in SUBSET S, \A B \in SUBSET A : B # A => B \in T
      PROVE  A \in T
  <2>1. g[A] = SumStep(f, g, A)
    BY SumEquation, Zenon
  <2>2. CASE A = {}
    BY <2>1, <2>2 DEF SumStep
  <2>3. CASE A # {}
    <3> DEFINE B == A \ {Pick(A)}
    <3>1. Pick(A) \in A /\ B \in SUBSET A /\ B # A
      BY <2>3, Zenon DEF Pick
    <3>2. g[B] \in Nat /\ f[Pick(A)] \in Nat
      BY <1>1, <3>1, Zenon
    <3> QED BY <2>1, <2>3, <3>2 DEF SumStep
  <2> QED BY <2>2, <2>3, Zenon
<1> HIDE DEF T
<1>2. S \in T
  BY <1>1, SubsetInduction, Zenon
<1> QED BY <1>2, SumUnfold, Zenon DEF T

(* Any element may be taken out of a sum, not only the one Pick takes. *)
LEMMA SumRemove ==
  ASSUME NEW S, IsFiniteSet(S), NEW f, \A y \in S : f[y] \in Nat, NEW x \in S
  PROVE  SumFunctionOnSet(f, S) = f[x] + SumFunctionOnSet(f, S \ {x})
PROOF
<1> DEFINE g == TheSum(f, S)
           Any(A) == \A y \in A : g[A] = f[y] + g[A \ {y}]
           T == {A \in SUBSET S : Any(A)}
<1>1. \A A \in SUBSET S : g[A] = SumFunctionOnSet(f, A) /\ g[A] \in Nat
  <2> TAKE A \in SUBSET S
  <2>1. IsFiniteSet(A) /\ \A y \in A : f[y] \in Nat
    BY FS_Subset, Zenon
  <2>2. SumFunctionOnSet(f, A) \in Nat
    BY <2>1, SumNat, Zenon
  <2>3. g[A] = SumFunctionOnSet(f, A)
    BY SumOfSubset, Zenon
  <2> QED BY <2>2, <2>3, Zenon
<1>2. \A A \in SUBSET S : A # {} => g[A] = f[Pick(A)] + g[A \ {Pick(A)}]
  BY SumEquation, Zenon DEF SumStep
<1> HIDE DEF g
<1>3. ASSUME NEW A \in SUBSET S, \A B \in SUBSET A : B # A => Any(B)
      PROVE  Any(A)
  <2> SUFFICES ASSUME NEW y \in A PROVE g[A] = f[y] + g[A \ {y}]
    OBVIOUS
  <2> DEFINE c == Pick(A)
  <2>1. c \in A
    BY Zenon DEF Pick
  <2>2. g[A] = f[c] + g[A \ {c}]
    BY <1>2, Zenon
  <2> HIDE DEF c
  <2>3. CASE c = y
    BY <2>2, <2>3, Zenon
  <2>4. CASE c # y
    <3>1. /\ A \ {c} \in SUBSET A /\ A \ {c} # A /\ y \in A \ {c}
          /\ A \ {y} \in SUBSET A /\ A \ {y} # A /\ c \in A \ {y}
      BY <2>1, <2>4, Zenon
    <3>2. (A \ {c}) \ {y} = (A \ {y}) \ {c}
      OBVIOUS
    <3>3. /\ g[A \ {c}] = f[y] + g[(A \ {c}) \ {y}]
          /\ g[A \ {y}] = f[c] + g[(A \ {y}) \ {c}]
      BY <1>3, <3>1, Zenon
    <3>4. f[c] \in Nat /\ f[y] \in Nat
      BY <2>1, Zenon
    <3>5. g[(A \ {c}) \ {y}] \in Nat
      BY <1>1, Zenon
    <3> DEFINE r == g[(A \ {c}) \ {y}]
    <3>6. g[A] = f[c] + (f[y] + r) /\ g[A \ {y}] = f[c] + r
      BY <2>2, <3>2, <3>3, Zenon
    <3> HIDE DEF r
    <3>7. f[c] + (f[y] + r) = f[y] + (f[c] + r)
      BY <3>4, <3>5 DEF r
    <3> QED BY <3>6, <3>7, Zenon
  <2> QED BY <2>3, <2>4, Zenon
<1>4. S \in T
  <2> HIDE DEF Any
  <2>1. \A A \in SUBSET S : (\A B \in SUBSET A : B # A => B \in T) => A \in T
    BY <1>3, Zenon
  <2> HIDE DEF T
  <2> QED BY <2>1, SubsetInduction, Zenon
<1>5. g[S] = f[x] + g[S \ {x}]
  BY <1>4, Zenon
<1> QED BY <1>1, <1>5, Zenon

(* Equal summands give equal sums. *)
LEMMA SumCongruent ==
  ASSUME NEW S, IsFiniteSet(S), NEW f, NEW g, \A x \in S : f[x] = g[x]
  PROVE  SumFunctionOnSet(f, S) = SumFunctionOnSet(g, S)
PROOF
<1> DEFINE T == {A \in SUBSET S : TheSum(f, S)[A] = TheSum(g, S)[A]}
<1>1. ASSUME NEW A \in SUBSET S, \A B \in SUBSET A : B # A => B \in T
      PROVE  A \in T
  <2>1. /\ TheSum(f, S)[A] = SumStep(f, TheSum(f, S), A)
        /\ TheSum(g, S)[A] = SumStep(g, TheSum(g, S), A)
    BY SumEquation, Zenon
  <2>2. CASE A = {}
    BY <2>1, <2>2, Zenon DEF SumStep
  <2>3. CASE A # {}
    <3> DEFINE B == A \ {Pick(A)}
    <3>1. Pick(A) \in A /\ B \in SUBSET A /\ B # A
      BY <2>3, Zenon DEF Pick
    <3>2. TheSum(f, S)[B] = TheSum(g, S)[B] /\ f[Pick(A)] = g[Pick(A)]
      BY <1>1, <3>1, Zenon
    <3> QED BY <2>1, <2>3, <3>2, Zenon DEF SumStep
  <2> QED BY <2>2, <2>3, Zenon
<1> HIDE DEF T
<1>2. S \in T
  BY <1>1, SubsetInduction, Zenon
<1> QED BY <1>2, SumUnfold, Zenon DEF T

(* Replacing one summand. *)
LEMMA SumUpdate ==
  ASSUME NEW S, IsFiniteSet(S), NEW f \in [S -> Nat], NEW a \in S, NEW v \in Nat
  PROVE  /\ SumFunction(f) \in Nat
         /\ f[a] <= SumFunction(f)
         /\ SumFunction([f EXCEPT ![a] = v]) = SumFunction(f) - f[a] + v
PROOF
<1> DEFINE g == [f EXCEPT ![a] = v]
           R == S \ {a}
<1>1. g \in [S -> Nat] /\ g[a] = v /\ \A x \in R : f[x] = g[x]
  OBVIOUS
<1>2. DOMAIN f = S /\ DOMAIN g = S
  OBVIOUS
<1> HIDE DEF g
<1>3. IsFiniteSet(R)
  BY FS_Subset, Zenon
<1>4. SumFunctionOnSet(f, R) = SumFunctionOnSet(g, R)
  BY <1>1, <1>3, SumCongruent, Zenon
<1>5. SumFunctionOnSet(f, R) \in Nat
  BY <1>3, SumNat, Zenon
<1>6. SumFunctionOnSet(f, S) = f[a] + SumFunctionOnSet(f, R)
  BY SumRemove, Zenon
<1>7. SumFunctionOnSet(g, S) = g[a] + SumFunctionOnSet(g, R)
  BY <1>1, SumRemove, Zenon
<1>8. /\ SumFunction(f) = SumFunctionOnSet(f, S)
      /\ SumFunction(g) = SumFunctionOnSet(g, S)
  BY <1>2, Zenon DEF SumFunction
<1>9. f[a] \in Nat
  OBVIOUS
<1>10. SumFunction(g) = SumFunction(f) - f[a] + v
  BY <1>1, <1>4, <1>5, <1>6, <1>7, <1>8, <1>9
<1> QED BY <1>5, <1>6, <1>8, <1>9, <1>10 DEF g

(* A sum of zeros is zero. *)
LEMMA SumZero ==
  ASSUME NEW S, IsFiniteSet(S), NEW f, DOMAIN f = S, \A x \in S : f[x] = 0
  PROVE  SumFunction(f) = 0
PROOF
<1> DEFINE g == TheSum(f, S)
           T == {A \in SUBSET S : g[A] = 0}
<1>1. ASSUME NEW A \in SUBSET S, \A B \in SUBSET A : B # A => B \in T
      PROVE  A \in T
  <2>1. g[A] = SumStep(f, g, A)
    BY SumEquation, Zenon
  <2>2. CASE A = {}
    BY <2>1, <2>2, Zenon DEF SumStep
  <2>3. CASE A # {}
    <3> DEFINE B == A \ {Pick(A)}
    <3>1. Pick(A) \in A /\ B \in SUBSET A /\ B # A
      BY <2>3, Zenon DEF Pick
    <3>2. g[B] = 0 /\ f[Pick(A)] = 0
      BY <1>1, <3>1, Zenon
    <3> QED BY <2>1, <2>3, <3>2 DEF SumStep
  <2> QED BY <2>2, <2>3, Zenon
<1> HIDE DEF T
<1>2. S \in T
  BY <1>1, SubsetInduction, SMTT(30)
<1> QED BY <1>2, SumUnfold, Zenon DEF T, SumFunction

-----------------------------------------------------------------------------
(* Sums of sequences of naturals. *)

(* The sizes of a queue add up to a natural number. *)
LEMMA SeqSumNat ==
  ASSUME NEW s \in Seq(Nat)
  PROVE  SumFunction(s) \in Nat
PROOF
<1>1. IsFiniteSet(1 .. Len(s)) /\ DOMAIN s = 1 .. Len(s)
  BY FS_Interval
<1>2. \A i \in 1 .. Len(s) : s[i] \in Nat
  OBVIOUS
<1>3. SumFunctionOnSet(s, 1 .. Len(s)) \in Nat
  BY <1>1, <1>2, SumNat, Zenon
<1> QED BY <1>1, <1>3, Zenon DEF SumFunction

(* An empty queue weighs nothing. *)
LEMMA SeqSumEmpty == SumFunction(<<>>) = 0
PROOF
<1>1. DOMAIN <<>> = {}
  OBVIOUS
<1> QED BY <1>1, SumEmpty, Zenon DEF SumFunction

(* Appending a message adds its size. *)
LEMMA SeqSumAppend ==
  ASSUME NEW s \in Seq(Nat), NEW v \in Nat
  PROVE  SumFunction(Append(s, v)) = SumFunction(s) + v
PROOF
<1> DEFINE t == Append(s, v)
           n == Len(s)
<1>1. /\ n \in Nat /\ t \in Seq(Nat) /\ Len(t) = n + 1
      /\ \A i \in 1 .. n : t[i] = s[i]
      /\ t[n + 1] = v
  BY AppendProperties
<1> HIDE DEF t
<1>2. DOMAIN t = 1 .. n + 1 /\ DOMAIN s = 1 .. n /\ \A i \in 1 .. n + 1 : t[i] \in Nat
  BY <1>1
<1>3. IsFiniteSet(1 .. n + 1) /\ IsFiniteSet(1 .. n)
  BY <1>1, FS_Interval
<1>4. (1 .. n + 1) \ {n + 1} = 1 .. n /\ n + 1 \in 1 .. n + 1
  BY <1>1
<1>5. SumFunctionOnSet(t, 1 .. n + 1) = t[n + 1] + SumFunctionOnSet(t, (1 .. n + 1) \ {n + 1})
  BY <1>2, <1>3, <1>4, SumRemove, Zenon
<1>6. SumFunctionOnSet(t, 1 .. n) = SumFunctionOnSet(s, 1 .. n)
  BY <1>1, <1>3, SumCongruent, Zenon
<1>7. SumFunction(s) \in Nat
  BY SeqSumNat, Zenon
<1>8. SumFunction(t) = v + SumFunction(s)
  BY <1>1, <1>2, <1>4, <1>5, <1>6, Zenon DEF SumFunction
<1> QED BY <1>7, <1>8 DEF t

(* A slice one longer is the slice with one element appended. *)
LEMMA PrefixGrows ==
  ASSUME NEW s \in Seq(Nat), NEW m \in 1 .. Len(s), NEW n \in m - 1 .. Len(s) - 1
  PROVE  /\ SubSeq(s, m, n) \in Seq(Nat)
         /\ SubSeq(s, m, n + 1) = Append(SubSeq(s, m, n), s[n + 1])
PROOF
<1>1. /\ Len(s) \in Nat /\ m \in Int /\ n \in Int /\ n + 1 \in m .. Len(s)
      /\ (n + 1) - 1 = n /\ s[n + 1] \in Nat /\ \A i \in m .. n : s[i] \in Nat
  OBVIOUS
<1>2. SubSeq(s, m, n) \in Seq(Nat)
  BY <1>1, SubSeqProperties, Zenon
<1> DEFINE j == n + 1
<1>3. j \in m .. Len(s) /\ j - 1 = n
  BY <1>1, Zenon
<1> HIDE DEF j
<1>4. SubSeq(s, m, j) = SubSeq(s, m, j - 1) \o <<s[j]>>
  BY <1>3, SubSeqRecursiveSecond, Zenon
<1>5. SubSeq(s, m, j) = SubSeq(s, m, n) \o <<s[j]>>
  BY <1>3, <1>4, Zenon
<1>6. Append(SubSeq(s, m, n), s[n + 1]) = SubSeq(s, m, n) \o <<s[n + 1]>>
  BY <1>1, <1>2, AppendIsConcat, Zenon
<1> QED BY <1>2, <1>5, <1>6, Zenon DEF j

(* Cutting a sequence in two splits its sum. *)
LEMMA SeqSumSplit ==
  ASSUME NEW s \in Seq(Nat), NEW k \in 0 .. Len(s)
  PROVE  /\ SubSeq(s, 1, k) \in Seq(Nat) /\ SubSeq(s, k + 1, Len(s)) \in Seq(Nat)
         /\ SumFunction(s) = SumFunction(SubSeq(s, 1, k)) + SumFunction(SubSeq(s, k + 1, Len(s)))
PROOF
<1> DEFINE L == Len(s)
           W(n) == SubSeq(s, 1, n)
           R(n) == SubSeq(s, k + 1, n)
           Split(n) == SumFunction(W(n)) = SumFunction(W(k)) + SumFunction(R(n))
           N == {d \in Nat : k + d <= L => Split(k + d)}
<1>1. L \in Nat /\ k \in Nat /\ k <= L
  OBVIOUS
<1>2. \A n \in k .. L : W(n) \in Seq(Nat) /\ R(n) \in Seq(Nat)
  <2> TAKE n \in k .. L
  <2>1. /\ n \in Int /\ k + 1 \in Int
        /\ \A i \in 1 .. n : s[i] \in Nat
        /\ \A i \in k + 1 .. n : s[i] \in Nat
    BY <1>1
  <2>2. W(n) \in Seq(Nat)
    BY <2>1, SubSeqProperties
  <2>3. R(n) \in Seq(Nat)
    BY <2>1, SubSeqProperties, Zenon
  <2> QED BY <2>2, <2>3, Zenon
<1>3. \A n \in k .. L - 1 : /\ W(n + 1) = Append(W(n), s[n + 1])
                            /\ R(n + 1) = Append(R(n), s[n + 1])
                            /\ s[n + 1] \in Nat
  <2> TAKE n \in k .. L - 1
  <2>1. /\ 1 \in 1 .. L /\ n \in 1 - 1 .. L - 1
        /\ k + 1 \in 1 .. L /\ n \in (k + 1) - 1 .. L - 1
        /\ s[n + 1] \in Nat
    BY <1>1
  <2>2. W(n + 1) = Append(W(n), s[n + 1])
    BY <2>1, PrefixGrows, Zenon
  <2>3. R(n + 1) = Append(R(n), s[n + 1])
    <3> DEFINE m == k + 1
    <3>1. m \in 1 .. L /\ n \in m - 1 .. L - 1
      BY <2>1, Zenon
    <3> HIDE DEF m
    <3>2. SubSeq(s, m, n + 1) = Append(SubSeq(s, m, n), s[n + 1])
      BY <3>1, PrefixGrows, Zenon
    <3> QED BY <3>2, Zenon DEF m
  <2> QED BY <2>1, <2>2, <2>3, Zenon
<1>4. R(k) = <<>>
  <2>1. k + 1 \in Int /\ k \in Int /\ k < k + 1
    BY <1>1
  <2> QED BY <2>1, SubSeqEmpty, Zenon
<1>5. W(L) = s
  BY SubSeqFull, Zenon
<1> HIDE DEF W, R
<1>6. \A n \in k .. L : SumFunction(W(n)) \in Nat /\ SumFunction(R(n)) \in Nat
  BY <1>2, SeqSumNat, Zenon
<1>7. Split(k)
  <2>1. SumFunction(W(k)) \in Nat /\ SumFunction(R(k)) = 0
    BY <1>1, <1>4, <1>6, SeqSumEmpty
  <2> QED BY <2>1
<1>8. ASSUME NEW n \in k .. L - 1, Split(n) PROVE Split(n + 1)
  <2>1. /\ SumFunction(W(n + 1)) = SumFunction(W(n)) + s[n + 1]
        /\ SumFunction(R(n + 1)) = SumFunction(R(n)) + s[n + 1]
    <3>1. n \in k .. L
      BY <1>1
    <3> QED BY <1>2, <1>3, <3>1, SeqSumAppend, Zenon
  <2> DEFINE a == SumFunction(W(n))
             b == SumFunction(W(k))
             c == SumFunction(R(n))
  <2>2. a \in Nat /\ b \in Nat /\ c \in Nat /\ s[n + 1] \in Nat
    BY <1>1, <1>3, <1>6
  <2>3. a = b + c
    BY <1>8, Zenon
  <2> HIDE DEF a, b, c
  <2>4. a + s[n + 1] = b + (c + s[n + 1])
    BY <2>2, <2>3
  <2> QED BY <2>1, <2>4, Zenon DEF a, b, c
<1>9. Split(L)
  <2> HIDE DEF Split
  <2>1. 0 \in N
    BY <1>1, <1>7
  <2>2. ASSUME NEW d \in Nat, d \in N PROVE d + 1 \in N
    <3> SUFFICES ASSUME k + (d + 1) <= L PROVE Split(k + (d + 1))
      OBVIOUS
    <3>1. k + d \in k .. L - 1 /\ k + d <= L /\ k + (d + 1) = (k + d) + 1
      BY <1>1
    <3>2. Split(k + d)
      BY <2>2, <3>1, Zenon
    <3> QED BY <1>8, <3>1, <3>2, Zenon
  <2>3. L - k \in Nat /\ k + (L - k) = L
    BY <1>1
  <2> HIDE DEF N
  <2>4. \A d \in Nat : d \in N
    BY <2>1, <2>2, NatSetInduction, Zenon
  <2>5. L - k \in N
    BY <2>3, <2>4, Zenon
  <2> QED BY <1>1, <2>3, <2>5 DEF N
<1>10. SumFunction(s) = SumFunction(W(k)) + SumFunction(R(L))
  BY <1>5, <1>9, Zenon
<1>11. W(k) \in Seq(Nat) /\ R(L) \in Seq(Nat)
  BY <1>1, <1>2
<1> QED BY <1>10, <1>11, Zenon DEF W, R

-----------------------------------------------------------------------------
(* The mail queue. *)

BatchBytes == [w \in Workers |-> SumFunction(batch[w])]
BatchLens == [w \in Workers |-> Len(batch[w])]

(* Sessions that hold a slot can be counted. *)
LEMMA HoldersFinite ==
  /\ IsFiniteSet(Holders)
  /\ Cardinality(Holders) \in Nat
BY QueueConstants, FS_Subset, FS_CardinalityType, Zenon DEF Holders

(* The weights and lengths of the batches in flight are naturals. *)
LEMMA BatchSumTypes ==
  ASSUME TypeOK
  PROVE  BatchBytes \in [Workers -> Nat] /\ BatchLens \in [Workers -> Nat]
PROOF
<1>1. \A w \in Workers : batch[w] \in Seq(Nat)
  BY Zenon DEF TypeOK
<1>2. \A w \in Workers : SumFunction(batch[w]) \in Nat /\ Len(batch[w]) \in Nat
  BY <1>1, SeqSumNat
<1> QED BY <1>2, Zenon DEF BatchBytes, BatchLens

(* A session's reservation can always be released, and is released exactly. *)
LEMMA ReleaseEffect ==
  ASSUME IInv, NEW s \in Sessions, ReleaseReservation(s)
  PROVE  /\ reservedMsgs' \in Nat /\ reservedMsgs' <= reservedMsgs
         /\ reservedBytes' \in Nat /\ reservedBytes' <= reservedBytes
         /\ reservedMsgs' = Cardinality(Holders')
         /\ reservedBytes' = SumFunction(grant')
         /\ holds' \in [Sessions -> BOOLEAN] /\ grant' \in [Sessions -> Nat]
         /\ UNCHANGED <<queue, queueBytes, inFlight>>
PROOF
<1>1. /\ holds \in [Sessions -> BOOLEAN] /\ grant \in [Sessions -> Nat]
      /\ reservedMsgs \in Nat /\ reservedBytes \in Nat
      /\ reservedMsgs = Cardinality(Holders) /\ reservedBytes = SumFunction(grant)
  BY Zenon DEF IInv, TypeOK, SlotsAccounted, WorkAccounted
<1>2. /\ holds' = [holds EXCEPT ![s] = FALSE]
      /\ grant' = [grant EXCEPT ![s] = 0]
      /\ Holders' = Holders \ {s}
  BY <1>1, Zenon DEF ReleaseReservation, Holders
<1>3. /\ SumFunction(grant) \in Nat
      /\ grant[s] <= SumFunction(grant)
      /\ SumFunction([grant EXCEPT ![s] = 0]) = SumFunction(grant) - grant[s] + 0
  <2>1. IsFiniteSet(Sessions) /\ grant \in [Sessions -> Nat] /\ 0 \in Nat
    BY <1>1, QueueConstants, Zenon
  <2> QED BY <2>1, SumUpdate, Zenon
<1>4. Cardinality(Holders \ {s}) =
        IF s \in Holders THEN Cardinality(Holders) - 1 ELSE Cardinality(Holders)
  BY HoldersFinite, FS_RemoveElement, Zenon
<1>5. CASE holds[s]
  <2>1. s \in Holders /\ Cardinality(Holders) # 0
    BY <1>5, HoldersFinite, FS_EmptySet, Zenon DEF Holders
  <2>2. Releasable(grant[s])
    BY <1>1, <1>3, <2>1, Zenon DEF Releasable
  <2>3. CancelReservation(grant[s])
    BY <1>5, Zenon DEF ReleaseReservation
  <2>4. /\ reservedMsgs' = reservedMsgs - 1
        /\ reservedBytes' = reservedBytes - grant[s]
        /\ UNCHANGED <<queue, queueBytes, inFlight>>
    BY <2>2, <2>3, Zenon DEF CancelReservation
  <2>5. reservedBytes' = SumFunction(grant') /\ reservedBytes' \in Nat
    BY <1>1, <1>2, <1>3, <2>4
  <2>6. reservedMsgs' = Cardinality(Holders') /\ reservedMsgs' \in Nat
    BY <1>1, <1>2, <1>4, <2>1, <2>4
  <2> QED BY <1>1, <1>2, <1>3, <2>4, <2>5, <2>6
<1>6. CASE ~holds[s]
  <2>1. s \notin Holders /\ grant[s] = 0
    BY <1>6, Zenon DEF Holders, IInv, ReservationCovers
  <2>2. UNCHANGED queueVars
    BY <1>6, Zenon DEF ReleaseReservation
  <2> QED BY <1>1, <1>2, <1>3, <1>4, <2>1, <2>2 DEF queueVars
<1> QED BY <1>5, <1>6, Zenon

(* The counters and limits of the queue are naturals. *)
LEMMA BudgetTypes ==
  ASSUME TypeOK
  PROVE  /\ Len(queue) \in Nat /\ queueBytes \in Nat /\ inFlight \in Nat
         /\ reservedMsgs \in Nat /\ reservedBytes \in Nat
         /\ CapMessages \in Nat /\ CapBytes \in Nat
BY QueueConstants DEF TypeOK

(* Releasing reservations keeps the budget. *)
LEMMA BudgetShrinks ==
  ASSUME TypeOK, WithinBudget,
         reservedMsgs' \in Nat, reservedMsgs' <= reservedMsgs,
         reservedBytes' \in Nat, reservedBytes' <= reservedBytes,
         queue' = queue, queueBytes' = queueBytes, inFlight' = inFlight
  PROVE  WithinBudget' /\ Total' <= Total
BY BudgetTypes, SMTT(30) DEF WithinBudget, Total, TotalBytes

(* The paths out of DATA that release: 451, 552, overlong line, disconnect. *)
LEMMA ReleaseKeepsInv ==
  ASSUME IInv, NEW s \in Sessions, NEW m \in Modes \ {"data"},
         ReleaseReservation(s),
         mode' = [mode EXCEPT ![s] = m],
         octets' \in [Sessions -> Nat], \A r \in Sessions \ {s} : octets'[r] = octets[r],
         UNCHANGED <<paused, closed, workerVars>>
  PROVE  IInv' /\ Total' <= Total
PROOF
<1> USE DEF IInv
<1>1. /\ reservedMsgs' \in Nat /\ reservedMsgs' <= reservedMsgs
      /\ reservedBytes' \in Nat /\ reservedBytes' <= reservedBytes
      /\ reservedMsgs' = Cardinality(Holders')
      /\ reservedBytes' = SumFunction(grant')
      /\ holds' \in [Sessions -> BOOLEAN] /\ grant' \in [Sessions -> Nat]
      /\ UNCHANGED <<queue, queueBytes, inFlight>>
  BY ReleaseEffect, Zenon
<1>2. /\ queue' = queue /\ queueBytes' = queueBytes /\ inFlight' = inFlight
      /\ paused' = paused /\ closed' = closed
      /\ batch' = batch /\ running' = running /\ exited' = exited
  BY <1>1, Zenon DEF workerVars
<1>3. TypeOK'
  BY <1>1, <1>2, Zenon DEF TypeOK, Modes
<1>4. WithinBudget' /\ Total' <= Total
  BY <1>1, <1>2, BudgetShrinks, Zenon
<1>5. SlotsAccounted'
  BY <1>1, Zenon DEF SlotsAccounted
<1>6. WorkAccounted'
  BY <1>1, <1>2, Zenon DEF WorkAccounted
<1>7. ReservationCovers'
  BY <1>1, <1>2, Zenon DEF ReservationCovers, ReleaseReservation, TypeOK
<1>8. ShutdownOrder'
  BY <1>2 DEF ShutdownOrder
<1> QED BY <1>3, <1>4, <1>5, <1>6, <1>7, <1>8, Zenon

(* try_reserve: DATA takes one empty reservation, only while not paused. *)
LEMMA DataCommandInv ==
  ASSUME IInv, NEW s \in Sessions, DataCommand(s)
  PROVE  IInv' /\ ~paused
PROOF
<1> USE DEF IInv
<1>1. /\ queue' = queue /\ queueBytes' = queueBytes /\ inFlight' = inFlight
      /\ paused' = paused /\ closed' = closed
      /\ grant' = [grant EXCEPT ![s] = 0] /\ octets' = [octets EXCEPT ![s] = 0]
      /\ batch' = batch /\ running' = running /\ exited' = exited
      /\ reservedMsgs' = reservedMsgs + 1 /\ reservedBytes' = reservedBytes + 0
      /\ mode[s] = "command" /\ mode' = [mode EXCEPT ![s] = "data"]
      /\ holds' = [holds EXCEPT ![s] = TRUE]
  BY Zenon DEF DataCommand, TryReserve, workerVars
<1>2. ~paused /\ Total < CapMessages
  BY Zenon DEF DataCommand, CanReserve, HasCapacity
<1>3. ~holds[s] /\ grant[s] = 0 /\ grant' = grant
  BY <1>1, Zenon DEF ReservationCovers, TypeOK
<1>4. TypeOK'
  BY <1>1 DEF TypeOK, Modes
<1>5. WithinBudget'
  BY <1>1, <1>2, QueueConstants DEF WithinBudget, Total, TotalBytes, TypeOK
<1>6. SlotsAccounted'
  <2>1. Holders' = Holders \cup {s} /\ s \notin Holders
    BY <1>1, <1>3, Zenon DEF Holders, TypeOK
  <2>2. Cardinality(Holders \cup {s}) = Cardinality(Holders) + 1
    BY <2>1, HoldersFinite, FS_AddElement, Zenon
  <2> QED BY <1>1, <2>1, <2>2, Zenon DEF SlotsAccounted
<1>7. WorkAccounted'
  BY <1>1, <1>3 DEF WorkAccounted, TypeOK
<1>8. ReservationCovers'
  BY <1>1, <1>3 DEF ReservationCovers, TypeOK
<1>9. ShutdownOrder'
  BY <1>1, Zenon DEF ShutdownOrder
<1> QED BY <1>2, <1>4, <1>5, <1>6, <1>7, <1>8, <1>9, Zenon

(* What try_grow_reservation grants covers the request and fits the budget. *)
LEMMA GrowthFits ==
  ASSUME TypeOK, NEW least \in Int, NEW preferred \in Int, least > 0,
         Growth(least, preferred) # 0
  PROVE  /\ Growth(least, preferred) \in Nat
         /\ Growth(least, preferred) >= least
         /\ TotalBytes + Growth(least, preferred) <= CapBytes
BY BudgetTypes DEF Growth, Smaller, TotalBytes

(* The size a session asks try_grow_reservation for is an integer. *)
LEMMA PreferredInt ==
  ASSUME NEW n \in Nat
  PROVE  PreferredTarget(n) \in Int
PROOF
<1>1. Chunk \in Int /\ Chunk > 0 /\ MaxMessage \in Int
  BY QueueConstants
<1>2. (n + Chunk - 1) \div Chunk \in Int
  BY <1>1
<1> DEFINE q == (n + Chunk - 1) \div Chunk
<1> HIDE DEF q
<1>3. q * Chunk \in Int
  BY <1>1, <1>2 DEF q
<1>4. RoundedUp(n) \in Int
  BY <1>3, Zenon DEF RoundedUp, q
<1> QED BY <1>1, <1>4 DEF PreferredTarget, Larger, Smaller

(* A body line after 552 or 451 was decided changes no counter. *)
LEMMA DataLineAfterFullInv ==
  ASSUME IInv, NEW s \in Sessions, NEW n \in LineSizes, DataLineAfterFull(s, n)
  PROVE  IInv' /\ Total' <= Total
PROOF
<1> USE DEF IInv
<1>1. /\ queue' = queue /\ queueBytes' = queueBytes /\ inFlight' = inFlight
      /\ reservedMsgs' = reservedMsgs /\ reservedBytes' = reservedBytes
      /\ paused' = paused /\ closed' = closed /\ mode' = mode /\ holds' = holds
      /\ grant' = grant /\ batch' = batch /\ running' = running /\ exited' = exited
      /\ octets' = [octets EXCEPT ![s] = @ + n] /\ mode[s] = "queue_full"
      /\ n \in Nat
  BY QueueConstants, Zenon DEF DataLineAfterFull, queueVars, workerVars
<1>2. TypeOK'
  BY <1>1 DEF TypeOK
<1>3. WithinBudget' /\ Total' <= Total
  BY <1>1, BudgetTypes DEF WithinBudget, Total, TotalBytes
<1>4. SlotsAccounted' /\ WorkAccounted' /\ ShutdownOrder'
  BY <1>1, Zenon DEF SlotsAccounted, Holders, WorkAccounted, ShutdownOrder
<1>5. ReservationCovers'
  BY <1>1, Zenon DEF ReservationCovers, TypeOK
<1> QED BY <1>2, <1>3, <1>4, <1>5, Zenon

(* A stored body line: try_grow_reservation, then the octets. *)
LEMMA DataLineStoredInv ==
  ASSUME IInv, NEW s \in Sessions, NEW n \in LineSizes, DataLineStored(s, n)
  PROVE  IInv' /\ Total' <= Total
PROOF
<1> USE DEF IInv
<1> DEFINE required == octets[s] + n
           added == Added(s, required)
           more == IF required <= grant[s] THEN 0 ELSE added
<1>1. /\ queue' = queue /\ queueBytes' = queueBytes /\ inFlight' = inFlight
      /\ reservedMsgs' = reservedMsgs /\ reservedBytes' = reservedBytes + more
      /\ paused' = paused /\ closed' = closed /\ mode' = mode /\ holds' = holds
      /\ batch' = batch /\ running' = running /\ exited' = exited
      /\ octets' = [octets EXCEPT ![s] = required]
      /\ grant' = [grant EXCEPT ![s] = @ + more]
      /\ mode[s] = "data" /\ holds[s]
      /\ required <= grant[s] \/ added # 0
  BY Zenon DEF DataLineStored, workerVars
<1>2. required \in Nat /\ grant[s] \in Nat /\ grant \in [Sessions -> Nat]
  BY QueueConstants DEF TypeOK
<1> HIDE DEF required
<1>3. /\ more \in Nat
      /\ required <= grant[s] + more
      /\ TotalBytes + more <= CapBytes
  <2>1. CASE required <= grant[s]
    BY <1>2, <2>1, BudgetTypes DEF WithinBudget, TotalBytes
  <2>2. CASE ~(required <= grant[s])
    <3> DEFINE least == required - grant[s]
               preferred == PreferredTarget(required) - grant[s]
    <3>1. least \in Int /\ preferred \in Int /\ least > 0
      BY <1>2, <2>2, PreferredInt
    <3>2. added = Growth(least, preferred) /\ added # 0
      BY <1>1, <2>2, Zenon DEF Added
    <3> HIDE DEF least, preferred
    <3>3. added \in Nat /\ added >= least /\ TotalBytes + added <= CapBytes
      BY <3>1, <3>2, GrowthFits, Zenon
    <3> HIDE DEF added
    <3> QED BY <1>2, <2>2, <3>3 DEF least
  <2> QED BY <2>1, <2>2, Zenon
<1> HIDE DEF more
<1>4. grant[s] + more \in Nat /\ grant' = [grant EXCEPT ![s] = grant[s] + more]
  BY <1>1, <1>2, <1>3
<1>5. TypeOK'
  <2>1. reservedBytes + more \in Nat
    BY <1>3, BudgetTypes
  <2> QED BY <1>1, <1>2, <1>4, <2>1, Zenon DEF TypeOK
<1>6. WithinBudget' /\ Total' <= Total
  <2>1. Total' = Total
    BY <1>1, Zenon DEF Total
  <2>2. TotalBytes' = TotalBytes + more
    BY <1>1, <1>3, BudgetTypes DEF TotalBytes
  <2>3. Total \in Nat
    BY BudgetTypes DEF Total
  <2> QED BY <1>3, <2>1, <2>2, <2>3 DEF WithinBudget
<1>7. SlotsAccounted' /\ ShutdownOrder'
  BY <1>1, Zenon DEF SlotsAccounted, Holders, ShutdownOrder
<1>8. WorkAccounted'
  <2>1. IsFiniteSet(Sessions)
    BY QueueConstants, Zenon
  <2> DEFINE v == grant[s] + more
  <2>2. v \in Nat /\ grant' = [grant EXCEPT ![s] = v]
    BY <1>4, Zenon
  <2> HIDE DEF v
  <2>3. SumFunction([grant EXCEPT ![s] = v]) = SumFunction(grant) - grant[s] + v
    BY <1>2, <2>1, <2>2, SumUpdate, Zenon
  <2>4. SumFunction(grant') = SumFunction(grant) - grant[s] + v
    BY <2>2, <2>3, Zenon
  <2>5. reservedBytes = SumFunction(grant) /\ reservedBytes \in Nat
    BY BudgetTypes, Zenon DEF WorkAccounted
  <2>6. reservedBytes' = SumFunction(grant')
    BY <1>1, <1>2, <1>3, <2>4, <2>5, SMTT(30) DEF v
  <2> QED BY <1>1, <2>6, Zenon DEF WorkAccounted
<1>9. ReservationCovers'
  BY <1>1, <1>2, <1>3, <1>4, Zenon DEF ReservationCovers, TypeOK
<1> QED BY <1>5, <1>6, <1>7, <1>8, <1>9, Zenon

(* Arithmetic of a hand-over: what leaves the reserved counters is at least *)
(* what enters the queued ones.                                             *)
LEMMA SlotHandOver ==
  ASSUME NEW q \in Nat, NEW q2 \in Nat, NEW r \in Nat, NEW r2 \in Nat, NEW f \in Nat,
         r = r2 + 1, q2 <= q + 1
  PROVE  q2 + r2 + f <= q + r + f
OBVIOUS

(* The same for bytes. *)
LEMMA ByteHandOver ==
  ASSUME NEW q \in Nat, NEW q2 \in Nat, NEW r \in Nat, NEW r2 \in Nat,
         NEW size \in Nat, NEW b \in Nat,
         size <= b, r = r2 + b, q2 <= q + size
  PROVE  q2 + r2 <= q + r
OBVIOUS

(* Naturals are closed under addition. *)
LEMMA PlusNat ==
  ASSUME NEW a \in Nat, NEW b \in Nat
  PROVE  a + b \in Nat
OBVIOUS

(* A step that raises neither total keeps the budget. *)
LEMMA BudgetMonotone ==
  ASSUME TypeOK, TypeOK', WithinBudget, Total' <= Total, TotalBytes' <= TotalBytes
  PROVE  WithinBudget'
PROOF
<1>1. Total \in Nat /\ TotalBytes \in Nat /\ CapMessages \in Nat /\ CapBytes \in Nat
  BY BudgetTypes DEF Total, TotalBytes
<1>2. Total' \in Nat /\ TotalBytes' \in Nat
  <2>1. /\ Len(queue)' \in Nat /\ queueBytes' \in Nat /\ inFlight' \in Nat
        /\ reservedMsgs' \in Nat /\ reservedBytes' \in Nat
    BY DEF TypeOK
  <2>2. Total' \in Nat
    BY <2>1 DEF Total
  <2>3. TotalBytes' \in Nat
    BY <2>1, PlusNat, Zenon DEF TotalBytes
  <2> QED BY <2>2, <2>3, Zenon
<1>3. Total <= CapMessages /\ TotalBytes <= CapBytes
  BY Zenon DEF WithinBudget
<1>4. Total' <= CapMessages
  BY <1>1, <1>2, <1>3
<1>5. TotalBytes' <= CapBytes
  BY <1>1, <1>2, <1>3
<1> QED BY <1>4, <1>5, Zenon DEF WithinBudget

(* push_reserved: the reservation becomes a queued message, or is dropped when closed. *)
LEMMA FinishDataInv ==
  ASSUME IInv, NEW s \in Sessions, FinishData(s)
  PROVE  IInv' /\ Total' <= Total
PROOF
<1> USE DEF IInv
<1>1. mode[s] = "data" /\ holds[s] /\ octets[s] <= grant[s]
  BY Zenon DEF FinishData, ReservationCovers
<1>2. /\ octets[s] \in Nat /\ grant[s] \in Nat /\ grant \in [Sessions -> Nat]
      /\ holds \in [Sessions -> BOOLEAN] /\ queue \in Seq(Nat)
  BY Zenon DEF TypeOK
<1>3. /\ PushReserved(octets[s], grant[s])
      /\ mode' = [mode EXCEPT ![s] = "command"]
      /\ holds' = [holds EXCEPT ![s] = FALSE]
      /\ grant' = [grant EXCEPT ![s] = 0]
      /\ octets' = [octets EXCEPT ![s] = 0]
      /\ paused' = paused /\ closed' = closed
      /\ batch' = batch /\ running' = running /\ exited' = exited
  BY <1>1, <1>2 DEF FinishData, workerVars
<1>4. /\ SumFunction(grant) \in Nat
      /\ grant[s] <= SumFunction(grant)
      /\ SumFunction([grant EXCEPT ![s] = 0]) = SumFunction(grant) - grant[s] + 0
  <2>1. IsFiniteSet(Sessions) /\ 0 \in Nat
    BY QueueConstants, Zenon
  <2> QED BY <1>2, <2>1, SumUpdate, Zenon
<1>5. s \in Holders /\ Holders' = Holders \ {s}
  BY <1>1, <1>2, <1>3, Zenon DEF Holders
<1>6. Cardinality(Holders \ {s}) = Cardinality(Holders) - 1 /\ Cardinality(Holders) # 0
  BY <1>5, HoldersFinite, FS_RemoveElement, FS_EmptySet, Zenon
<1>7. reservedMsgs = Cardinality(Holders) /\ reservedBytes = SumFunction(grant)
  BY Zenon DEF SlotsAccounted, WorkAccounted
<1>8. Releasable(grant[s])
  BY <1>2, <1>4, <1>6, <1>7, BudgetTypes, Zenon DEF Releasable
<1>9. /\ reservedMsgs' = reservedMsgs - 1
      /\ reservedBytes' = reservedBytes - grant[s]
      /\ inFlight' = inFlight
      /\ \/ closed /\ queue' = queue /\ queueBytes' = queueBytes
         \/ /\ ~closed
            /\ queue' = Append(queue, octets[s])
            /\ queueBytes' = queueBytes + octets[s]
  BY <1>1, <1>2, <1>3, <1>8 DEF PushReserved
<1>10. reservedMsgs' \in Nat /\ reservedBytes' \in Nat
  BY <1>2, <1>4, <1>6, <1>7, <1>9, BudgetTypes, SMTT(30)
<1>11. /\ queue' \in Seq(Nat) /\ queueBytes' \in Nat
       /\ Len(queue') \in Nat /\ Len(queue') <= Len(queue) + 1
       /\ queueBytes' <= queueBytes + octets[s]
  <2>1. CASE closed /\ queue' = queue /\ queueBytes' = queueBytes
    BY <1>2, <2>1, BudgetTypes
  <2>2. CASE queue' = Append(queue, octets[s]) /\ queueBytes' = queueBytes + octets[s]
    <3>1. queue' \in Seq(Nat) /\ Len(queue') = Len(queue) + 1
      BY <1>2, <2>2, AppendProperties, Zenon
    <3> QED BY <1>2, <2>2, <3>1, BudgetTypes, SMTT(30)
  <2> QED BY <1>9, <2>1, <2>2, Zenon
<1>12. TypeOK'
  <2>1. mode' \in [Sessions -> Modes]
    BY <1>3, Zenon DEF TypeOK, Modes
  <2>2. holds' \in [Sessions -> BOOLEAN]
    BY <1>2, <1>3, Zenon
  <2>3. grant' \in [Sessions -> Nat] /\ octets' \in [Sessions -> Nat]
    BY <1>3, Zenon DEF TypeOK
  <2> QED BY <1>3, <1>9, <1>10, <1>11, <2>1, <2>2, <2>3, Zenon DEF TypeOK
<1>13. WithinBudget' /\ Total' <= Total
  <2>1. /\ reservedMsgs \in Nat /\ reservedBytes \in Nat /\ inFlight \in Nat
        /\ Len(queue) \in Nat /\ queueBytes \in Nat
    BY BudgetTypes, Zenon
  <2>2. reservedMsgs = reservedMsgs' + 1 /\ reservedBytes = reservedBytes' + grant[s]
    BY <1>2, <1>9, <2>1
  <2>3. Len(queue') + reservedMsgs' + inFlight <= Len(queue) + reservedMsgs + inFlight
    BY <1>10, <1>11, <2>1, <2>2, SlotHandOver, Zenon
  <2>4. queueBytes' + reservedBytes' <= queueBytes + reservedBytes
    BY <1>1, <1>2, <1>10, <1>11, <2>1, <2>2, ByteHandOver, Zenon
  <2>5. Total' <= Total /\ TotalBytes' <= TotalBytes
    BY <1>9, <2>3, <2>4, Zenon DEF Total, TotalBytes
  <2> QED BY <1>12, <2>5, BudgetMonotone, Zenon
<1>14. SlotsAccounted'
  BY <1>5, <1>6, <1>7, <1>9, Zenon DEF SlotsAccounted
<1>15. WorkAccounted'
  <2>1. reservedBytes' = SumFunction(grant')
    BY <1>2, <1>3, <1>4, <1>7, <1>9
  <2>2. SumFunction(Append(queue, octets[s])) = SumFunction(queue) + octets[s]
    BY <1>2, SeqSumAppend, Zenon
  <2>3. /\ SumFunction(queue) \in Nat
        /\ SumFunction(BatchBytes) \in Nat
    <3>1. BatchBytes \in [Workers -> Nat] /\ IsFiniteSet(Workers)
      BY BatchSumTypes, QueueConstants, Zenon
    <3>2. SumFunctionOnSet(BatchBytes, Workers) \in Nat
      BY <3>1, SumNat, Zenon
    <3>3. DOMAIN BatchBytes = Workers
      BY <3>1, Zenon
    <3> QED BY <1>2, <3>2, <3>3, SeqSumNat, Zenon DEF SumFunction
  <2>4. queueBytes = SumFunction(queue) + SumFunction(BatchBytes)
    BY Zenon DEF WorkAccounted, BatchBytes
  <2>5. queueBytes' = SumFunction(queue') + SumFunction(BatchBytes)
    <3>1. CASE queue' = queue /\ queueBytes' = queueBytes
      BY <2>4, <3>1, Zenon
    <3>2. CASE queue' = Append(queue, octets[s]) /\ queueBytes' = queueBytes + octets[s]
      <4>1. SumFunction(queue') = SumFunction(queue) + octets[s]
        BY <2>2, <3>2, Zenon
      <4> QED BY <1>2, <2>3, <2>4, <3>2, <4>1
    <3> QED BY <1>9, <3>1, <3>2, Zenon
  <2> QED BY <1>3, <1>9, <2>1, <2>5, Zenon DEF WorkAccounted, BatchBytes
<1>16. ReservationCovers'
  BY <1>3, Zenon DEF ReservationCovers, TypeOK
<1>17. ShutdownOrder'
  BY <1>3, <1>9, Zenon DEF ShutdownOrder
<1> QED BY <1>12, <1>13, <1>14, <1>15, <1>16, <1>17, Zenon

(* pop_batch: messages move from the queue to a batch in flight. *)
LEMMA PopBatchInv ==
  ASSUME IInv, NEW w \in Workers, PopBatch(w)
  PROVE  IInv' /\ Total' <= Total
PROOF
<1> USE DEF IInv
<1> DEFINE n == Smaller(Len(queue), BatchMax)
           head == SubSeq(queue, 1, n)
           rest == SubSeq(queue, n + 1, Len(queue))
<1>1. /\ w \notin exited /\ batch[w] = <<>> /\ queue # <<>>
      /\ batch' = [batch EXCEPT ![w] = head] /\ queue' = rest
      /\ inFlight' = inFlight + n
      /\ queueBytes' = queueBytes /\ reservedMsgs' = reservedMsgs
      /\ reservedBytes' = reservedBytes /\ paused' = paused /\ closed' = closed
      /\ mode' = mode /\ holds' = holds /\ grant' = grant /\ octets' = octets
      /\ running' = running /\ exited' = exited
  BY Zenon DEF PopBatch, sessionVars
<1>2. queue \in Seq(Nat) /\ Len(queue) \in Nat /\ batch \in [Workers -> Seq(Nat)]
  BY DEF TypeOK
<1>3. n \in 0 .. Len(queue)
  BY <1>2, QueueConstants DEF Smaller
<1> HIDE DEF n
<1>4. /\ head \in Seq(Nat) /\ rest \in Seq(Nat)
      /\ SumFunction(queue) = SumFunction(head) + SumFunction(rest)
  BY <1>2, <1>3, SeqSumSplit, Zenon
<1>5. Len(head) = n /\ Len(rest) = Len(queue) - n
  BY <1>2, <1>3
<1> HIDE DEF head, rest
<1>6. TypeOK'
  <2>1. inFlight' \in Nat
    BY <1>1, <1>3, BudgetTypes
  <2> QED BY <1>1, <1>2, <1>4, <2>1, Zenon DEF TypeOK
<1>7. WithinBudget' /\ Total' <= Total
  <2>1. Total' = Total
    BY <1>1, <1>3, <1>5, BudgetTypes DEF Total
  <2>2. TotalBytes' = TotalBytes
    BY <1>1, Zenon DEF TotalBytes
  <2>3. Total \in Nat
    BY BudgetTypes DEF Total
  <2> QED BY <2>1, <2>2, <2>3 DEF WithinBudget
<1>8. SlotsAccounted' /\ ReservationCovers'
  BY <1>1, Zenon DEF SlotsAccounted, Holders, ReservationCovers
<1>9. ShutdownOrder'
  BY <1>1, <1>2, Zenon DEF ShutdownOrder, TypeOK
<1>10. WorkAccounted'
  <2>1. /\ BatchBytes \in [Workers -> Nat] /\ BatchLens \in [Workers -> Nat]
        /\ IsFiniteSet(Workers)
    BY BatchSumTypes, QueueConstants, Zenon
  <2>2. BatchBytes[w] = 0 /\ BatchLens[w] = 0
    BY <1>1, SeqSumEmpty, Zenon DEF BatchBytes, BatchLens
  <2>3. /\ BatchBytes' = [BatchBytes EXCEPT ![w] = SumFunction(head)]
        /\ BatchLens' = [BatchLens EXCEPT ![w] = n]
    BY <1>1, <1>2, <1>5, Zenon DEF BatchBytes, BatchLens
  <2>4. SumFunction(head) \in Nat /\ SumFunction(rest) \in Nat /\ n \in Nat
    BY <1>2, <1>3, <1>4, SeqSumNat
  <2> DEFINE hb == SumFunction(head)
  <2>5. /\ SumFunction(BatchBytes) \in Nat
        /\ SumFunction([BatchBytes EXCEPT ![w] = hb])
             = SumFunction(BatchBytes) - BatchBytes[w] + hb
    <3>1. hb \in Nat BY <2>4, Zenon
    <3> HIDE DEF hb
    <3> QED BY <2>1, <3>1, SumUpdate, Zenon
  <2>6. /\ SumFunction(BatchLens) \in Nat
        /\ SumFunction([BatchLens EXCEPT ![w] = n])
             = SumFunction(BatchLens) - BatchLens[w] + n
    BY <2>1, <2>4, SumUpdate, Zenon
  <2>7. /\ queueBytes = SumFunction(queue) + SumFunction(BatchBytes)
        /\ inFlight = SumFunction(BatchLens)
    BY Zenon DEF WorkAccounted, BatchBytes, BatchLens
  <2>8. queueBytes' = SumFunction(queue') + SumFunction(BatchBytes')
    BY <1>1, <1>4, <2>2, <2>3, <2>4, <2>5, <2>7
  <2>9. inFlight' = SumFunction(BatchLens')
    BY <1>1, <2>2, <2>3, <2>4, <2>6, <2>7
  <2> QED BY <1>1, <2>8, <2>9, Zenon DEF WorkAccounted, BatchBytes, BatchLens
<1> QED BY <1>6, <1>7, <1>8, <1>9, <1>10, Zenon

(* The worker's batch is in the counters, so complete_batch never returns   *)
(* early and subtracts exactly that batch.                                  *)
LEMMA CompleteBatchInv ==
  ASSUME IInv, NEW w \in Workers, CompleteBatch(w)
  PROVE  IInv' /\ Total' <= Total
PROOF
<1> USE DEF IInv
<1> DEFINE n == Len(batch[w])
           b == SumFunction(batch[w])
<1>1. /\ batch' = [batch EXCEPT ![w] = <<>>]
      /\ queue' = queue /\ reservedMsgs' = reservedMsgs
      /\ reservedBytes' = reservedBytes /\ paused' = paused /\ closed' = closed
      /\ mode' = mode /\ holds' = holds /\ grant' = grant /\ octets' = octets
      /\ running' = running /\ exited' = exited
      /\ IF n > inFlight \/ b > queueBytes
         THEN UNCHANGED <<inFlight, queueBytes>>
         ELSE inFlight' = inFlight - n /\ queueBytes' = queueBytes - b
  BY Zenon DEF CompleteBatch, sessionVars
<1>2. queue \in Seq(Nat) /\ batch \in [Workers -> Seq(Nat)]
  BY Zenon DEF TypeOK
<1>3. /\ BatchBytes \in [Workers -> Nat] /\ BatchLens \in [Workers -> Nat]
      /\ IsFiniteSet(Workers) /\ 0 \in Nat
  BY BatchSumTypes, QueueConstants, Zenon
<1>4. n \in Nat /\ b \in Nat /\ BatchBytes[w] = b /\ BatchLens[w] = n
  BY <1>2, SeqSumNat DEF BatchBytes, BatchLens
<1>5. /\ BatchBytes' = [BatchBytes EXCEPT ![w] = 0]
      /\ BatchLens' = [BatchLens EXCEPT ![w] = 0]
  BY <1>1, <1>2, SeqSumEmpty, Zenon DEF BatchBytes, BatchLens
<1> HIDE DEF n, b
<1>6. /\ SumFunction(BatchBytes) \in Nat
      /\ BatchBytes[w] <= SumFunction(BatchBytes)
      /\ SumFunction([BatchBytes EXCEPT ![w] = 0])
           = SumFunction(BatchBytes) - BatchBytes[w] + 0
  BY <1>3, SumUpdate, Zenon
<1>7. /\ SumFunction(BatchLens) \in Nat
      /\ BatchLens[w] <= SumFunction(BatchLens)
      /\ SumFunction([BatchLens EXCEPT ![w] = 0])
           = SumFunction(BatchLens) - BatchLens[w] + 0
  BY <1>3, SumUpdate, Zenon
<1>8. /\ queueBytes = SumFunction(queue) + SumFunction(BatchBytes)
      /\ inFlight = SumFunction(BatchLens)
      /\ SumFunction(queue) \in Nat
  BY <1>2, SeqSumNat, Zenon DEF WorkAccounted, BatchBytes, BatchLens
<1>9. ~(n > inFlight) /\ ~(b > queueBytes)
  BY <1>4, <1>6, <1>7, <1>8
<1>10. inFlight' = inFlight - n /\ queueBytes' = queueBytes - b
  BY <1>1, <1>9, Zenon
<1>11. inFlight' \in Nat /\ inFlight' <= inFlight /\ inFlight \in Nat
  BY <1>4, <1>7, <1>8, <1>10
<1>12. queueBytes' \in Nat /\ queueBytes' <= queueBytes /\ queueBytes \in Nat
  BY <1>4, <1>6, <1>8, <1>10
<1>13. TypeOK'
  BY <1>1, <1>2, <1>11, <1>12 DEF TypeOK
<1>14. Total' <= Total
  BY <1>1, <1>11, BudgetTypes DEF Total
<1>15. TotalBytes' <= TotalBytes
  BY <1>1, <1>12, BudgetTypes DEF TotalBytes
<1>16. WithinBudget'
  BY <1>13, <1>14, <1>15, BudgetMonotone, Zenon
<1>17. SlotsAccounted' /\ ReservationCovers'
  BY <1>1, Zenon DEF SlotsAccounted, Holders, ReservationCovers
<1>18. ShutdownOrder'
  BY <1>1, <1>2, Zenon DEF ShutdownOrder, TypeOK
<1>19. WorkAccounted'
  <2>1. queueBytes' = SumFunction(queue') + SumFunction(BatchBytes')
    BY <1>1, <1>4, <1>5, <1>6, <1>8, <1>10, SMTT(30)
  <2>2. inFlight' = SumFunction(BatchLens')
    BY <1>4, <1>5, <1>7, <1>8, <1>10
  <2> QED BY <1>1, <2>1, <2>2, Zenon DEF WorkAccounted, BatchBytes, BatchLens
<1> QED BY <1>13, <1>14, <1>16, <1>17, <1>18, <1>19, Zenon

(* Steps of the shutdown and of the pause: no counter moves. *)
LEMMA CountersKept ==
  ASSUME IInv, UNCHANGED <<queueVars, sessionVars, batch>>,
         paused' \in BOOLEAN, closed' \in BOOLEAN, running' \in BOOLEAN,
         exited' \subseteq Workers, ShutdownOrder'
  PROVE  IInv' /\ Total' <= Total
PROOF
<1> USE DEF IInv
<1>1. /\ queue' = queue /\ queueBytes' = queueBytes /\ inFlight' = inFlight
      /\ reservedMsgs' = reservedMsgs /\ reservedBytes' = reservedBytes
      /\ mode' = mode /\ holds' = holds /\ grant' = grant /\ octets' = octets
      /\ batch' = batch
  BY Zenon DEF queueVars, sessionVars
<1>2. TypeOK'
  BY <1>1, Zenon DEF TypeOK
<1>3. WithinBudget' /\ Total' <= Total
  <2>1. Total' = Total /\ TotalBytes' = TotalBytes
    BY <1>1, Zenon DEF Total, TotalBytes
  <2>2. Total \in Nat
    BY BudgetTypes DEF Total
  <2> QED BY <2>1, <2>2 DEF WithinBudget
<1>4. SlotsAccounted' /\ WorkAccounted' /\ ReservationCovers'
  BY <1>1, Zenon DEF SlotsAccounted, Holders, WorkAccounted, ReservationCovers
<1> QED BY <1>2, <1>3, <1>4, Zenon

(* Pausing, closing and joining change no account. *)
LEMMA ShutdownStepInv ==
  ASSUME IInv, NEW w \in Workers,
         WorkerExit(w) \/ (\E p \in BOOLEAN : SetReservationsPaused(p)) \/ Close \/ StopRunning
  PROVE  IInv' /\ Total' <= Total
PROOF
<1> USE DEF IInv
<1>1. UNCHANGED <<queueVars, sessionVars, batch>>
  BY Zenon DEF WorkerExit, SetReservationsPaused, Close, StopRunning, workerVars
<1>2. queue' = queue /\ batch' = batch
  BY <1>1, Zenon DEF queueVars
<1>3. /\ paused' \in BOOLEAN /\ closed' \in BOOLEAN /\ running' \in BOOLEAN
      /\ exited' \subseteq Workers
  BY Zenon DEF WorkerExit, SetReservationsPaused, Close, StopRunning, workerVars, TypeOK
<1>4. ShutdownOrder'
  BY <1>2 DEF WorkerExit, SetReservationsPaused, Close, StopRunning, workerVars,
              ShutdownOrder
<1> QED BY <1>1, <1>3, <1>4, CountersKept, Zenon

(* Every other session step preserves the accounts and takes no slot. *)
LEMMA SessionStepInv ==
  ASSUME IInv, NEW s \in Sessions, SessionStep(s)
  PROVE  IInv' /\ Total' <= Total
PROOF
<1>1. CASE \E n \in LineSizes : DataLineAfterFull(s, n)
  BY <1>1, DataLineAfterFullInv, Zenon
<1>2. CASE \E n \in LineSizes : DataLineStored(s, n)
  BY <1>2, DataLineStoredInv, Zenon
<1>3. CASE FinishData(s)
  BY <1>3, FinishDataInv, Zenon
<1>4. octets \in [Sessions -> Nat]
  BY Zenon DEF IInv, TypeOK
<1>5. CASE (\E n \in LineSizes : DataLineTooLarge(s, n)) \/ RejectOverlongDataLine(s)
  <2>1. /\ ReleaseReservation(s) /\ mode' = [mode EXCEPT ![s] = "too_large"]
        /\ octets' = octets /\ UNCHANGED <<paused, closed, workerVars>>
    BY <1>5, Zenon DEF DataLineTooLarge, RejectOverlongDataLine, MarkTooLarge
  <2>2. "too_large" \in Modes \ {"data"}
    BY Zenon DEF Modes
  <2> QED BY <1>4, <2>1, <2>2, ReleaseKeepsInv, Zenon
<1>6. CASE \E n \in LineSizes : DataLineQueueFull(s, n)
  <2>1. PICK n \in LineSizes : DataLineQueueFull(s, n)
    BY <1>6, Zenon
  <2>2. /\ ReleaseReservation(s) /\ mode' = [mode EXCEPT ![s] = "queue_full"]
        /\ octets' = [octets EXCEPT ![s] = octets[s] + n]
        /\ UNCHANGED <<paused, closed, workerVars>>
    BY <2>1, Zenon DEF DataLineQueueFull
  <2>3. "queue_full" \in Modes \ {"data"}
    BY Zenon DEF Modes
  <2>4. octets[s] + n \in Nat
    BY <1>4, QueueConstants
  <2>5. /\ octets' \in [Sessions -> Nat]
        /\ \A r \in Sessions \ {s} : octets'[r] = octets[r]
    BY <1>4, <2>2, <2>4, Zenon
  <2> QED BY <2>2, <2>3, <2>5, ReleaseKeepsInv, Zenon
<1>7. CASE FinishRefused(s) \/ FinishAborted(s) \/ Disconnect(s)
  <2>1. /\ ReleaseReservation(s) /\ mode' = [mode EXCEPT ![s] = "command"]
        /\ octets' = [octets EXCEPT ![s] = 0]
        /\ UNCHANGED <<paused, closed, workerVars>>
    BY <1>7, Zenon DEF FinishRefused, FinishAborted, Disconnect, ClearTransaction
  <2>2. "command" \in Modes \ {"data"}
    BY Zenon DEF Modes
  <2>3. /\ octets' \in [Sessions -> Nat]
        /\ \A r \in Sessions \ {s} : octets'[r] = octets[r]
    BY <1>4, <2>1, Zenon
  <2> QED BY <2>1, <2>2, <2>3, ReleaseKeepsInv, Zenon
<1> QED BY <1>1, <1>2, <1>3, <1>5, <1>6, <1>7, Zenon DEF SessionStep

(* Every step preserves the accounts; while paused none adds a message. *)
LEMMA NextInv ==
  ASSUME IInv, Next
  PROVE  IInv' /\ (paused => Total' <= Total)
PROOF
<1>1. CASE \E s \in Sessions : DataCommand(s)
  BY <1>1, DataCommandInv, Zenon
<1>2. CASE \E s \in Sessions : SessionStep(s)
  BY <1>2, SessionStepInv, Zenon
<1>3. CASE \E w \in Workers : PopBatch(w)
  BY <1>3, PopBatchInv, Zenon
<1>4. CASE \E w \in Workers : CompleteBatch(w)
  BY <1>4, CompleteBatchInv, Zenon
<1>5. CASE \/ \E w \in Workers : WorkerExit(w)
           \/ \E p \in BOOLEAN : SetReservationsPaused(p)
           \/ Close \/ StopRunning
  BY <1>5, ShutdownStepInv, QueueConstants, Zenon
<1> QED BY <1>1, <1>2, <1>3, <1>4, <1>5, Zenon DEF Next

(* The invariant depends on the variables only. *)
LEMMA StutterInv ==
  ASSUME IInv, UNCHANGED vars
  PROVE  IInv'
PROOF
<1>1. UNCHANGED <<queueVars, sessionVars, batch>>
  BY Zenon DEF vars, workerVars
<1>2. /\ queue' = queue /\ batch' = batch /\ paused' = paused /\ closed' = closed
      /\ running' = running /\ exited' = exited
  BY Zenon DEF vars, queueVars, workerVars
<1>3. /\ paused' \in BOOLEAN /\ closed' \in BOOLEAN /\ running' \in BOOLEAN
      /\ exited' \subseteq Workers
  BY <1>2, Zenon DEF IInv, TypeOK
<1>4. ShutdownOrder'
  BY <1>2, Zenon DEF IInv, ShutdownOrder
<1> QED BY <1>1, <1>3, <1>4, CountersKept, Zenon

(* An empty queue satisfies the invariant. *)
LEMMA InitInv ==
  ASSUME Init
  PROVE  IInv
PROOF
<1>1. TypeOK
  <2>1. queue \in Seq(Nat) /\ batch \in [Workers -> Seq(Nat)]
    BY DEF Init
  <2>2. /\ queueBytes \in Nat /\ reservedMsgs \in Nat /\ reservedBytes \in Nat
        /\ inFlight \in Nat
        /\ grant \in [Sessions -> Nat] /\ octets \in [Sessions -> Nat]
    BY Zenon DEF Init
  <2>3. /\ paused \in BOOLEAN /\ closed \in BOOLEAN /\ running \in BOOLEAN
        /\ exited \subseteq Workers /\ holds \in [Sessions -> BOOLEAN]
        /\ mode \in [Sessions -> Modes]
    BY Zenon DEF Init, Modes
  <2> QED BY <2>1, <2>2, <2>3, Zenon DEF TypeOK
<1>2. WithinBudget
  BY QueueConstants DEF Init, WithinBudget, Total, TotalBytes
<1>3. SlotsAccounted
  <2>1. Holders = {}
    BY Zenon DEF Init, Holders
  <2> QED BY <2>1, FS_EmptySet, Zenon DEF Init, SlotsAccounted
<1>4. WorkAccounted
  <2>1. IsFiniteSet(Sessions) /\ IsFiniteSet(Workers)
    BY QueueConstants, Zenon
  <2>2. SumFunction(grant) = 0
    BY <2>1, SumZero, Zenon DEF Init
  <2>3. SumFunction(<<>>) = 0
    BY SeqSumEmpty, Zenon
  <2>4. [w \in Workers |-> SumFunction(batch[w])] = [w \in Workers |-> 0]
    BY <2>3, Zenon DEF Init
  <2>5. [w \in Workers |-> Len(batch[w])] = [w \in Workers |-> 0]
    BY Zenon DEF Init
  <2>6. SumFunction([w \in Workers |-> 0]) = 0
    BY <2>1, SumZero, Zenon
  <2> QED BY <2>2, <2>3, <2>4, <2>5, <2>6 DEF Init, WorkAccounted
<1>5. ReservationCovers
  BY Zenon DEF Init, ReservationCovers
<1>6. ShutdownOrder
  BY Zenon DEF Init, ShutdownOrder
<1> QED BY <1>1, <1>2, <1>3, <1>4, <1>5, <1>6, Zenon DEF IInv

(* The strengthened invariant holds in every reachable state, for any       *)
(* number of sessions and workers and any budgets.                          *)
THEOREM QueueInvariant == Spec => []IInv
PROOF
<1>1. Init => IInv
  BY InitInv, Zenon
<1>2. IInv /\ [Next]_vars => IInv'
  BY NextInv, StutterInv, Zenon
<1> QED BY <1>1, <1>2, PTL DEF Spec

(* Type correctness: in particular no counter of the queue ever wraps below *)
(* zero, which for the size_t counters of mail_queue.cpp is no small thing. *)
THEOREM QueueTypes == Spec => []TypeOK
PROOF
<1>1. IInv => TypeOK
  BY Zenon DEF IInv
<1> QED BY <1>1, QueueInvariant, PTL

(* The message and byte budgets of the queue are never exceeded.            *)
THEOREM BudgetHolds == Spec => []WithinBudget
PROOF
<1>1. IInv => WithinBudget
  BY Zenon DEF IInv
<1> QED BY <1>1, QueueInvariant, PTL

(* reserved_messages_ is the number of sessions that hold a reservation.    *)
THEOREM SlotsNeverLeak == Spec => []SlotsAccounted
PROOF
<1>1. IInv => SlotsAccounted
  BY Zenon DEF IInv
<1> QED BY <1>1, QueueInvariant, PTL

(* The byte and in-flight counters are the sums of what is held.            *)
THEOREM WorkNeverLeaks == Spec => []WorkAccounted
PROOF
<1>1. IInv => WorkAccounted
  BY Zenon DEF IInv
<1> QED BY <1>1, QueueInvariant, PTL

(* A session storing its body always owns enough of the budget for it.      *)
THEOREM BodyIsCovered == Spec => []ReservationCovers
PROOF
<1>1. IInv => ReservationCovers
  BY Zenon DEF IInv
<1> QED BY <1>1, QueueInvariant, PTL

(* stop_and_drain leaves no message behind in the queue or in a batch.      *)
THEOREM ShutdownStrandsNothing == Spec => []NothingStranded
PROOF
<1>1. IInv => NothingStranded
  BY QueueConstants, Zenon DEF IInv, ShutdownOrder, NothingStranded
<1> QED BY <1>1, QueueInvariant, PTL

(* While reservations stay paused the owned messages only drain.            *)
THEOREM PauseIsDrain == Spec => PauseOnlyDrains
PROOF
<1>1. IInv /\ [Next]_vars => [paused /\ paused' => Total' <= Total]_vars
  BY NextInv, Zenon
<1> QED BY <1>1, QueueInvariant, PTL DEF Spec, PauseOnlyDrains

-----------------------------------------------------------------------------
(* Bulk deletion. *)

RowOf == [msg : Messages, box : Boxes, gen : Nat, st : {"active", "deleted"}]
JobOf == [st : JobStates, cursor : Nat, max : Nat, gen : Nat, scope : SUBSET Messages]

Typed ==
  /\ IsFiniteSet(DOMAIN rows) /\ DOMAIN rows \subseteq Nat /\ 0 \notin DOMAIN rows
  /\ rows \in [DOMAIN rows -> RowOf]
  /\ DOMAIN gen \subseteq Boxes /\ gen \in [DOMAIN gen -> Nat]
  /\ count = [b \in DOMAIN gen |-> count[b]]
  /\ DOMAIN job \subseteq DOMAIN gen /\ job \in [DOMAIN job -> JobOf]

\* A delivery is of its mailbox's generation or an earlier one, a job of the
\* one before; a mailbox that was never emptied is in its first.
Generations ==
  /\ \A r \in DOMAIN rows : rows[r].box \in DOMAIN gen /\ rows[r].gen <= gen[rows[r].box]
  /\ \A b \in DOMAIN gen : IF b \in DOMAIN job THEN gen[b] = job[b].gen + 1 ELSE gen[b] = 0

\* The active deliveries of a job's mailbox that are not younger than the job.
Unswept(b, r) == rows[r].box = b /\ rows[r].st = "active" /\ rows[r].gen <= job[b].gen

Sweeping ==
  \A b \in DOMAIN job, r \in DOMAIN rows : Unswept(b, r) =>
    /\ rows[r].msg \in job[b].scope
    /\ rows[r].gen = job[b].gen
    /\ job[b].st # "succeeded" /\ job[b].cursor < r /\ r <= job[b].max

BulkInv == Typed /\ Generations /\ Sweeping /\ SummaryExact

-----------------------------------------------------------------------------
(* Least and largest elements, and the cut of a page. *)

\* A set of naturals that is not empty has a least element.
LEMMA Least ==
  ASSUME NEW S, S \subseteq Nat, S # {}
  PROVE  \E x \in S : \A y \in S : x <= y
<1>1. PICK x \in S : \A y \in S : ~(<<y, x>> \in OpToRel(<, Nat))
  BY WFMin, NatLessThanWellFounded, Zenon
<1>2. \A y \in S : ~(y < x)
  BY <1>1, Zenon DEF OpToRel
<1>3. x \in Nat /\ \A y \in S : y \in Nat
  BY Zenon
<1> QED BY <1>2, <1>3

\* A finite one has a largest, Max.
LEMMA Largest ==
  ASSUME NEW S, S \subseteq Nat, IsFiniteSet(S), S # {}
  PROVE  Max(S) \in S /\ \A y \in S : y <= Max(S)
<1> DEFINE Has(A) == \E x \in A : \A y \in A : x >= y
           T == {A \in SUBSET S : A = {} \/ Has(A)}
<1>1. ASSUME NEW A \in SUBSET S, \A B \in SUBSET A : B # A => B \in T
      PROVE  A \in T
  <2>1. CASE A = {}
    BY <2>1, Zenon
  <2>2. CASE A # {}
    <3>1. PICK a : a \in A /\ a \in Nat
      BY <2>2, Zenon
    <3>2. A \ {a} \in T
      BY <1>1, <3>1, Zenon
    <3>3. CASE A \ {a} = {}
      <4>1. \A y \in A : a >= y
        BY <3>1, <3>3
      <4> QED BY <3>1, <4>1, Zenon
    <3>4. CASE Has(A \ {a})
      <4>1. PICK x \in A \ {a} : \A y \in A \ {a} : x >= y
        BY <3>4, Zenon
      <4>2. x \in Nat /\ \A y \in A : y \in Nat
        BY <4>1, Zenon
      <4>3. CASE a <= x
        <5>1. \A y \in A : x >= y
          BY <3>1, <4>1, <4>2, <4>3
        <5> QED BY <4>1, <5>1, Zenon
      <4>4. CASE ~(a <= x)
        <5>1. \A y \in A : a >= y
          BY <3>1, <4>1, <4>2, <4>4
        <5> QED BY <3>1, <5>1, Zenon
      <4> QED BY <4>3, <4>4, Zenon
    <3> QED BY <3>2, <3>3, <3>4, Zenon
  <2> QED BY <2>1, <2>2, Zenon
<1> HIDE DEF T
<1>2. S \in T
  BY <1>1, SubsetInduction, Zenon
<1>3. \E x \in S : \A y \in S : x >= y
  BY <1>2, Zenon DEF T
<1>4. Max(S) \in S /\ \A y \in S : Max(S) >= y
  BY <1>3, Zenon DEF Max
<1> QED BY <1>4

\* The first n of a set of rowids: what is left out comes after all of them,
\* and only when there are n of them.
Cut(all, n) == {r \in all : Cardinality({q \in all : q < r}) < n}

\* A page cut off leaves only later rowids out, and then it is full.
LEMMA FirstN ==
  ASSUME NEW all \in SUBSET Nat, IsFiniteSet(all), NEW n \in Nat \ {0},
         NEW r \in all, r \notin Cut(all, n)
  PROVE  /\ Cut(all, n) # {} /\ \A p \in Cut(all, n) : p < r
         /\ IsFiniteSet(Cut(all, n)) /\ ~(Cardinality(Cut(all, n)) < n)
<1> DEFINE Below(x) == {q \in all : q < x}
           page == Cut(all, n)
<1>0. page \in SUBSET all /\ r \notin page
  BY Zenon DEF Cut
<1>1. \A x \in all : /\ x \in Nat /\ IsFiniteSet(Below(x)) /\ Cardinality(Below(x)) \in Nat
                     /\ x \in page <=> Cardinality(Below(x)) < n
  <2>1. \A x \in all : Below(x) \in SUBSET all
    BY Zenon
  <2>2. \A x \in all : x \in page <=> Cardinality(Below(x)) < n
    BY Zenon DEF Cut
  <2> HIDE DEF Below, page
  <2> QED BY <2>1, <2>2, FS_Subset, FS_CardinalityType, Zenon
<1> HIDE DEF page
<1>2. PICK m \in all : \A y \in all : m <= y
  BY Least, Zenon
<1>3. m \in page
  <2>1. Below(m) = {}
    <3>1. \A y \in all : ~(y < m)
      BY <1>2
    <3> QED BY <3>1, Zenon
  <2>2. Cardinality(Below(m)) = 0
    BY <2>1, FS_EmptySet, Zenon
  <2> QED BY <1>1, <1>2, <2>2
<1>4. ASSUME NEW p \in page
      PROVE  p < r
  <2>1. p \in all /\ p # r
    BY <1>0, <1>4, Zenon
  <2>2. SUFFICES ASSUME r < p
                 PROVE  FALSE
    BY <1>1, <2>1
  <2>3. Below(r) \in SUBSET Below(p)
    <3>1. \A y \in all : y < r => y < p
      BY <2>1, <2>2
    <3> QED BY <3>1, Zenon
  <2> HIDE DEF Below
  <2>4. Cardinality(Below(r)) <= Cardinality(Below(p))
    BY <1>1, <2>1, <2>3, FS_Subset, Zenon
  <2>5. Cardinality(Below(p)) < n /\ ~(Cardinality(Below(r)) < n)
    BY <1>0, <1>1, <2>1, Zenon
  <2> QED BY <1>1, <2>1, <2>4, <2>5
<1>5. PICK s \in all \ page : \A y \in all \ page : s <= y
  <2>1. all \ page \subseteq Nat /\ all \ page # {}
    BY <1>0, Zenon
  <2> QED BY <2>1, Least, Zenon
<1>6. IsFiniteSet(page)
  BY <1>0, FS_Subset, Zenon
<1>7. Cardinality(Below(s)) <= Cardinality(page)
  <2>1. Below(s) \in SUBSET page
    <3>1. \A y \in all : s <= y => ~(y < s)
      OBVIOUS
    <3> QED BY <1>5, <3>1, Zenon
  <2> HIDE DEF Below
  <2> QED BY <1>6, <2>1, FS_Subset, Zenon
<1>8. ~(Cardinality(Below(s)) < n) /\ Cardinality(Below(s)) \in Nat
  BY <1>1, <1>5, Zenon
<1>9. Cardinality(page) \in Nat
  BY <1>6, FS_CardinalityType, Zenon
<1> HIDE DEF Below
<1>10. ~(Cardinality(page) < n)
  BY <1>7, <1>8, <1>9
<1> QED BY <1>3, <1>4, <1>6, <1>10, Zenon DEF page

-----------------------------------------------------------------------------
(* The steps. *)

\* Steps of tasks and of the process that leave the database alone.
LEMMA ProcessStep ==
  ASSUME BulkInv, UNCHANGED <<rows, gen, count, job>>
  PROVE  BulkInv'
<1>1. Typed' /\ Generations'
  BY Zenon DEF BulkInv, Typed, Generations
<1>2. Sweeping'
  BY DEF BulkInv, Sweeping, Unswept
<1>3. SummaryExact'
  BY Zenon DEF BulkInv, SummaryExact, Incomplete, ActiveIn
<1> QED BY <1>1, <1>2, <1>3, Zenon DEF BulkInv

\* The fields of a delivery.
LEMMA RowFields ==
  ASSUME Typed, NEW r \in DOMAIN rows
  PROVE  /\ rows[r].msg \in Messages /\ rows[r].box \in Boxes /\ rows[r].gen \in Nat
         /\ rows[r].st \in {"active", "deleted"} /\ r \in Nat
BY DEF Typed, RowOf

\* The fields of a job.
LEMMA JobFields ==
  ASSUME Typed, NEW b \in DOMAIN job
  PROVE  /\ job[b].st \in JobStates /\ job[b].cursor \in Nat /\ job[b].max \in Nat
         /\ job[b].gen \in Nat /\ job[b].scope \subseteq Messages /\ b \in DOMAIN gen
BY DEF Typed, JobOf

\* Rows that go, and rows that are marked deleted.
Fewer ==
  /\ DOMAIN rows' \subseteq DOMAIN rows /\ rows' \in [DOMAIN rows' -> RowOf]
  /\ \A r \in DOMAIN rows' : /\ rows'[r].msg = rows[r].msg /\ rows'[r].box = rows[r].box
                             /\ rows'[r].gen = rows[r].gen
                             /\ rows'[r].st = "active" => rows[r].st = "active"

\* Deleting deliveries of one mailbox with its summary keeps the invariant.
LEMMA FewerKeeps ==
  ASSUME BulkInv, Fewer, UNCHANGED <<gen, job>>, NEW b \in DOMAIN gen,
         \A c \in DOMAIN gen \ {b} : \A r \in DOMAIN rows : rows[r].box = c =>
            r \in DOMAIN rows' /\ rows'[r].st = rows[r].st,
         count' = [count EXCEPT ![b] = Refreshed(rows', b)]
  PROVE  BulkInv'
<1>1. Typed /\ Generations /\ Sweeping /\ SummaryExact
  BY Zenon DEF BulkInv
<1>2. IsFiniteSet(DOMAIN rows') /\ DOMAIN rows' \subseteq Nat /\ 0 \notin DOMAIN rows'
  BY <1>1, FS_Subset, Zenon DEF Typed, Fewer
<1>3. /\ count' = [c \in DOMAIN gen |-> count'[c]] /\ count'[b] = Refreshed(rows', b)
      /\ \A c \in DOMAIN gen \ {b} : count'[c] = count[c]
  BY <1>1, Zenon DEF Typed
<1>4. Typed'
  BY <1>1, <1>2, <1>3, Zenon DEF Typed, Fewer
<1>5. Generations'
  BY <1>1, Zenon DEF Generations, Fewer
<1>6. Sweeping'
  <2> SUFFICES ASSUME NEW c \in DOMAIN job, NEW r \in DOMAIN rows', Unswept(c, r)'
               PROVE  /\ rows'[r].msg \in job[c].scope /\ rows'[r].gen = job[c].gen
                      /\ job[c].st # "succeeded" /\ job[c].cursor < r /\ r <= job[c].max
    BY Zenon DEF Sweeping
  <2>1. r \in DOMAIN rows /\ Unswept(c, r)
    BY Zenon DEF Unswept, Fewer
  <2>2. rows'[r].msg = rows[r].msg /\ rows'[r].gen = rows[r].gen
    BY Zenon DEF Fewer
  <2> QED BY <1>1, <2>1, <2>2, Zenon DEF Sweeping
<1>7. \A c \in DOMAIN gen \ {b} : ActiveIn(rows, c)' = ActiveIn(rows, c)
  BY <1>1, Zenon DEF ActiveIn, Fewer
<1>8. SummaryExact'
  <2> SUFFICES ASSUME NEW c \in DOMAIN gen, ~Incomplete(c)
               PROVE  count'[c] = Cardinality(ActiveIn(rows, c)')
    BY Zenon DEF SummaryExact, Incomplete
  <2>1. CASE c = b
    BY <1>3, <2>1, Zenon DEF Refreshed
  <2>2. CASE c # b
    BY <1>1, <1>3, <1>7, <2>2, Zenon DEF SummaryExact
  <2> QED BY <2>1, <2>2, Zenon
<1> QED BY <1>4, <1>5, <1>6, <1>8, Zenon DEF BulkInv

\* Retention or a single delete.
LEMMA ExpireStep ==
  ASSUME BulkInv, NEW r \in DOMAIN rows, Expire(r) \/ DeleteOne(r)
  PROVE  BulkInv'
<1>1. Typed /\ Generations /\ UNCHANGED <<gen, job>>
  BY Zenon DEF BulkInv, Expire, DeleteOne
<1>2. rows[r].box \in DOMAIN gen /\ count' = [count EXCEPT ![rows[r].box] = Refreshed(rows', rows[r].box)]
  BY <1>1, Zenon DEF Generations, Expire, DeleteOne
<1>3. /\ DOMAIN rows' \subseteq DOMAIN rows
      /\ \A q \in DOMAIN rows : q # r => q \in DOMAIN rows' /\ rows'[q] = rows[q]
      /\ r \in DOMAIN rows' => rows'[r] = [rows[r] EXCEPT !.st = "deleted"]
  <2>1. CASE Expire(r)
    BY <2>1 DEF Expire, Restrict
  <2>2. CASE DeleteOne(r)
    BY <1>1, <2>2 DEF DeleteOne, Typed
  <2> QED BY <2>1, <2>2, Zenon
<1>4. rows' = [q \in DOMAIN rows' |-> rows'[q]]
  BY <1>1 DEF Expire, DeleteOne, Restrict, Typed
<1>5. \A q \in DOMAIN rows' : /\ rows'[q] \in RowOf
                              /\ rows'[q].msg = rows[q].msg /\ rows'[q].box = rows[q].box
                              /\ rows'[q].gen = rows[q].gen
                              /\ rows'[q].st = "active" => rows[q].st = "active"
  <2>1. \A q \in DOMAIN rows : rows[q] \in RowOf
    BY <1>1, Zenon DEF Typed
  <2> QED BY <1>3, <2>1 DEF RowOf
<1>6. Fewer
  BY <1>3, <1>4, <1>5 DEF Fewer
<1>7. \A c \in DOMAIN gen \ {rows[r].box} : \A q \in DOMAIN rows : rows[q].box = c =>
         q \in DOMAIN rows' /\ rows'[q].st = rows[q].st
  BY <1>3, Zenon
<1> QED BY <1>1, <1>2, <1>6, <1>7, FewerKeeps, Zenon

\* The new row has a rowid that is not in use and is younger than every job.
LEMMA DeliverStep ==
  ASSUME BulkInv, NEW m \in Messages, NEW b \in Boxes, Deliver(m, b)
  PROVE  BulkInv'
<1> DEFINE all == {0} \cup DOMAIN rows
           r == Max(all) + 1
           new == [msg |-> m, box |-> b, gen |-> gen[b], st |-> "active"]
<1>1. Typed /\ Generations /\ Sweeping /\ SummaryExact
  BY Zenon DEF BulkInv
<1>2. /\ b \in DOMAIN gen /\ UNCHANGED <<gen, job>>
      /\ rows' = [q \in DOMAIN rows \cup {r} |-> IF q = r THEN new ELSE rows[q]]
      /\ count' = [count EXCEPT ![b] = @ + 1]
  BY Zenon DEF Deliver
<1>k. gen' = gen /\ job' = job
  BY Zenon DEF Deliver
<1>3. IsFiniteSet(all) /\ all \subseteq Nat /\ all # {}
  <2>1. IsFiniteSet({0})
    BY FS_Singleton, Zenon
  <2>2. IsFiniteSet(DOMAIN rows) /\ DOMAIN rows \subseteq Nat /\ 0 \in Nat
    BY <1>1 DEF Typed
  <2> QED BY <2>1, <2>2, FS_Union, Zenon
<1>4. r \in Nat /\ r # 0 /\ r \notin DOMAIN rows
  <2>1. Max(all) \in all /\ \A y \in all : y <= Max(all)
    BY <1>3, Largest, Zenon
  <2>2. Max(all) \in Nat /\ \A y \in DOMAIN rows : y \in Nat /\ y <= Max(all)
    BY <1>3, <2>1, Zenon
  <2>3. ASSUME NEW x \in Nat PROVE x + 1 \in Nat /\ x + 1 # 0 /\ \A y \in Nat : y <= x => y # x + 1
    OBVIOUS
  <2> QED BY <2>2, <2>3, Zenon
<1> HIDE DEF r
<1>5. gen[b] \in Nat /\ new \in RowOf
  BY <1>1, <1>2 DEF Typed, RowOf
<1>6. new.msg = m /\ new.box = b /\ new.gen = gen[b] /\ new.st = "active"
  OBVIOUS
<1> HIDE DEF new
<1>7. /\ DOMAIN rows' = DOMAIN rows \cup {r} /\ rows'[r] = new
      /\ \A q \in DOMAIN rows : rows'[q] = rows[q]
  BY <1>2, <1>4, Zenon
<1>8. Typed'
  <2>1. IsFiniteSet(DOMAIN rows') /\ DOMAIN rows' \subseteq Nat /\ 0 \notin DOMAIN rows'
    BY <1>1, <1>4, <1>7, FS_AddElement DEF Typed
  <2>2. \A q \in DOMAIN rows' : rows'[q] \in RowOf
    BY <1>1, <1>5, <1>7, Zenon DEF Typed
  <2>3. rows' = [q \in DOMAIN rows' |-> rows'[q]]
    BY <1>2, Zenon
  <2>4. rows' \in [DOMAIN rows' -> RowOf]
    BY <2>2, <2>3, Zenon
  <2>5. count' = [c \in DOMAIN gen |-> count'[c]]
    BY <1>1, <1>2, Zenon DEF Typed
  <2> QED BY <1>1, <1>2, <2>1, <2>4, <2>5, Zenon DEF Typed
<1>9. Generations'
  <2>1. gen[b] <= gen[b]
    BY <1>5
  <2>2. \A q \in DOMAIN rows' : rows'[q].box \in DOMAIN gen /\ rows'[q].gen <= gen[rows'[q].box]
    BY <1>1, <1>2, <1>6, <1>7, <2>1, Zenon DEF Generations
  <2> QED BY <1>1, <1>2, <2>2, Zenon DEF Generations
<1>10. Sweeping'
  <2> SUFFICES ASSUME NEW c \in DOMAIN job, NEW q \in DOMAIN rows', Unswept(c, q)'
               PROVE  /\ rows'[q].msg \in job[c].scope /\ rows'[q].gen = job[c].gen
                      /\ job[c].st # "succeeded" /\ job[c].cursor < q /\ q <= job[c].max
    BY <1>k, Zenon DEF Sweeping
  <2>1. CASE q = r
    <3>1. c = b /\ gen[b] <= job[b].gen
      BY <1>2, <1>6, <1>7, <2>1, Zenon DEF Unswept
    <3>2. gen[b] = job[b].gen + 1
      BY <1>1, <1>2, <3>1, Zenon DEF Generations
    <3>3. job[b].gen \in Nat
      BY <1>1, <3>1, JobFields, Zenon
    <3> QED BY <3>1, <3>2, <3>3
  <2>2. CASE q # r
    <3>1. q \in DOMAIN rows /\ rows'[q] = rows[q]
      BY <1>7, <2>2, Zenon
    <3>2. Unswept(c, q)
      BY <1>2, <3>1, Zenon DEF Unswept
    <3> QED BY <1>1, <3>1, <3>2, Zenon DEF Sweeping
  <2> QED BY <2>1, <2>2, Zenon
<1>11. SummaryExact'
  <2> SUFFICES ASSUME NEW c \in DOMAIN gen, ~Incomplete(c)
               PROVE  count'[c] = Cardinality(ActiveIn(rows, c)')
    BY <1>2, Zenon DEF SummaryExact, Incomplete
  <2>1. count[c] = Cardinality(ActiveIn(rows, c))
    BY <1>1, Zenon DEF SummaryExact
  <2>2. CASE c = b
    <3>1. ActiveIn(rows, b)' = ActiveIn(rows, b) \cup {r} /\ r \notin ActiveIn(rows, b)
      BY <1>4, <1>6, <1>7, Zenon DEF ActiveIn
    <3>2. IsFiniteSet(ActiveIn(rows, b))
      BY <1>1, FS_Subset, Zenon DEF Typed, ActiveIn
    <3>3. Cardinality(ActiveIn(rows, b)') = Cardinality(ActiveIn(rows, b)) + 1
      BY <3>1, <3>2, FS_AddElement, Zenon
    <3>4. count'[b] = count[b] + 1
      BY <1>1, <1>2, Zenon DEF Typed
    <3> QED BY <2>1, <2>2, <3>3, <3>4, Zenon
  <2>3. CASE c # b
    <3>1. ActiveIn(rows, c)' = ActiveIn(rows, c)
      BY <1>6, <1>7, <2>3, Zenon DEF ActiveIn
    <3>2. count'[c] = count[c]
      BY <1>1, <1>2, <2>3, Zenon DEF Typed
    <3> QED BY <2>1, <3>1, <3>2, Zenon
  <2> QED BY <2>2, <2>3, Zenon
<1> QED BY <1>8, <1>9, <1>10, <1>11, Zenon DEF BulkInv

\* A new job covers every active delivery of its mailbox: none is left over
\* from an earlier generation, because the job of that one succeeded.
LEMMA RequestStep ==
  ASSUME BulkInv, NEW b \in Boxes, Request(b)
  PROVE  BulkInv'
<1>1. Typed /\ Generations /\ Sweeping /\ SummaryExact /\ b \in DOMAIN gen /\ gen[b] \in Nat
  BY Zenon DEF BulkInv, Request, Typed
<1>2. rows' = rows /\ count' = count
  BY Zenon DEF Request
<1>3. CASE Incomplete(b)
  BY <1>2, <1>3, ProcessStep, Zenon DEF Request
<1>4. CASE ~Incomplete(b)
  <2> DEFINE act == ActiveIn(rows, b)
             in == {r \in act : rows[r].gen = gen[b]}
             top == Max({0} \cup in)
             J == FreshJob(b)
  <2>1. /\ job' = [c \in DOMAIN job \cup {b} |-> IF c = b THEN J ELSE job[c]]
        /\ gen' = [gen EXCEPT ![b] = gen[b] + 1]
    BY <1>4, Zenon DEF Request
  <2>2. \A r \in act : r \in DOMAIN rows /\ rows[r].box = b /\ rows[r].st = "active"
    BY Zenon DEF ActiveIn
  <2>3. top \in Nat /\ \A r \in in : r <= top
    <3>1. IsFiniteSet(in) /\ in \subseteq Nat
      BY <1>1, <2>2, FS_Subset, Zenon DEF Typed
    <3>2. IsFiniteSet({0}) /\ 0 \in Nat
      BY FS_Singleton
    <3>3. IsFiniteSet({0} \cup in) /\ {0} \cup in \subseteq Nat /\ {0} \cup in # {}
      BY <3>1, <3>2, FS_Union, Zenon
    <3> HIDE DEF in
    <3>4. top \in {0} \cup in /\ \A y \in {0} \cup in : y <= top
      BY <3>3, Largest, Zenon
    <3> QED BY <3>3, <3>4, Zenon
  <2>4. \A r \in act : rows[r].gen = gen[b]
    <3> SUFFICES ASSUME NEW r \in act PROVE rows[r].gen = gen[b]
      OBVIOUS
    <3>1. rows[r].gen \in Nat /\ rows[r].gen <= gen[b]
      BY <1>1, <2>2, RowFields, Zenon DEF Generations
    <3>2. CASE b \in DOMAIN job
      <4>1. job[b].st = "succeeded" /\ gen[b] = job[b].gen + 1
        BY <1>1, <1>4, <3>2, Zenon DEF Incomplete, Generations
      <4>2. ~(rows[r].gen <= job[b].gen)
        BY <1>1, <2>2, <3>2, <4>1, Zenon DEF Sweeping, Unswept
      <4>3. job[b].gen \in Nat
        BY <1>1, <3>2, JobFields, Zenon
      <4> QED BY <3>1, <4>1, <4>2, <4>3
    <3>3. CASE b \notin DOMAIN job
      <4>1. gen[b] = 0
        BY <1>1, <3>3, Zenon DEF Generations
      <4> QED BY <3>1, <4>1
    <3> QED BY <3>2, <3>3, Zenon
  <2>5. /\ J.st = "pending" /\ J.cursor = 0 /\ J.max = top /\ J.gen = gen[b]
        /\ J.scope = {rows[r].msg : r \in act}
    BY DEF FreshJob
  <2>6. J \in JobOf
    <3>1. {rows[r].msg : r \in act} \in SUBSET Messages
      BY <1>1, <2>2, RowFields, Zenon
    <3>2. J = [st |-> "pending", cursor |-> 0, max |-> top, gen |-> gen[b], scope |-> {rows[r].msg : r \in act}]
      BY Zenon DEF FreshJob
    <3> HIDE DEF top, J, act
    <3> QED BY <1>1, <2>3, <3>1, <3>2 DEF JobOf, JobStates
  <2> HIDE DEF J
  <2>7. /\ DOMAIN job' = DOMAIN job \cup {b} /\ job'[b] = J /\ DOMAIN gen' = DOMAIN gen
        /\ gen'[b] = gen[b] + 1
        /\ \A c \in DOMAIN job : c # b => job'[c] = job[c]
        /\ \A c \in DOMAIN gen : c # b => gen'[c] = gen[c]
    BY <1>1, <2>1, Zenon DEF Typed
  <2>8. Typed'
    <3>1. gen[b] + 1 \in Nat
      BY <1>1
    <3>2. job' = [c \in DOMAIN job' |-> job'[c]] /\ \A c \in DOMAIN job' : job'[c] \in JobOf
      BY <1>1, <2>1, <2>6, Zenon DEF Typed
    <3>3. job' \in [DOMAIN job' -> JobOf]
      BY <3>2, Zenon
    <3>4. gen' \in [DOMAIN gen' -> Nat]
      BY <1>1, <2>1, <3>1, Zenon DEF Typed
    <3>5. DOMAIN job' \subseteq DOMAIN gen'
      BY <1>1, <2>7, Zenon DEF Typed
    <3> QED BY <1>1, <1>2, <2>7, <3>3, <3>4, <3>5, Zenon DEF Typed
  <2>9. Generations'
    <3>1. \A r \in DOMAIN rows : rows[r].box \in DOMAIN gen' /\ rows[r].gen <= gen'[rows[r].box]
      <4> SUFFICES ASSUME NEW r \in DOMAIN rows
                   PROVE  rows[r].box \in DOMAIN gen' /\ rows[r].gen <= gen'[rows[r].box]
        OBVIOUS
      <4>1. rows[r].gen \in Nat /\ rows[r].box \in DOMAIN gen /\ rows[r].gen <= gen[rows[r].box]
        BY <1>1, RowFields, Zenon DEF Generations
      <4>2. CASE rows[r].box = b
        <5>1. gen'[rows[r].box] = gen[rows[r].box] + 1 /\ gen[rows[r].box] \in Nat
          BY <1>1, <2>7, <4>2, Zenon
        <5>2. rows[r].box \in DOMAIN gen'
          BY <2>7, <4>1, Zenon
        <5> QED BY <4>1, <5>1, <5>2
      <4>3. CASE rows[r].box # b
        BY <2>7, <4>1, <4>3, Zenon
      <4> QED BY <4>2, <4>3, Zenon
    <3>2. \A c \in DOMAIN gen : c # b => (c \in DOMAIN job' <=> c \in DOMAIN job)
      BY <2>7, Zenon
    <3>3. \A c \in DOMAIN gen : IF c \in DOMAIN job' THEN gen'[c] = job'[c].gen + 1 ELSE gen'[c] = 0
      BY <1>1, <2>5, <2>7, <3>2, Zenon DEF Generations
    <3> QED BY <1>2, <2>7, <3>1, <3>3, Zenon DEF Generations
  <2>10. Sweeping'
    <3> SUFFICES ASSUME NEW c \in DOMAIN job', NEW r \in DOMAIN rows, Unswept(c, r)'
                 PROVE  /\ rows[r].msg \in job'[c].scope /\ rows[r].gen = job'[c].gen
                        /\ job'[c].st # "succeeded" /\ job'[c].cursor < r /\ r <= job'[c].max
      BY <1>2, Zenon DEF Sweeping
    <3>1. CASE c = b
      <4>1. r \in act
        BY <1>2, <3>1, Zenon DEF Unswept, ActiveIn
      <4>2. r \in in /\ rows[r].gen = gen[b]
        BY <2>4, <4>1, Zenon
      <4>3. 0 < r
        BY <1>1 DEF Typed
      <4>4. r <= top
        BY <2>3, <4>2, Zenon
      <4>5. rows[r].msg \in J.scope
        BY <2>5, <4>1, Zenon
      <4>6. J.st # "succeeded"
        BY <2>5
      <4>7. job'[c] = J
        BY <2>7, <3>1, Zenon
      <4> QED BY <2>5, <4>2, <4>3, <4>4, <4>5, <4>6, <4>7, Zenon
    <3>2. CASE c # b
      <4>1. c \in DOMAIN job /\ job'[c] = job[c]
        BY <2>7, <3>2, Zenon
      <4>2. Unswept(c, r)
        BY <1>2, <4>1, Zenon DEF Unswept
      <4> QED BY <1>1, <4>1, <4>2, Zenon DEF Sweeping
    <3> QED BY <3>1, <3>2, Zenon
  <2>11. SummaryExact'
    <3> SUFFICES ASSUME NEW c \in DOMAIN gen, ~Incomplete(c)'
                 PROVE  count[c] = Cardinality(ActiveIn(rows, c))
      BY <1>2, <2>7, Zenon DEF SummaryExact, ActiveIn
    <3>1. c # b
      <4>1. J.st # "succeeded"
        BY <2>5
      <4> QED BY <2>7, <4>1, Zenon DEF Incomplete
    <3>2. ~Incomplete(c)
      BY <2>7, <3>1, Zenon DEF Incomplete
    <3> QED BY <1>1, <3>2, Zenon DEF SummaryExact
  <2> QED BY <2>8, <2>9, <2>10, <2>11, Zenon DEF BulkInv
<1> QED BY <1>3, <1>4, Zenon

\* A page takes the lowest unswept rowids.  What it leaves lies behind it, and
\* then the page was full and its end short of the frozen rowid: it is not
\* taken for the last one.
LEMMA PageStep ==
  ASSUME BulkInv, NEW b \in Boxes, RunPage(b)
  PROVE  BulkInv'
<1> DEFINE all == {r \in DOMAIN rows : InPage(b, r)}
           page == Page(b)
           next == IF page = {} THEN job[b].max ELSE Max(page)
           last == LastPage(page, next, b)
           state == IF last THEN "succeeded" ELSE "running"
<1>1. Typed /\ Generations /\ Sweeping /\ SummaryExact /\ Incomplete(b) /\ b \in DOMAIN job
  BY Zenon DEF BulkInv, RunPage, Incomplete
<1>2. /\ rows' = [r \in DOMAIN rows |-> IF r \in page THEN [rows[r] EXCEPT !.st = "deleted"] ELSE rows[r]]
      /\ count' = IF last THEN SummaryAfter(rows', b) ELSE count
      /\ job' = [job EXCEPT ![b].cursor = next, ![b].st = state]
  BY Zenon DEF RunPage
<1>3. gen' = gen
  BY Zenon DEF RunPage
<1>4. page = {r \in all : Cardinality({q \in all : q < r}) < PageSize} /\ page \subseteq all
  BY Zenon DEF Page
<1>5. all \subseteq Nat /\ IsFiniteSet(all) /\ PageSize \in Nat \ {0}
  BY <1>1, FS_Subset, BulkDeleteAssumption, Zenon DEF Typed
<1>6. IsFiniteSet(page) /\ page \subseteq Nat
  BY <1>4, <1>5, FS_Subset, Zenon
<1>7. /\ job[b].st \in JobStates /\ job[b].cursor \in Nat /\ job[b].max \in Nat
      /\ job[b].gen \in Nat /\ job[b].scope \subseteq Messages /\ b \in DOMAIN gen
  BY <1>1, JobFields, Zenon
<1>8. \A r \in page : r \in DOMAIN rows /\ rows[r].box = b
  BY <1>4, Zenon DEF InPage
<1> HIDE DEF page
<1>9. next \in Nat
  BY <1>6, <1>7, Largest, Zenon
<1>10. page # {} => next \in page
  BY <1>6, Largest, Zenon
<1> HIDE DEF next
<1>11. last <=> Cardinality(page) < PageSize \/ next >= job[b].max
  BY Zenon DEF LastPage
<1> HIDE DEF last
<1>12. state \in JobStates /\ (last <=> state = "succeeded")
  BY DEF JobStates
<1> HIDE DEF state
<1>13. /\ DOMAIN job' = DOMAIN job
       /\ \A c \in DOMAIN job : c # b => job'[c] = job[c]
       /\ job'[b] \in JobOf /\ job'[b].st = state /\ job'[b].cursor = next
       /\ job'[b].max = job[b].max /\ job'[b].gen = job[b].gen /\ job'[b].scope = job[b].scope
       /\ job' = [c \in DOMAIN job |-> job'[c]]
  <2>1. job \in [DOMAIN job -> JobOf] /\ job[b] \in JobOf
    BY <1>1, Zenon DEF Typed
  <2> QED BY <1>1, <1>2, <1>9, <1>12, <2>1 DEF JobOf
<1>14. /\ DOMAIN rows' = DOMAIN rows
       /\ \A r \in DOMAIN rows : /\ rows'[r] \in RowOf /\ rows'[r].msg = rows[r].msg
                                 /\ rows'[r].box = rows[r].box /\ rows'[r].gen = rows[r].gen
       /\ \A r \in DOMAIN rows : r \in page => rows'[r].st = "deleted"
       /\ \A r \in DOMAIN rows : r \notin page => rows'[r] = rows[r]
       /\ rows' = [r \in DOMAIN rows |-> rows'[r]]
  <2>1. \A r \in DOMAIN rows : rows[r] \in RowOf
    BY <1>1, Zenon DEF Typed
  <2> QED BY <1>2, <2>1 DEF RowOf
<1>15. Typed'
  <2>1. rows' \in [DOMAIN rows' -> RowOf]
    BY <1>14, Zenon
  <2>2. \A c \in DOMAIN job : job'[c] \in JobOf
    BY <1>1, <1>13, Zenon DEF Typed
  <2>3. job' \in [DOMAIN job' -> JobOf]
    BY <1>13, <2>2, Zenon
  <2>4. count' = [c \in DOMAIN gen |-> count'[c]]
    BY <1>1, <1>2, Zenon DEF Typed, SummaryAfter
  <2> QED BY <1>1, <1>3, <1>13, <1>14, <2>1, <2>3, <2>4, Zenon DEF Typed
<1>16. Generations'
  <2>1. \A c \in DOMAIN job : job'[c].gen = job[c].gen
    BY <1>13, Zenon
  <2> QED BY <1>1, <1>3, <1>13, <1>14, <2>1, Zenon DEF Generations
<1>17. Sweeping'
  <2> SUFFICES ASSUME NEW c \in DOMAIN job, NEW r \in DOMAIN rows, Unswept(c, r)'
               PROVE  /\ rows'[r].msg \in job'[c].scope /\ rows'[r].gen = job'[c].gen
                      /\ job'[c].st # "succeeded" /\ job'[c].cursor < r /\ r <= job'[c].max
    BY <1>13, <1>14, Zenon DEF Sweeping
  <2>1. r \notin page /\ rows'[r] = rows[r]
    <3>1. rows'[r].st # "deleted"
      BY DEF Unswept
    <3> QED BY <1>14, <3>1, Zenon
  <2>2. Unswept(c, r)
    <3>1. job'[c].gen = job[c].gen
      BY <1>13, Zenon
    <3> QED BY <2>1, <3>1, Zenon DEF Unswept
  <2>3. /\ rows[r].msg \in job[c].scope /\ rows[r].gen = job[c].gen
        /\ job[c].st # "succeeded" /\ job[c].cursor < r /\ r <= job[c].max
    BY <1>1, <2>2, Zenon DEF Sweeping
  <2>4. CASE c = b
    <3>1. r \in all
      BY <2>2, <2>3, <2>4, Zenon DEF InPage, Unswept
    <3> HIDE DEF all
    <3>2. page # {} /\ (\A p \in page : p < r) /\ ~(Cardinality(page) < PageSize)
      <4>1. page = Cut(all, PageSize)
        BY <1>4, Zenon DEF Cut
      <4>2. r \notin Cut(all, PageSize)
        BY <2>1, <4>1, Zenon
      <4>3. all \in SUBSET Nat /\ IsFiniteSet(all)
        BY <1>5, Zenon
      <4>4. Cut(all, PageSize) # {} /\ (\A p \in Cut(all, PageSize) : p < r)
            /\ ~(Cardinality(Cut(all, PageSize)) < PageSize)
        BY <1>5, <3>1, <4>2, <4>3, FirstN, Zenon
      <4> QED BY <4>1, <4>4, Zenon
    <3>3. next < r
      BY <1>10, <3>2, Zenon
    <3>4. r \in Nat /\ r <= job[b].max
      BY <1>5, <2>3, <2>4, <3>1, Zenon
    <3>5. ~(next >= job[b].max)
      <4>1. next \in Nat /\ job[b].max \in Nat
        BY <1>7, <1>9, Zenon
      <4> QED BY <3>3, <3>4, <4>1
    <3>6. state # "succeeded"
      BY <1>11, <1>12, <3>2, <3>5, Zenon
    <3> QED BY <1>13, <2>1, <2>3, <2>4, <3>3, <3>6, Zenon
  <2>5. CASE c # b
    <3>1. job'[c] = job[c]
      BY <1>13, <2>5, Zenon
    <3> QED BY <2>1, <2>3, <3>1, Zenon
  <2> QED BY <2>4, <2>5, Zenon
<1>18. SummaryExact'
  <2> SUFFICES ASSUME NEW c \in DOMAIN gen, ~Incomplete(c)'
               PROVE  count'[c] = Cardinality(ActiveIn(rows, c)')
    BY <1>3, Zenon DEF SummaryExact
  <2>1. CASE c = b
    <3>1. last
      BY <1>1, <1>12, <1>13, <2>1, Zenon DEF Incomplete
    <3> QED BY <1>1, <1>2, <2>1, <3>1, Zenon DEF SummaryAfter, Refreshed, Typed
  <2>2. CASE c # b
    <3>1. ~Incomplete(c)
      BY <1>13, <2>2, Zenon DEF Incomplete
    <3>2. count'[c] = count[c]
      BY <1>1, <1>2, <2>2, Zenon DEF SummaryAfter, Typed
    <3>3. \A r \in DOMAIN rows : rows[r].box = c => rows'[r] = rows[r]
      BY <1>8, <1>14, <2>2, Zenon
    <3>4. ActiveIn(rows, c)' = ActiveIn(rows, c)
      BY <1>14, <3>3, Zenon DEF ActiveIn
    <3> QED BY <1>1, <3>1, <3>2, <3>4, Zenon DEF SummaryExact
  <2> QED BY <2>1, <2>2, Zenon
<1> QED BY <1>15, <1>16, <1>17, <1>18, Zenon DEF BulkInv

\* A page fails, whether or not that is recorded: the job stays unfinished.
LEMMA FailStep ==
  ASSUME BulkInv, NEW b \in Boxes, FailPage(b)
  PROVE  BulkInv'
<1>1. UNCHANGED <<rows, gen, count>>
  BY Zenon DEF FailPage
<1>2. CASE job' = job
  BY <1>1, <1>2, ProcessStep, Zenon
<1>3. CASE Incomplete(b) /\ job' = [job EXCEPT ![b].st = "failed"]
  <2>1. Typed /\ Generations /\ Sweeping /\ SummaryExact /\ b \in DOMAIN job
    BY <1>3, Zenon DEF BulkInv, Incomplete
  <2>2. job[b] \in JobOf
    BY <2>1, Zenon DEF Typed
  <2>3. /\ DOMAIN job' = DOMAIN job /\ job' = [c \in DOMAIN job |-> job'[c]]
        /\ \A c \in DOMAIN job : c # b => job'[c] = job[c]
        /\ job'[b] = [job[b] EXCEPT !.st = "failed"]
    BY <1>3, <2>1, Zenon DEF Typed
  <2>4. /\ job'[b] \in JobOf /\ job'[b].st = "failed" /\ job'[b].cursor = job[b].cursor
        /\ job'[b].max = job[b].max /\ job'[b].gen = job[b].gen /\ job'[b].scope = job[b].scope
    BY <2>2, <2>3 DEF JobOf, JobStates
  <2>5. \A c \in DOMAIN job : /\ job'[c] \in JobOf /\ job'[c].cursor = job[c].cursor
                              /\ job'[c].max = job[c].max /\ job'[c].gen = job[c].gen
                              /\ job'[c].scope = job[c].scope
                              /\ job'[c].st = "succeeded" <=> job[c].st = "succeeded"
    <3>1. job[b].st # "succeeded" /\ job'[b].st # "succeeded"
      BY <1>3, <2>4 DEF Incomplete
    <3> QED BY <2>1, <2>3, <2>4, <3>1, Zenon DEF Typed
  <2>6. Typed'
    <3>1. job' \in [DOMAIN job' -> JobOf]
      BY <2>3, <2>5, Zenon
    <3> QED BY <1>1, <2>1, <2>3, <3>1, Zenon DEF Typed
  <2>7. Generations'
    BY <1>1, <2>1, <2>3, <2>5, Zenon DEF Generations
  <2>8. Sweeping'
    <3> SUFFICES ASSUME NEW c \in DOMAIN job, NEW r \in DOMAIN rows, Unswept(c, r)'
                 PROVE  /\ rows[r].msg \in job'[c].scope /\ rows[r].gen = job'[c].gen
                        /\ job'[c].st # "succeeded" /\ job'[c].cursor < r /\ r <= job'[c].max
      BY <1>1, <2>3, Zenon DEF Sweeping
    <3>1. Unswept(c, r)
      BY <1>1, <2>5, Zenon DEF Unswept
    <3>2. /\ rows[r].msg \in job[c].scope /\ rows[r].gen = job[c].gen
          /\ job[c].st # "succeeded" /\ job[c].cursor < r /\ r <= job[c].max
      BY <2>1, <3>1, Zenon DEF Sweeping
    <3> QED BY <2>5, <3>2, Zenon
  <2>9. SummaryExact'
    <3>1. \A c \in DOMAIN gen : ~Incomplete(c)' => ~Incomplete(c)
      BY <2>3, <2>5, Zenon DEF Incomplete
    <3> QED BY <1>1, <2>1, <3>1, Zenon DEF SummaryExact, ActiveIn
  <2> QED BY <2>6, <2>7, <2>8, <2>9, Zenon DEF BulkInv
<1> QED BY <1>2, <1>3, Zenon DEF FailPage

\* A delivery that a merge moves or revives gets the target's generation, which
\* no job of the target reaches; the source's job goes with the source.
LEMMA MergeStep ==
  ASSUME BulkInv, NEW s \in Boxes, NEW t \in Boxes, Merge(s, t)
  PROVE  BulkInv'
<1> DEFINE twin(r) == {q \in DOMAIN rows : rows[q].box = s /\ rows[q].msg = rows[r].msg}
           dups == {r \in DOMAIN rows : rows[r].box = s /\
                      \E q \in DOMAIN rows : rows[q].box = t /\ rows[q].msg = rows[r].msg}
           revived(r) == IF \E q \in twin(r) : rows[q].st = "active" THEN "active" ELSE rows[r].st
           kept(r) == [rows[r] EXCEPT !.gen = gen[t], !.st = revived(r)]
<1>1. Typed /\ Generations /\ Sweeping /\ SummaryExact
  BY Zenon DEF BulkInv
<1>2. s # t /\ s \in DOMAIN gen /\ t \in DOMAIN gen
  BY Zenon DEF Merge
<1>3. rows' = [r \in DOMAIN rows \ dups |->
                 IF rows[r].box = s THEN Moved(r, s, t)
                 ELSE IF rows[r].box = t /\ twin(r) # {} THEN kept(r) ELSE rows[r]]
  BY Zenon DEF Merge
<1>4. /\ gen' = Restrict(gen, DOMAIN gen \ {s}) /\ job' = Restrict(job, DOMAIN job \ {s})
      /\ count' = [Restrict(count, DOMAIN count \ {s}) EXCEPT ![t] = Refreshed(rows', t)]
  BY Zenon DEF Merge
<1>5. gen[t] \in Nat /\ \A r \in DOMAIN rows : rows[r] \in RowOf
  BY <1>1, <1>2, Zenon DEF Typed
<1>6. \A r \in DOMAIN rows : revived(r) \in {"active", "deleted"}
  BY <1>5 DEF RowOf
<1>7. \A r \in dups : r \in DOMAIN rows /\ rows[r].box = s
  BY Zenon
<1> HIDE DEF dups, revived, twin
<1>8. \A r \in DOMAIN rows : /\ kept(r) \in RowOf /\ kept(r).box = rows[r].box /\ kept(r).gen = gen[t]
                             /\ Moved(r, s, t) \in RowOf /\ Moved(r, s, t).box = t
                             /\ Moved(r, s, t).gen = gen[t]
  BY <1>5, <1>6, Zenon DEF Moved, RowOf
<1> HIDE DEF kept
<1>9. /\ DOMAIN rows' = DOMAIN rows \ dups
      /\ rows' = [r \in DOMAIN rows' |-> rows'[r]]
      /\ \A r \in DOMAIN rows' :
           /\ rows'[r] \in RowOf
           /\ \/ rows'[r] = rows[r] /\ rows[r].box # s
              \/ rows'[r].box = t /\ rows'[r].gen = gen[t] /\ rows[r].box \in {s, t}
  BY <1>3, <1>5, <1>8, Zenon
<1>10. /\ DOMAIN gen' = DOMAIN gen \ {s} /\ gen' = [c \in DOMAIN gen' |-> gen'[c]]
       /\ \A c \in DOMAIN gen' : gen'[c] = gen[c]
       /\ DOMAIN job' = DOMAIN job \ {s} /\ job' = [c \in DOMAIN job' |-> job'[c]]
       /\ \A c \in DOMAIN job' : job'[c] = job[c]
  BY <1>4, Zenon DEF Restrict
<1>11. DOMAIN count = DOMAIN gen
  BY <1>1, Zenon DEF Typed
<1>12. /\ count' = [c \in DOMAIN gen' |-> count'[c]] /\ count'[t] = Refreshed(rows', t)
       /\ \A c \in DOMAIN gen' : c # t => count'[c] = count[c]
  BY <1>2, <1>4, <1>10, <1>11, Zenon DEF Restrict
<1>13. Typed'
  <2>1. DOMAIN rows' \in SUBSET DOMAIN rows
    BY <1>9, Zenon
  <2>2. IsFiniteSet(DOMAIN rows') /\ DOMAIN rows' \subseteq Nat /\ 0 \notin DOMAIN rows'
    BY <1>1, <2>1, FS_Subset, Zenon DEF Typed
  <2>3. rows' \in [DOMAIN rows' -> RowOf]
    BY <1>9, Zenon
  <2>4. \A c \in DOMAIN gen' : gen'[c] \in Nat
    BY <1>1, <1>10, Zenon DEF Typed
  <2>5. gen' \in [DOMAIN gen' -> Nat]
    BY <1>10, <2>4, Zenon
  <2>6. \A c \in DOMAIN job' : job'[c] \in JobOf
    BY <1>1, <1>10, Zenon DEF Typed
  <2>7. job' \in [DOMAIN job' -> JobOf]
    BY <1>10, <2>6, Zenon
  <2>8. DOMAIN gen' \subseteq Boxes /\ DOMAIN job' \subseteq DOMAIN gen'
    BY <1>1, <1>10, Zenon DEF Typed
  <2> QED BY <1>12, <2>2, <2>3, <2>5, <2>7, <2>8, Zenon DEF Typed
<1>14. Generations'
  <2>1. gen[t] <= gen[t] /\ t \in DOMAIN gen'
    BY <1>2, <1>5, <1>10
  <2>2. \A r \in DOMAIN rows' : rows'[r].box \in DOMAIN gen' /\ rows'[r].gen <= gen'[rows'[r].box]
    <3> SUFFICES ASSUME NEW r \in DOMAIN rows'
                 PROVE  rows'[r].box \in DOMAIN gen' /\ rows'[r].gen <= gen'[rows'[r].box]
      BY Zenon
    <3>1. CASE rows'[r] = rows[r] /\ rows[r].box # s
      <4>1. r \in DOMAIN rows
        BY <1>9, Zenon
      <4>2. rows[r].box \in DOMAIN gen /\ rows[r].gen <= gen[rows[r].box]
        BY <1>1, <4>1, Zenon DEF Generations
      <4>3. rows[r].box \in DOMAIN gen' /\ gen'[rows[r].box] = gen[rows[r].box]
        BY <1>10, <3>1, <4>2, Zenon
      <4> QED BY <3>1, <4>2, <4>3, Zenon
    <3>2. CASE rows'[r].box = t /\ rows'[r].gen = gen[t]
      BY <1>10, <2>1, <3>2, Zenon
    <3> QED BY <1>9, <3>1, <3>2, Zenon
  <2>3. \A c \in DOMAIN gen' : IF c \in DOMAIN job' THEN gen'[c] = job'[c].gen + 1 ELSE gen'[c] = 0
    BY <1>1, <1>10, Zenon DEF Generations
  <2> QED BY <2>2, <2>3, Zenon DEF Generations
<1>15. Sweeping'
  <2> SUFFICES ASSUME NEW c \in DOMAIN job', NEW r \in DOMAIN rows', Unswept(c, r)'
               PROVE  /\ rows'[r].msg \in job'[c].scope /\ rows'[r].gen = job'[c].gen
                      /\ job'[c].st # "succeeded" /\ job'[c].cursor < r /\ r <= job'[c].max
    BY Zenon DEF Sweeping
  <2>1. c \in DOMAIN job /\ job'[c] = job[c] /\ r \in DOMAIN rows
    BY <1>9, <1>10, Zenon
  <2>2. CASE rows'[r] = rows[r]
    <3>1. Unswept(c, r)
      BY <2>1, <2>2, Zenon DEF Unswept
    <3> QED BY <1>1, <2>1, <2>2, <3>1, Zenon DEF Sweeping
  <2>3. CASE rows'[r].box = t /\ rows'[r].gen = gen[t]
    <3>1. c = t /\ gen[t] <= job[t].gen
      BY <2>1, <2>3, Zenon DEF Unswept
    <3>2. gen[t] = job[t].gen + 1
      BY <1>1, <1>2, <2>1, <3>1, Zenon DEF Generations
    <3>3. job[t].gen \in Nat
      BY <1>1, <2>1, <3>1, JobFields, Zenon
    <3> QED BY <3>1, <3>2, <3>3
  <2> QED BY <1>9, <2>2, <2>3, Zenon
<1>16. SummaryExact'
  <2> SUFFICES ASSUME NEW c \in DOMAIN gen', ~Incomplete(c)'
               PROVE  count'[c] = Cardinality(ActiveIn(rows, c)')
    BY Zenon DEF SummaryExact
  <2>1. CASE c = t
    BY <1>12, <2>1, Zenon DEF Refreshed
  <2>2. CASE c # t
    <3>1. c \in DOMAIN gen /\ c # s /\ count'[c] = count[c]
      BY <1>10, <1>12, <2>2, Zenon
    <3>2. ~Incomplete(c)
      BY <1>10, <3>1, Zenon DEF Incomplete
    <3>3. /\ \A r \in DOMAIN rows : rows[r].box = c => r \in DOMAIN rows' /\ rows'[r] = rows[r]
          /\ \A r \in DOMAIN rows' : rows'[r].box = c => r \in DOMAIN rows /\ rows'[r] = rows[r]
      <4>1. \A r \in DOMAIN rows : rows[r].box = c => r \in DOMAIN rows'
        BY <1>7, <1>9, <3>1, Zenon
      <4>2. \A r \in DOMAIN rows' : rows[r].box = c => rows'[r] = rows[r]
        BY <1>9, <2>2, <3>1, Zenon
      <4>3. \A r \in DOMAIN rows' : rows'[r].box = c => r \in DOMAIN rows /\ rows'[r] = rows[r]
        BY <1>9, <2>2, Zenon
      <4> QED BY <4>1, <4>2, <4>3, Zenon
    <3>4. ActiveIn(rows, c)' = ActiveIn(rows, c)
      BY <3>3, Zenon DEF ActiveIn
    <3> QED BY <1>1, <3>1, <3>2, <3>4, Zenon DEF SummaryExact
  <2> QED BY <2>1, <2>2, Zenon
<1> QED BY <1>13, <1>14, <1>15, <1>16, Zenon DEF BulkInv

-----------------------------------------------------------------------------
(* The theorems. *)

\* No delivery and no job.
LEMMA BulkInitInv == BulkInit => BulkInv
<1> SUFFICES ASSUME BulkInit PROVE BulkInv
  OBVIOUS
<1>1. DOMAIN rows = {} /\ DOMAIN job = {} /\ DOMAIN gen = Boxes /\ DOMAIN count = Boxes
  BY DEF BulkInit
<1>2. \A b \in Boxes : gen[b] = 0 /\ count[b] = 0
  BY DEF BulkInit
<1>3. Typed
  <2>1. IsFiniteSet(DOMAIN rows)
    BY <1>1, FS_EmptySet, Zenon
  <2>2. rows \in [DOMAIN rows -> RowOf] /\ job \in [DOMAIN job -> JobOf]
    BY DEF BulkInit
  <2>3. gen \in [DOMAIN gen -> Nat] /\ count = [b \in DOMAIN gen |-> count[b]]
    BY DEF BulkInit
  <2> QED BY <1>1, <2>1, <2>2, <2>3, Zenon DEF Typed
<1>4. Generations /\ Sweeping
  BY <1>1, <1>2, Zenon DEF Generations, Sweeping
<1>5. SummaryExact
  <2>1. \A b : ActiveIn(rows, b) = {}
    BY <1>1, Zenon DEF ActiveIn
  <2> QED BY <1>1, <1>2, <2>1, FS_EmptySet, Zenon DEF SummaryExact
<1> QED BY <1>3, <1>4, <1>5, Zenon DEF BulkInv

\* Every step keeps the invariant.
LEMMA BulkNextInv == BulkInv /\ [BulkNext]_bulkVars => BulkInv'
<1> SUFFICES ASSUME BulkInv, [BulkNext]_bulkVars PROVE BulkInv'
  OBVIOUS
<1>1. ASSUME NEW b \in Boxes, NEW m \in Messages, Deliver(m, b) PROVE BulkInv'
  BY <1>1, DeliverStep, Zenon
<1>2. ASSUME NEW b \in Boxes, Request(b) PROVE BulkInv'
  BY <1>2, RequestStep, Zenon
<1>3. ASSUME NEW b \in Boxes, RunPage(b) PROVE BulkInv'
  BY <1>3, PageStep, Zenon
<1>4. ASSUME NEW b \in Boxes, FailPage(b) PROVE BulkInv'
  BY <1>4, FailStep, Zenon
<1>5. ASSUME NEW b \in Boxes, PauseTask(b) \/ EndTask(b) \/ ResumeNext(b) PROVE BulkInv'
  <2>1. UNCHANGED <<rows, gen, count, job>>
    BY <1>5, Zenon DEF PauseTask, EndTask, ResumeNext
  <2> QED BY <2>1, ProcessStep, Zenon
<1>6. ASSUME NEW b \in Boxes, NEW t \in Boxes, Merge(b, t) PROVE BulkInv'
  BY <1>6, MergeStep, Zenon
<1>7. ASSUME NEW r \in DOMAIN rows, Expire(r) \/ DeleteOne(r) PROVE BulkInv'
  BY <1>7, ExpireStep, Zenon
<1>8. CASE Stop \/ Stopped \/ Crash \/ Start \/ Started \/ bulkVars' = bulkVars
  <2>1. UNCHANGED <<rows, gen, count, job>>
    BY <1>8 DEF Stop, Stopped, Crash, Start, Started, bulkVars
  <2> QED BY <2>1, ProcessStep, Zenon
<1>9. CASE BulkNext
  BY <1>1, <1>2, <1>3, <1>4, <1>5, <1>6, <1>7, <1>8, <1>9, Zenon DEF BulkNext
<1> QED BY <1>8, <1>9, Zenon

(* In every state the deliveries of a job's generation or an older one are    *)
(* those its request covered, and lie ahead of its cursor until it succeeds.   *)
THEOREM BulkInvariant == BulkSpec => []BulkInv
BY BulkInitInv, BulkNextInv, PTL DEF BulkSpec

(* _process_bulk_delete_job_batch records a job as succeeded only when no     *)
(* delivery that its request covered is active, whatever failed, crashed, was *)
(* retried, expired or was merged in between, for any page size.               *)
THEOREM ScopeSweptAlways == BulkSpec => []ScopeSwept
<1>1. BulkInv => ScopeSwept
  <2> SUFFICES ASSUME BulkInv, NEW b \in DOMAIN job, job[b].st = "succeeded", NEW r \in ActiveIn(rows, b)
               PROVE  rows[r].gen > job[b].gen
    BY Zenon DEF ScopeSwept
  <2>1. Typed /\ Sweeping /\ r \in DOMAIN rows /\ rows[r].box = b /\ rows[r].st = "active"
    BY Zenon DEF BulkInv, ActiveIn
  <2>2. ~(rows[r].gen <= job[b].gen)
    BY <2>1, Zenon DEF Sweeping, Unswept
  <2>3. rows[r].gen \in Nat
    BY <2>1, RowFields, Zenon
  <2>4. job[b].gen \in Nat
    BY <2>1, JobFields, Zenon
  <2> QED BY <2>2, <2>3, <2>4
<1> QED BY <1>1, BulkInvariant, PTL

(* message_count, which deliveries count up, single deletes, retention and     *)
(* merges recompute and a bulk delete recomputes only with its last page, is    *)
(* exact in every state in which no job of the mailbox is incomplete.           *)
THEOREM SummaryExactAlways == BulkSpec => []SummaryExact
<1>1. BulkInv => SummaryExact
  BY Zenon DEF BulkInv
<1> QED BY <1>1, BulkInvariant, PTL

(* A page of a job never deletes a delivery that its request did not cover:     *)
(* not mail that came later, under a reused rowid or not, and not a delivery    *)
(* that promote_mailbox_ownership moved in.                                     *)
THEOREM NewMailSparedAlways == BulkSpec => NewMailSpared
<1> DEFINE Spared == \A r \in DOMAIN rows \cap DOMAIN rows' :
                       /\ job' # job
                       /\ rows[r].st = "active" /\ rows'[r].st = "deleted"
                       => rows[r].msg \in job[rows[r].box].scope
<1>1. BulkInv /\ [BulkNext]_bulkVars => [Spared]_bulkVars
  <2> SUFFICES ASSUME BulkInv, BulkNext, NEW r \in DOMAIN rows, r \in DOMAIN rows',
                      job' # job, rows[r].st = "active", rows'[r].st = "deleted"
               PROVE  rows[r].msg \in job[rows[r].box].scope
    BY Zenon
  <2>0. Typed /\ Sweeping /\ "active" # "deleted"
    BY DEF BulkInv
  <2>1. ASSUME NEW b \in Boxes, RunPage(b)
        PROVE  rows[r].msg \in job[rows[r].box].scope
    <3>1. b \in DOMAIN job /\ r \in Page(b)
      BY <2>0, <2>1, Zenon DEF RunPage, Incomplete
    <3>2. InPage(b, r)
      BY <3>1, Zenon DEF Page
    <3>3. job[b].gen \in Nat
      BY <2>0, <3>1, JobFields, Zenon
    <3>4. job[b].gen <= job[b].gen
      BY <3>3
    <3> QED BY <2>0, <3>1, <3>2, <3>4, Zenon DEF Sweeping, Unswept, InPage
  <2>2. ASSUME NEW b \in Boxes, Request(b) \/ FailPage(b)
        PROVE  FALSE
    <3>1. rows' = rows
      BY <2>2, Zenon DEF Request, FailPage
    <3> QED BY <2>0, <3>1, Zenon
  <2>3. ASSUME NEW b \in Boxes, NEW t \in Boxes, Merge(b, t)
        PROVE  FALSE
    <3> DEFINE twin == {q \in DOMAIN rows : rows[q].box = b /\ rows[q].msg = rows[r].msg}
               revived == IF \E q \in twin : rows[q].st = "active" THEN "active" ELSE rows[r].st
               kept == [rows[r] EXCEPT !.gen = gen[t], !.st = revived]
    <3>1. rows[r] \in RowOf /\ revived = "active"
      BY <2>0, Zenon DEF Typed
    <3>2. rows'[r] = Moved(r, b, t) \/ rows'[r] = kept \/ rows'[r] = rows[r]
      BY <2>3, Zenon DEF Merge
    <3> HIDE DEF revived
    <3>3. kept.st = "active" /\ Moved(r, b, t).st = rows[r].st
      BY <3>1 DEF Moved, RowOf
    <3> QED BY <2>0, <3>2, <3>3, Zenon
  <2>4. ASSUME NEW b \in Boxes, (\E m \in Messages : Deliver(m, b)) \/ PauseTask(b) \/ EndTask(b) \/ ResumeNext(b)
        PROVE  job' = job
    BY <2>4, Zenon DEF Deliver, PauseTask, EndTask, ResumeNext
  <2>5. ASSUME NEW q \in DOMAIN rows, Expire(q) \/ DeleteOne(q)
        PROVE  job' = job
    BY <2>5, Zenon DEF Expire, DeleteOne
  <2>6. CASE Stop \/ Stopped \/ Crash \/ Start \/ Started
    BY <2>6, Zenon DEF Stop, Stopped, Crash, Start, Started
  <2> QED BY <2>1, <2>2, <2>3, <2>4, <2>5, <2>6, Zenon DEF BulkNext
<1> QED BY <1>1, BulkInvariant, PTL DEF BulkSpec, NewMailSpared
=============================================================================

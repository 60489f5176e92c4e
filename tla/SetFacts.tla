------------------------------ MODULE SetFacts ------------------------------
(***************************************************************************)
(* Finite sets: induction over subsets, least and greatest elements, sums, *)
(* sorted rows.  The induction theorems of the library take an operator,   *)
(* which the provers cannot instantiate; here the induction hypothesis is  *)
(* a set, the subsets that have the property, and follows from the         *)
(* well-foundedness of strict inclusion.                                   *)
(***************************************************************************)
EXTENDS Integers, Functions, Ordering, FiniteSetTheorems, WellFoundedInduction, TLAPS

\* If P holds of a subset of S whenever it holds of all that are smaller, it holds of S.
LEMMA SubsetInduction ==
  ASSUME NEW S, IsFiniteSet(S), NEW P,
         \A A \in SUBSET S : (\A B \in SUBSET A : B # A => B \in P) => A \in P
  PROVE  \A A \in SUBSET S : A \in P
<1> DEFINE T == (SUBSET S) \ P
<1>1. SUFFICES ASSUME T # {}
               PROVE  FALSE
  OBVIOUS
<1>2. T \subseteq FiniteSubsetsOf(S)
  BY FS_FiniteSubsetsOfFinite
<1>3. IsWellFoundedOn(StrictSubsetOrdering(S), FiniteSubsetsOf(S))
  BY FS_StrictSubsetOrderingWellFounded
<1>4. PICK A \in T : \A B \in T : ~ (<<B, A>> \in StrictSubsetOrdering(S))
  <2> HIDE DEF T
  <2> QED
    BY <1>1, <1>2, <1>3, WFMin
<1>5. ASSUME NEW B \in SUBSET A, B # A
      PROVE  B \in P
  <2>1. A \in SUBSET S /\ B \in SUBSET S
    OBVIOUS
  <2>2. <<B, A>> \in StrictSubsetOrdering(S)
    BY <1>5, <2>1 DEF StrictSubsetOrdering
  <2> QED
    BY <1>4, <2>1, <2>2
<1> QED
  BY <1>4, <1>5

\* A non-empty finite set of integers has a least element and a greatest.
LEMMA LeastAndGreatest ==
  ASSUME NEW S, IsFiniteSet(S), S \subseteq Int, S # {}
  PROVE  /\ \E m \in S : \A n \in S : m <= n
         /\ \E m \in S : \A n \in S : m >= n
<1> DEFINE P == {A \in SUBSET S : A = {} \/ /\ \E m \in A : \A n \in A : m <= n
                                            /\ \E m \in A : \A n \in A : m >= n}
<1>1. ASSUME NEW A \in SUBSET S, \A B \in SUBSET A : B # A => B \in P, A # {}
      PROVE  A \in P
  <2>1. PICK x \in A : TRUE
    BY <1>1
  <2> DEFINE B == A \ {x}
  <2>2. B \in P /\ x \in Int /\ A = B \cup {x} /\ A \subseteq Int
    <3>1. B \in SUBSET A /\ B # A
      BY <2>1
    <3>2. B \in P
      BY <1>1, <3>1
    <3> QED
      BY <2>1, <3>2
  <2>3. CASE B = {}
    <3>1. A = {x}
      BY <2>2, <2>3
    <3> QED
      BY <2>2, <3>1
  <2>4. CASE B # {}
    <3>1. PICK l \in B, g \in B : (\A n \in B : l <= n) /\ (\A n \in B : g >= n)
      BY <2>2, <2>4
    <3>2. l \in Int /\ g \in Int /\ l \in A /\ g \in A
      BY <2>2, <3>1
    <3>3. \E m \in A : \A n \in A : m <= n
      <4>1. CASE l <= x
        BY <2>2, <3>1, <3>2, <4>1
      <4>2. CASE ~(l <= x)
        <5>1. \A n \in A : x <= n
          BY <2>2, <3>1, <3>2, <4>2
        <5> QED
          BY <5>1, <2>1
      <4> QED
        BY <4>1, <4>2
    <3>4. \E m \in A : \A n \in A : m >= n
      <4>1. CASE g >= x
        BY <2>2, <3>1, <3>2, <4>1
      <4>2. CASE ~(g >= x)
        <5>1. \A n \in A : x >= n
          BY <2>2, <3>1, <3>2, <4>2
        <5> QED
          BY <5>1, <2>1
      <4> QED
        BY <4>1, <4>2
    <3> QED
      BY <3>3, <3>4
  <2> QED
    BY <2>3, <2>4
<1>2. \A A \in SUBSET S : A \in P
  <2>1. \A A \in SUBSET S : (\A B \in SUBSET A : B # A => B \in P) => A \in P
    BY <1>1
  <2> HIDE DEF P
  <2> QED
    BY <2>1, SubsetInduction
<1>3. S \in P
  BY <1>2
<1> QED
  BY <1>3

-----------------------------------------------------------------------------
(* Sums.                                                                   *)

Pick(A) == CHOOSE x \in A : TRUE

\* What the recursive function of SumFunctionOnSet is.
Sums(f, T, it) ==
  it = [A \in SUBSET T |-> IF A = {} THEN 0 ELSE f[Pick(A)] + it[A \ {Pick(A)}]]

\* Two of them agree where both are defined.
LEMMA SumsAgree ==
  ASSUME NEW f, NEW S, NEW T, IsFiniteSet(S), S \subseteq T,
         NEW it, Sums(f, S, it), NEW jt, Sums(f, T, jt)
  PROVE  \A A \in SUBSET S : it[A] = jt[A]
<1> DEFINE P == {A \in SUBSET S : it[A] = jt[A]}
<1>1. ASSUME NEW A \in SUBSET S, \A B \in SUBSET A : B # A => B \in P
      PROVE  A \in P
  <2>1. /\ it[A] = (IF A = {} THEN 0 ELSE f[Pick(A)] + it[A \ {Pick(A)}])
        /\ jt[A] = (IF A = {} THEN 0 ELSE f[Pick(A)] + jt[A \ {Pick(A)}])
    <3>1. A \in SUBSET T
      OBVIOUS
    <3> QED
      BY <3>1 DEF Sums
  <2>2. A # {} => Pick(A) \in A
    BY DEF Pick
  <2>3. A # {} => it[A \ {Pick(A)}] = jt[A \ {Pick(A)}]
    BY <1>1, <2>2
  <2> QED
    BY <2>1, <2>3
<1>2. \A A \in SUBSET S : (\A B \in SUBSET A : B # A => B \in P) => A \in P
  BY <1>1
<1> HIDE DEF P
<1>3. \A A \in SUBSET S : A \in P
  BY <1>2, SubsetInduction
<1> QED
  BY <1>3 DEF P

\* There is one.
LEMMA SumsExist ==
  ASSUME NEW f, NEW T, IsFiniteSet(T)
  PROVE  \E it : Sums(f, T, it)
<1> DEFINE P == {A \in SUBSET T : \E it : Sums(f, A, it)}
           It(A) == CHOOSE it : Sums(f, A, it)
<1>1. ASSUME NEW A \in SUBSET T, \A B \in SUBSET A : B # A => B \in P
      PROVE  A \in P
  <2> DEFINE Rest(B) == B \ {Pick(B)}
             W == [B \in SUBSET A |-> IF B = {} THEN 0 ELSE f[Pick(B)] + It(Rest(B))[Rest(B)]]
  <2>1. ASSUME NEW B \in SUBSET A, B # {}
        PROVE  W[Rest(B)] = It(Rest(B))[Rest(B)]
    <3> DEFINE C == Rest(B)
    <3>1. Pick(B) \in B /\ C \in SUBSET A /\ C # A
      BY <2>1 DEF Pick
    <3>2. Sums(f, C, It(C))
      BY <1>1, <3>1
    <3>3. It(C)[C] = IF C = {} THEN 0 ELSE f[Pick(C)] + It(C)[Rest(C)]
      BY <3>2 DEF Sums
    <3>4. W[C] = IF C = {} THEN 0 ELSE f[Pick(C)] + It(Rest(C))[Rest(C)]
      BY <3>1
    <3>5. CASE C # {}
      <4>1. Rest(C) \in SUBSET C /\ Rest(C) # A /\ Rest(C) \in SUBSET A
        BY <3>1
      <4>2. Sums(f, Rest(C), It(Rest(C)))
        BY <1>1, <4>1
      <4>3. IsFiniteSet(Rest(C))
        BY <4>1, FS_Subset
      <4>4. It(Rest(C))[Rest(C)] = It(C)[Rest(C)]
        <5> HIDE DEF It, Rest, C
        <5> QED
          BY <3>2, <4>1, <4>2, <4>3, SumsAgree
      <4> QED
        BY <3>3, <3>4, <3>5, <4>4
    <3> QED
      BY <3>3, <3>4, <3>5
  <2>2. W = [B \in SUBSET A |-> IF B = {} THEN 0 ELSE f[Pick(B)] + W[Rest(B)]]
    <3> HIDE DEF It
    <3> QED
      BY <2>1
  <2>3. Sums(f, A, W)
    <3> HIDE DEF W
    <3> QED
      BY <2>2 DEF Sums
  <2> QED
    BY <2>3
<1>2. \A A \in SUBSET T : (\A B \in SUBSET A : B # A => B \in P) => A \in P
  BY <1>1
<1> HIDE DEF P
<1>3. \A A \in SUBSET T : A \in P
  BY <1>2, SubsetInduction
<1>4. T \in P
  BY <1>3
<1> QED
  BY <1>4 DEF P

LEMMA SumRecursion ==
  ASSUME NEW f, NEW T, IsFiniteSet(T)
  PROVE  SumFunctionOnSet(f, T)
           = IF T = {} THEN 0 ELSE f[Pick(T)] + SumFunctionOnSet(f, T \ {Pick(T)})
<1> DEFINE It(A) == CHOOSE it : Sums(f, A, it)
           U == T \ {Pick(T)}
<1>1. SumFunctionOnSet(f, T) = It(T)[T] /\ SumFunctionOnSet(f, U) = It(U)[U]
  BY DEF SumFunctionOnSet, FoldFunctionOnSet, MapThenFoldSet, Sums, Pick
<1>2. IsFiniteSet(U) /\ U \subseteq T
  BY FS_Subset
<1>3. Sums(f, T, It(T)) /\ Sums(f, U, It(U))
  BY <1>2, SumsExist
<1>4. It(T)[T] = IF T = {} THEN 0 ELSE f[Pick(T)] + It(T)[U]
  BY <1>3 DEF Sums
<1>5. It(T)[U] = It(U)[U]
  <2> HIDE DEF It, U
  <2> QED
    BY <1>2, <1>3, SumsAgree
<1> QED
  BY <1>1, <1>4, <1>5

LEMMA SumIsInt ==
  ASSUME NEW f, NEW T, IsFiniteSet(T), \A x \in T : f[x] \in Int
  PROVE  SumFunctionOnSet(f, T) \in Int
<1> DEFINE P == {A \in SUBSET T : SumFunctionOnSet(f, A) \in Int}
<1>1. ASSUME NEW A \in SUBSET T, \A B \in SUBSET A : B # A => B \in P
      PROVE  A \in P
  <2>1. IsFiniteSet(A)
    BY FS_Subset
  <2>2. A # {} => Pick(A) \in A
    BY DEF Pick
  <2>3. A # {} => SumFunctionOnSet(f, A \ {Pick(A)}) \in Int
    BY <1>1, <2>2
  <2> QED
    BY <2>1, <2>2, <2>3, SumRecursion
<1>2. \A A \in SUBSET T : (\A B \in SUBSET A : B # A => B \in P) => A \in P
  BY <1>1
<1> HIDE DEF P
<1>3. T \in P
  BY <1>2, SubsetInduction
<1> QED
  BY <1>3 DEF P

\* A term can be taken out wherever it stands.
LEMMA SumRemove ==
  ASSUME NEW f, NEW T, IsFiniteSet(T), \A x \in T : f[x] \in Int, NEW x \in T
  PROVE  SumFunctionOnSet(f, T) = f[x] + SumFunctionOnSet(f, T \ {x})
<1> DEFINE S(A) == SumFunctionOnSet(f, A)
           P == {A \in SUBSET T : \A y \in A : S(A) = f[y] + S(A \ {y})}
<1>1. ASSUME NEW A \in SUBSET T, \A B \in SUBSET A : B # A => B \in P
      PROVE  A \in P
  <2> SUFFICES ASSUME NEW y \in A
               PROVE  S(A) = f[y] + S(A \ {y})
    OBVIOUS
  <2> DEFINE c == Pick(A)
  <2>1. c \in A /\ f[c] \in Int /\ f[y] \in Int
    BY DEF Pick
  <2>2. \A B \in SUBSET T : IsFiniteSet(B) /\ S(B) \in Int
    <3>1. ASSUME NEW B \in SUBSET T
          PROVE  IsFiniteSet(B) /\ S(B) \in Int
      BY FS_Subset, SumIsInt
    <3> QED
      BY <3>1
  <2>3. S(A) = f[c] + S(A \ {c})
    BY <2>1, <2>2, SumRecursion
  <2>4. CASE y = c
    BY <2>3, <2>4
  <2>5. CASE y # c
    <3> DEFINE B == A \ {c}
               C == A \ {y}
    <3>1. B \in P /\ C \in P /\ y \in B /\ c \in C /\ B \ {y} = C \ {c}
      <4>1. B \in SUBSET A /\ B # A /\ C \in SUBSET A /\ C # A
        BY <2>1
      <4>2. B \in P /\ C \in P
        BY <1>1, <4>1
      <4> QED
        BY <2>1, <2>5, <4>2
    <3>2. S(B) = f[y] + S(B \ {y}) /\ S(C) = f[c] + S(C \ {c})
      BY <3>1
    <3>3. S(B) \in Int /\ S(C) \in Int /\ S(B \ {y}) \in Int
      BY <2>2
    <3> HIDE DEF S, c, B, C
    <3>4. S(A) = f[c] + S(B) /\ S(B \ {y}) = S(C \ {c})
      BY <2>3, <3>1 DEF B
    <3>5. S(A) = f[y] + S(C)
      BY <3>2, <3>3, <3>4, <2>1
    <3> QED
      BY <3>5 DEF C
  <2> QED
    BY <2>4, <2>5
<1>2. \A A \in SUBSET T : (\A B \in SUBSET A : B # A => B \in P) => A \in P
  BY <1>1
<1>3. T \in P
  <2> HIDE DEF P
  <2> QED
    BY <1>2, SubsetInduction
<1> QED
  BY <1>3

\* Terms that are no greater add up to no more.
LEMMA SumAtMost ==
  ASSUME NEW f, NEW g, NEW T, IsFiniteSet(T),
         \A x \in T : f[x] \in Int /\ g[x] \in Int /\ f[x] <= g[x]
  PROVE  SumFunctionOnSet(f, T) <= SumFunctionOnSet(g, T)
<1> DEFINE P == {A \in SUBSET T : SumFunctionOnSet(f, A) <= SumFunctionOnSet(g, A)}
<1>1. ASSUME NEW A \in SUBSET T, \A B \in SUBSET A : B # A => B \in P
      PROVE  A \in P
  <2>1. IsFiniteSet(A) /\ IsFiniteSet(A \ {Pick(A)})
    BY FS_Subset
  <2>2. A # {} => Pick(A) \in A
    BY DEF Pick
  <2>3. A # {} => A \ {Pick(A)} \in P
    BY <1>1, <2>2
  <2>4. /\ SumFunctionOnSet(f, A \ {Pick(A)}) \in Int
        /\ SumFunctionOnSet(g, A \ {Pick(A)}) \in Int
    BY <2>1, SumIsInt
  <2>5. A # {} => /\ SumFunctionOnSet(f, A) = f[Pick(A)] + SumFunctionOnSet(f, A \ {Pick(A)})
                  /\ SumFunctionOnSet(g, A) = g[Pick(A)] + SumFunctionOnSet(g, A \ {Pick(A)})
    BY <2>1, SumRecursion
  <2>6. A = {} => SumFunctionOnSet(f, A) = 0 /\ SumFunctionOnSet(g, A) = 0
    BY <2>1, SumRecursion
  <2>7. A # {} => f[Pick(A)] \in Int /\ g[Pick(A)] \in Int /\ f[Pick(A)] <= g[Pick(A)]
    BY <2>2
  <2> QED
    BY <2>3, <2>4, <2>5, <2>6, <2>7
<1>2. \A A \in SUBSET T : (\A B \in SUBSET A : B # A => B \in P) => A \in P
  BY <1>1
<1> HIDE DEF P
<1>3. T \in P
  BY <1>2, SubsetInduction
<1> QED
  BY <1>3 DEF P

LEMMA SumSame ==
  ASSUME NEW f, NEW g, NEW T, IsFiniteSet(T), \A x \in T : f[x] \in Int /\ f[x] = g[x]
  PROVE  SumFunctionOnSet(f, T) = SumFunctionOnSet(g, T)
<1>1. SumFunctionOnSet(f, T) <= SumFunctionOnSet(g, T)
  BY SumAtMost
<1>2. SumFunctionOnSet(g, T) <= SumFunctionOnSet(f, T)
  BY SumAtMost
<1>3. SumFunctionOnSet(f, T) \in Int /\ SumFunctionOnSet(g, T) \in Int
  BY SumIsInt
<1> QED
  BY <1>1, <1>2, <1>3

LEMMA SumUnion ==
  ASSUME NEW f, NEW S, NEW T, IsFiniteSet(S), IsFiniteSet(T), S \cap T = {},
         \A x \in S \cup T : f[x] \in Int
  PROVE  SumFunctionOnSet(f, S \cup T) = SumFunctionOnSet(f, S) + SumFunctionOnSet(f, T)
<1> DEFINE Sum(A) == SumFunctionOnSet(f, A)
           P == {A \in SUBSET S : Sum(A \cup T) = Sum(A) + Sum(T)}
<1>1. ASSUME NEW A \in SUBSET S, \A B \in SUBSET A : B # A => B \in P
      PROVE  A \in P
  <2>1. IsFiniteSet(A) /\ IsFiniteSet(A \cup T)
    BY FS_Subset, FS_Union
  <2>2. Sum(T) \in Int
    BY SumIsInt
  <2>3. CASE A = {}
    <3>1. Sum({}) = 0
      BY SumRecursion, FS_EmptySet
    <3> HIDE DEF Sum
    <3> QED
      BY <2>2, <2>3, <3>1
  <2>4. CASE A # {}
    <3>1. PICK x \in A : TRUE
      BY <2>4
    <3> DEFINE B == A \ {x}
    <3>2. B \in P
      BY <1>1, <3>1
    <3>3. Sum(A) = f[x] + Sum(B)
      BY <2>1, SumRemove
    <3>4. Sum(A \cup T) = f[x] + Sum((A \cup T) \ {x})
      BY <2>1, SumRemove
    <3>5. (A \cup T) \ {x} = B \cup T
      OBVIOUS
    <3>6. Sum(B) \in Int /\ f[x] \in Int
      BY FS_Subset, SumIsInt
    <3>7. Sum(B \cup T) = Sum(B) + Sum(T)
      BY <3>2
    <3>8. Sum(A \cup T) = f[x] + Sum(B \cup T)
      BY <3>4, <3>5
    <3> HIDE DEF Sum, B, P
    <3>9. Sum(A \cup T) = Sum(A) + Sum(T)
      BY <2>2, <3>3, <3>6, <3>7, <3>8
    <3> USE DEF P
    <3> QED
      BY <3>9
  <2> QED
    BY <2>3, <2>4
<1>2. \A A \in SUBSET S : (\A B \in SUBSET A : B # A => B \in P) => A \in P
  BY <1>1
<1>3. S \in P
  <2> HIDE DEF P
  <2> QED
    BY <1>2, SubsetInduction
<1> QED
  BY <1>3

-----------------------------------------------------------------------------
(* Sorting.                                                                *)

Preceding(S, R, x) == {y \in S : <<y, x>> \in R}

\* A strict order that compares every two rows gives each place its row.
LEMMA EveryPlaceIsTaken ==
  ASSUME NEW S, IsFiniteSet(S), NEW R,
         \A x, y \in S : x # y => <<x, y>> \in R \/ <<y, x>> \in R,
         \A x, y \in S : <<x, y>> \in R => <<y, x>> \notin R,
         \A x, y, z \in S : <<x, y>> \in R /\ <<y, z>> \in R => <<x, z>> \in R
  PROVE  /\ \A k \in 1..Cardinality(S) : \E x \in S : Cardinality(Preceding(S, R, x)) = k - 1
         /\ \A x, y \in S :
              <<x, y>> \in R <=> Cardinality(Preceding(S, R, x)) < Cardinality(Preceding(S, R, y))
         /\ \A x \in S : /\ Cardinality(Preceding(S, R, x)) \in Nat
                          /\ Cardinality(Preceding(S, R, x)) + 1 \in 1..Cardinality(S)
<1> DEFINE Below(x) == Preceding(S, R, x)
           n == Cardinality(S)
           place == [x \in S |-> Cardinality(Below(x)) + 1]
<1>1. n \in Nat
  BY FS_CardinalityType
<1>2. ASSUME NEW x \in S
      PROVE  IsFiniteSet(Below(x)) /\ Cardinality(Below(x)) \in Nat /\ Cardinality(Below(x)) < n
  <2>1. Below(x) \in SUBSET S /\ x \notin Below(x) /\ x \in S
    BY DEF Preceding
  <2>2. /\ IsFiniteSet(Below(x)) /\ Cardinality(Below(x)) <= n
        /\ Cardinality(S) = Cardinality(Below(x)) => S = Below(x)
    BY <2>1, FS_Subset
  <2>3. Cardinality(Below(x)) \in Nat
    BY <2>2, FS_CardinalityType
  <2> HIDE DEF Below
  <2> QED
    BY <1>1, <2>1, <2>2, <2>3
<1>3. ASSUME NEW x \in S, NEW y \in S, <<x, y>> \in R
      PROVE  Cardinality(Below(x)) < Cardinality(Below(y))
  <2>1. Below(x) \in SUBSET Below(y) /\ x \in Below(y) /\ x \notin Below(x)
    BY <1>3 DEF Preceding
  <2>2. IsFiniteSet(Below(y)) /\ Cardinality(Below(y)) \in Nat /\ Cardinality(Below(x)) \in Nat
    BY <1>2
  <2> HIDE DEF Below
  <2> QED
    BY <2>1, <2>2, FS_Subset
<1>4. ASSUME NEW x \in S, NEW y \in S
      PROVE  <<x, y>> \in R <=> Cardinality(Below(x)) < Cardinality(Below(y))
  <2>1. Cardinality(Below(x)) \in Nat /\ Cardinality(Below(y)) \in Nat
    BY <1>2
  <2>2. x = y \/ <<x, y>> \in R \/ <<y, x>> \in R
    OBVIOUS
  <2>3. x = y => <<x, y>> \notin R
    OBVIOUS
  <2> HIDE DEF Below
  <2> QED
    BY <1>3, <2>1, <2>2, <2>3
<1>5. place \in Injection(S, 1..n)
  <2>1. place \in [S -> 1..n]
    <3> HIDE DEF Below, n
    <3> QED
      BY <1>1, <1>2
  <2>2. ASSUME NEW x \in S, NEW y \in S, place[x] = place[y]
        PROVE  x = y
    <3>1. Cardinality(Below(x)) + 1 = Cardinality(Below(y)) + 1
      BY <2>2
    <3>2. Cardinality(Below(x)) \in Nat /\ Cardinality(Below(y)) \in Nat
      BY <1>2
    <3>3. ~(<<x, y>> \in R) /\ ~(<<y, x>> \in R)
      <4> HIDE DEF Below
      <4> QED
        BY <1>4, <3>1, <3>2
    <3> QED
      BY <3>3
  <2> HIDE DEF place
  <2> QED
    BY <2>1, <2>2 DEF Injection, IsInjective
<1>6. place \in Surjection(S, 1..n)
  <2>1. IsFiniteSet(1..n) /\ Cardinality(1..n) = n
    BY <1>1, FS_Interval
  <2> HIDE DEF place
  <2> QED
    BY <1>5, <2>1, FS_Injection
<1>7. ASSUME NEW k \in 1..n
      PROVE  \E x \in S : Cardinality(Below(x)) = k - 1
  <2>1. PICK x \in S : place[x] = k
    BY <1>6 DEF Surjection
  <2>2. Cardinality(Below(x)) + 1 = k
    BY <2>1
  <2> HIDE DEF Below
  <2> QED
    BY <1>2, <2>2
<1>8. ASSUME NEW x \in S
      PROVE  Cardinality(Below(x)) + 1 \in 1..n
  <2> HIDE DEF Below, n
  <2> QED
    BY <1>1, <1>2
<1> HIDE DEF place
<1>9. \A k \in 1..n : \E x \in S : Cardinality(Below(x)) = k - 1
  BY <1>7
<1>10. \A x, y \in S : <<x, y>> \in R <=> Cardinality(Below(x)) < Cardinality(Below(y))
  BY <1>4
<1>11. \A x \in S : Cardinality(Below(x)) \in Nat /\ Cardinality(Below(x)) + 1 \in 1..n
  BY <1>2, <1>8
<1> QED
  BY <1>9, <1>10, <1>11, Zenon

\* As many rows come first as are asked for.
LEMMA FirstRows ==
  ASSUME NEW S, IsFiniteSet(S), NEW R,
         \A x, y \in S : x # y => <<x, y>> \in R \/ <<y, x>> \in R,
         \A x, y \in S : <<x, y>> \in R => <<y, x>> \notin R,
         \A x, y, z \in S : <<x, y>> \in R /\ <<y, z>> \in R => <<x, z>> \in R,
         NEW n \in 0..Cardinality(S)
  PROVE  Cardinality({x \in S : Cardinality(Preceding(S, R, x)) < n}) = n
<1> DEFINE T == {x \in S : Cardinality(Preceding(S, R, x)) < n}
           place == [x \in T |-> Cardinality(Preceding(S, R, x)) + 1]
<1>1. Cardinality(S) \in Nat /\ n \in Nat
  BY FS_CardinalityType
<1>2. /\ \A k \in 1..Cardinality(S) : \E x \in S : Cardinality(Preceding(S, R, x)) = k - 1
      /\ \A x, y \in S :
           <<x, y>> \in R <=> Cardinality(Preceding(S, R, x)) < Cardinality(Preceding(S, R, y))
      /\ \A x \in S : Cardinality(Preceding(S, R, x)) \in Nat
  BY EveryPlaceIsTaken
<1>3. place \in [T -> 1..n]
  BY <1>1, <1>2
<1>4. ASSUME NEW x \in T, NEW y \in T, x # y
      PROVE  place[x] # place[y]
  <2>1. <<x, y>> \in R \/ <<y, x>> \in R
    BY <1>4
  <2>2. /\ Cardinality(Preceding(S, R, x)) \in Nat /\ Cardinality(Preceding(S, R, y)) \in Nat
        /\ \/ Cardinality(Preceding(S, R, x)) < Cardinality(Preceding(S, R, y))
           \/ Cardinality(Preceding(S, R, y)) < Cardinality(Preceding(S, R, x))
    BY <1>2, <2>1
  <2> QED
    BY <2>2
<1>5. \A k \in 1..n : \E x \in T : place[x] = k
  <2> SUFFICES ASSUME NEW k \in 1..n
               PROVE  \E x \in T : place[x] = k
    OBVIOUS
  <2>1. PICK x \in S : Cardinality(Preceding(S, R, x)) = k - 1
    BY <1>1, <1>2
  <2> QED
    BY <1>1, <2>1
<1>6. place \in Bijection(T, 1..n)
  BY <1>3, <1>4, <1>5 DEF Bijection, Injection, IsInjective, Surjection
<1>7. IsFiniteSet(T)
  BY FS_Subset
<1>8. IsFiniteSet(1..n) /\ Cardinality(1..n) = n
  BY <1>1, FS_Interval
<1> HIDE DEF T, place
<1>9. Cardinality(T) = n
  <2>1. ExistsBijection(T, 1..n)
    BY <1>6 DEF ExistsBijection
  <2> QED
    BY <1>7, <1>8, <2>1, FS_Bijection
<1> QED
  BY <1>9 DEF T

\* So rows that stand at their places are the rows of the set in order, each once.
LEMMA RowsInOrder ==
  ASSUME NEW S, IsFiniteSet(S), NEW R,
         \A x, y \in S : x # y => <<x, y>> \in R \/ <<y, x>> \in R,
         \A x, y \in S : <<x, y>> \in R => <<y, x>> \notin R,
         \A x, y, z \in S : <<x, y>> \in R /\ <<y, z>> \in R => <<x, z>> \in R,
         NEW F \in [1..Cardinality(S) -> S],
         \A k \in 1..Cardinality(S) : Cardinality(Preceding(S, R, F[k])) = k - 1
  PROVE  /\ \A i, j \in 1..Cardinality(S) : i < j <=> <<F[i], F[j]>> \in R
         /\ F \in Surjection(1..Cardinality(S), S)
<1> DEFINE C(x) == Cardinality(Preceding(S, R, x))
           n == Cardinality(S)
<1>1. n \in Nat
  BY FS_CardinalityType
<1>2. \A x, y \in S : <<x, y>> \in R <=> C(x) < C(y)
  BY EveryPlaceIsTaken
<1>3. \A x \in S : C(x) \in Nat /\ C(x) + 1 \in 1..n
  BY EveryPlaceIsTaken
<1>4. \A k \in 1..n : F[k] \in S /\ C(F[k]) = k - 1
  OBVIOUS
<1> HIDE DEF C, n
<1>5. \A i, j \in 1..n : i < j <=> <<F[i], F[j]>> \in R
  <2> TAKE i, j \in 1..n
  <2>1. F[i] \in S /\ F[j] \in S /\ C(F[i]) = i - 1 /\ C(F[j]) = j - 1
    BY <1>4
  <2>2. <<F[i], F[j]>> \in R <=> i - 1 < j - 1
    BY <1>2, <2>1
  <2> QED
    BY <1>1, <2>2
<1>6. ASSUME NEW x \in S
      PROVE  \E k \in 1..n : F[k] = x
  <2> DEFINE k == C(x) + 1
  <2>1. k \in 1..n /\ C(x) \in Nat
    BY <1>3
  <2>2. F[k] \in S /\ C(F[k]) = C(x)
    BY <1>4, <2>1
  <2>3. ~(<<F[k], x>> \in R) /\ ~(<<x, F[k]>> \in R)
    BY <1>2, <2>1, <2>2
  <2> HIDE DEF k
  <2>4. F[k] = x
    BY <2>2, <2>3
  <2> QED
    BY <2>1, <2>4
<1>7. F \in Surjection(1..n, S)
  BY <1>6 DEF Surjection, n
<1> QED
  BY <1>5, <1>7 DEF n

LEMMA ImageIsFinite ==
  ASSUME NEW S, IsFiniteSet(S), NEW f
  PROVE  IsFiniteSet({f[x] : x \in S})
<1> DEFINE g == [x \in S |-> f[x]]
           T == {f[x] : x \in S}
<1>1. g \in Surjection(S, T)
  BY DEF Surjection
<1> HIDE DEF g, T
<1>2. IsFiniteSet(T)
  BY <1>1, FS_Surjection
<1> QED
  BY <1>2 DEF T

-----------------------------------------------------------------------------
(* A non-empty set of naturals has a least element: what ORDER BY ...      *)
(* LIMIT 1, DISTINCT ON and rank = 1 rely on.                              *)

LEMMA NatMinimum ==
  ASSUME NEW T \in SUBSET Nat, T # {}
  PROVE  \E m \in T : \A n \in T : m <= n
<1> DEFINE R == {ss \in Nat \X Nat : ss[1] < ss[2]}
<1>1. IsWellFoundedOn(R, Nat)
  BY NatLessThanWellFounded DEF OpToRel
<1>2. ASSUME NEW m \in Nat, NEW n \in Nat, m < n
      PROVE  <<m, n>> \in R
  <2>1. <<m, n>> \in Nat \X Nat /\ <<m, n>>[1] < <<m, n>>[2]
    BY <1>2
  <2> QED
    BY <2>1
<1> HIDE DEF R
<1>3. \E m \in T : \A n \in T : ~ (<<n, m>> \in R)
  BY <1>1, WFMin
<1>4. PICK m \in T : \A n \in T : ~ (<<n, m>> \in R)
  BY <1>3
<1>5. ASSUME NEW n \in T
      PROVE  m <= n
  <2>1. n \in Nat /\ m \in Nat /\ <<n, m>> \notin R
    BY <1>4
  <2>2. ~ n < m
    BY <1>2, <2>1
  <2> QED
    BY <2>1, <2>2
<1> QED
  BY <1>5
=============================================================================

------------------------------ MODULE Induction ------------------------------
(***************************************************************************)
(* Induction stated about sets, as the provers can use it: what they need  *)
(* to reason about folds over files and lists, and about the maximum and   *)
(* the order of finitely many numbers.                                     *)
(***************************************************************************)
EXTENDS Integers, Sequences, FiniteSetTheorems, WellFoundedInduction, TLAPS

\* Among finite sets there is one that includes none of the others.
LEMMA SmallestSet ==
  ASSUME NEW S, NEW T, T # {}, T \subseteq FiniteSubsetsOf(S)
  PROVE  \E x \in T : \A y \in T : y \subseteq x => y = x
<1>1. PICK x \in T : \A y \in T : <<y, x>> \notin StrictSubsetOrdering(S)
  BY FS_StrictSubsetOrderingWellFounded, WFMin
<1>2. ASSUME NEW y \in T, y \subseteq x, y # x PROVE FALSE
  BY <1>1, <1>2 DEF StrictSubsetOrdering, FiniteSubsetsOf
<1> QED  BY <1>2

\* A set that has 0, and the successor of each of its numbers, has them all.
LEMMA NaturalNumbers ==
  ASSUME NEW T, 0 \in T, \A n \in Nat : n \in T => n + 1 \in T
  PROVE  \A n \in Nat : n \in T
<1> SUFFICES ASSUME NEW k \in Nat, k \notin T PROVE FALSE
  OBVIOUS
<1> DEFINE U == {0..n : n \in Nat \ T}
<1>1. U # {}
  OBVIOUS
<1>2. U \subseteq FiniteSubsetsOf(Nat)
  <2>1. ASSUME NEW n \in Nat PROVE 0..n \subseteq Nat /\ IsFiniteSet(0..n)
    BY FS_Interval
  <2> QED  BY <2>1 DEF FiniteSubsetsOf
<1>3. PICK x \in U : \A y \in U : y \subseteq x => y = x
  <2> HIDE DEF U
  <2> QED  BY <1>1, <1>2, SmallestSet
<1>4. PICK n \in Nat \ T : x = 0..n
  OBVIOUS
<1>5. n - 1 \in Nat /\ n - 1 \notin T
  OBVIOUS
<1>6. 0..(n-1) \subseteq 0..n /\ n \in 0..n /\ n \notin 0..(n-1)
  BY <1>5
<1> QED  BY <1>3, <1>4, <1>5, <1>6

\* The same up to some number, which is all that a list needs.
LEMMA UpTo ==
  ASSUME NEW N \in Nat, NEW T, 0 \in T, \A n \in 0..N : n \in T /\ n < N => n + 1 \in T
  PROVE  \A n \in 0..N : n \in T
<1> DEFINE U == {n \in Nat : n <= N => n \in T}
<1>1. 0 \in U /\ \A n \in Nat : n \in U => n + 1 \in U
  OBVIOUS
<1>2. \A n \in Nat : n \in U
  <2> HIDE DEF U
  <2> QED  BY <1>1, NaturalNumbers
<1> QED  BY <1>2

\* Numbers with a bound have a greatest one.
LEMMA Greatest ==
  ASSUME NEW S \in SUBSET Nat, S # {}, NEW N \in Nat, \A n \in S : n <= N
  PROVE  \E m \in S : \A n \in S : n <= m
<1> DEFINE T == {b \in Nat : \A R \in SUBSET S :
                   R # {} /\ (\A n \in R : n <= b) => \E m \in R : \A n \in R : n <= m}
<1>1. 0 \in T
  <2> SUFFICES ASSUME NEW R \in SUBSET S, R # {}, \A n \in R : n <= 0
               PROVE  \E m \in R : \A n \in R : n <= m
    OBVIOUS
  <2>1. \A n \in R : n = 0
    OBVIOUS
  <2> QED  BY <2>1
<1>2. ASSUME NEW b \in Nat, b \in T PROVE b + 1 \in T
  <2> SUFFICES ASSUME NEW R \in SUBSET S, R # {}, \A n \in R : n <= b + 1
               PROVE  \E m \in R : \A n \in R : n <= m
    OBVIOUS
  <2>1. CASE b + 1 \in R
    BY <2>1
  <2>2. CASE b + 1 \notin R
    <3>1. \A n \in R : n <= b
      BY <2>2
    <3> QED  BY <1>2, <3>1
  <2> QED  BY <2>1, <2>2
<1>3. N \in T
  <2> HIDE DEF T
  <2> QED  BY <1>1, <1>2, NaturalNumbers
<1> QED  BY <1>3

\* Finitely many things with a number each, one has the greatest.
LEMMA GreatestKey ==
  ASSUME NEW S, IsFiniteSet(S), S # {}, NEW key \in [S -> Nat]
  PROVE  \E x \in S : \A y \in S : key[y] <= key[x]
<1> DEFINE T == {n \in Nat : \A R \in SUBSET S :
                   IsFiniteSet(R) /\ Cardinality(R) = n /\ R # {}
                   => \E x \in R : \A y \in R : key[y] <= key[x]}
<1>1. 0 \in T
  BY FS_EmptySet
<1>2. ASSUME NEW n \in Nat, n \in T PROVE n + 1 \in T
  <2> SUFFICES ASSUME NEW R \in SUBSET S, IsFiniteSet(R), Cardinality(R) = n + 1, R # {}
               PROVE  \E x \in R : \A y \in R : key[y] <= key[x]
    OBVIOUS
  <2>1. PICK z \in R : TRUE
    OBVIOUS
  <2> DEFINE Q == R \ {z}
  <2>2. Q \in SUBSET S /\ IsFiniteSet(Q) /\ Cardinality(Q) = n
    <3> HIDE DEF T
    <3>1. /\ IsFiniteSet(R \ {z})
          /\ Cardinality(R \ {z}) = IF z \in R THEN Cardinality(R) - 1 ELSE Cardinality(R)
      BY ONLY IsFiniteSet(R), FS_RemoveElement
    <3> QED  BY <3>1
  <2>3. \A y \in R : y = z \/ y \in Q
    OBVIOUS
  <2>4. CASE Q = {}
    BY <2>4
  <2>5. CASE Q # {}
    <3>1. PICK x \in Q : \A y \in Q : key[y] <= key[x]
      BY <1>2, <2>2, <2>5
    <3>2. key[x] \in Nat /\ key[z] \in Nat /\ \A y \in Q : key[y] \in Nat
      OBVIOUS
    <3>3. CASE key[x] <= key[z]
      BY <3>1, <3>2, <3>3
    <3>4. CASE key[z] <= key[x]
      BY <2>3, <3>1, <3>2, <3>4
    <3> QED  BY <3>2, <3>3, <3>4
  <2> QED  BY <2>4, <2>5
<1>3. Cardinality(S) \in Nat
  BY FS_CardinalityType
<1>4. Cardinality(S) \in T
  <2> HIDE DEF T
  <2> QED  BY <1>1, <1>2, <1>3, NaturalNumbers
<1> QED  BY <1>4

\* A finite set can be listed, each element once, in the order of a key.
LEMMA Sorted ==
  ASSUME NEW S, IsFiniteSet(S), NEW key \in [S -> Nat]
  PROVE  \E q \in [1..Cardinality(S) -> S] :
           /\ \A i, j \in 1..Cardinality(S) : i # j => q[i] # q[j]
           /\ \A i, j \in 1..Cardinality(S) : i < j => key[q[i]] <= key[q[j]]
<1> DEFINE InOrder(R, n, q) == /\ \A i, j \in 1..n : i # j => q[i] # q[j]
                               /\ \A i, j \in 1..n : i < j => key[q[i]] <= key[q[j]]
           T == {n \in Nat : \A R \in SUBSET S :
                   IsFiniteSet(R) /\ Cardinality(R) = n
                   => \E q \in [1..n -> R] : InOrder(R, n, q)}
<1>1. 0 \in T
  <2> SUFFICES ASSUME NEW R \in SUBSET S, Cardinality(R) = 0
               PROVE  \E q \in [1..0 -> R] : InOrder(R, 0, q)
    OBVIOUS
  <2>1. [i \in 1..0 |-> i] \in [1..0 -> R] /\ InOrder(R, 0, [i \in 1..0 |-> i])
    OBVIOUS
  <2> QED  BY <2>1
<1>2. ASSUME NEW n \in Nat, n \in T PROVE n + 1 \in T
  <2> SUFFICES ASSUME NEW R \in SUBSET S, IsFiniteSet(R), Cardinality(R) = n + 1
               PROVE  \E q \in [1..n + 1 -> R] : InOrder(R, n + 1, q)
    OBVIOUS
  <2>1. PICK z \in R : \A y \in R : key[y] <= key[z]
    <3>1. R # {}
      BY FS_EmptySet
    <3> DEFINE part == [y \in R |-> key[y]]
    <3>2. part \in [R -> Nat] /\ \A y \in R : part[y] = key[y]
      OBVIOUS
    <3>3. \E x \in R : \A y \in R : part[y] <= part[x]
      <4> HIDE DEF part
      <4> QED  BY <3>1, <3>2, GreatestKey
    <3> QED  BY <3>2, <3>3
  <2> DEFINE Q == R \ {z}
  <2>2. Q \in SUBSET S /\ IsFiniteSet(Q) /\ Cardinality(Q) = n
    <3> HIDE DEF T
    <3>1. /\ IsFiniteSet(R \ {z})
          /\ Cardinality(R \ {z}) = IF z \in R THEN Cardinality(R) - 1 ELSE Cardinality(R)
      BY ONLY IsFiniteSet(R), FS_RemoveElement
    <3> QED  BY <3>1
  <2>3. PICK p \in [1..n -> Q] : InOrder(Q, n, p)
    BY <1>2, <2>2
  <2> DEFINE q == [i \in 1..n + 1 |-> IF i <= n THEN p[i] ELSE z]
  <2>4. /\ q[n + 1] = z
        /\ \A i \in 1..n : q[i] = p[i] /\ p[i] \in Q
        /\ \A i \in 1..n + 1 : i \in 1..n \/ i = n + 1
    OBVIOUS
  <2>5. q \in [1..n + 1 -> R]
    OBVIOUS
  <2> HIDE DEF q
  <2>6. \A i, j \in 1..n + 1 : i # j => q[i] # q[j]
    BY <2>3, <2>4
  <2>7. \A i, j \in 1..n + 1 : i < j => key[q[i]] <= key[q[j]]
    BY <2>1, <2>3, <2>4
  <2> QED  BY <2>5, <2>6, <2>7
<1>3. Cardinality(S) \in Nat
  BY FS_CardinalityType
<1>4. Cardinality(S) \in T
  <2> HIDE DEF T
  <2> QED  BY <1>1, <1>2, <1>3, NaturalNumbers
<1> QED  BY <1>4

=============================================================================

---------------------------- MODULE NumberLemmas ----------------------------
(* Facts about sets of numbers and finite sets that the proofs of several  *)
(* components rest on.                                                     *)
EXTENDS Integers, FiniteSets, FiniteSetTheorems, WellFoundedInduction,
        NaturalsInduction, TLAPS

\* The order of the natural numbers is well founded: a set of them has a least
\* element, and a bounded one a greatest.
LEMMA LeastExists ==
  ASSUME NEW T, T \subseteq Nat, T # {}
  PROVE  \E m \in T : \A k \in T : m <= k
  <1> DEFINE R == {ss \in Nat \X Nat : ss[1] < ss[2]}
  <1>1. IsWellFoundedOn(R, Nat)
    <2>1. R = OpToRel(<, Nat)
      BY Zenon DEF OpToRel
    <2>2. QED
      BY <2>1, NatLessThanWellFounded, Zenon
  <1> HIDE DEF R
  <1>2. PICK m \in T : \A k \in T : <<k, m>> \notin R
    BY <1>1, WFMin
  <1>3. \A k \in T : ~(k < m)
    BY <1>2 DEF R
  <1>4. QED
    BY <1>2, <1>3

LEMMA GreatestExists ==
  ASSUME NEW n \in Nat, NEW T, T \subseteq 1..n, T # {}
  PROVE  \E m \in T : \A k \in T : k <= m
  <1> DEFINE U == {u \in Nat : n - u \in T}
  <1>1. PICK k \in T : TRUE
    OBVIOUS
  <1>2. n - k \in U
    <2>1. k \in 1..n /\ n - k \in Nat /\ n - (n - k) = k
      BY <1>1
    <2>2. QED
      BY <1>1, <2>1
  <1>3. PICK u \in U : \A v \in U : u <= v
    <2> HIDE DEF U
    <2>1. U \subseteq Nat
      BY DEF U
    <2>2. QED
      BY <1>2, <2>1, LeastExists
  <1>4. \A j \in T : n - j \in U
    <2> TAKE j \in T
    <2>1. j \in 1..n /\ n - j \in Nat /\ n - (n - j) = j
      OBVIOUS
    <2>2. QED
      BY <2>1
  <1>5. n - u \in T
    BY <1>3
  <1>6. ASSUME NEW j \in T PROVE j <= n - u
    <2>1. u <= n - j /\ j \in 1..n /\ u \in Nat
      BY <1>3, <1>4
    <2>2. QED
      BY <2>1
  <1>7. QED
    BY <1>5, <1>6

\* What a function makes of a finite set is finite.
LEMMA ImageFinite ==
  ASSUME NEW S, IsFiniteSet(S), NEW g, DOMAIN g = S
  PROVE  IsFiniteSet({g[x] : x \in S})
  <1> DEFINE T == {g[x] : x \in S}
             h == [x \in S |-> g[x]]
  <1>1. h \in Surjection(S, T)
    BY DEF Surjection
  <1>2. QED
    BY <1>1, FS_Surjection
=============================================================================

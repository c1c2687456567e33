------------------------------- MODULE Induction -------------------------------
(***************************************************************************)
(* Induction over data, from minimal counterexamples: a set of natural     *)
(* numbers that is not empty has a least element, so a property that fails *)
(* somewhere fails first somewhere.  Functions defined by recursion over   *)
(* 0 .. n exist, which is what their CHOOSE needs.                         *)
(***************************************************************************)
EXTENDS FiniteSetTheorems, Integers, TLAPS

(* The intervals 1 .. m are ordered by inclusion as their ends are, and    *)
(* inclusion is well-founded on finite sets.                               *)
LEMMA Smallest ==
    ASSUME NEW T, T \subseteq Nat, T # {}
    PROVE  \E m \in T : \A k \in T : m <= k
  <1> DEFINE U == {1 .. m : m \in T}
  <1>1. U # {}
    OBVIOUS
  <1>2. U \subseteq FiniteSubsetsOf(Nat)
    <2>1. ASSUME NEW m \in T PROVE 1 .. m \in FiniteSubsetsOf(Nat)
      <3>1. m \in Int /\ 1 \in Int /\ 1 .. m \in SUBSET Nat
        OBVIOUS
      <3>2. IsFiniteSet(1 .. m)
        BY <3>1, FS_Interval
      <3> QED BY <3>1, <3>2 DEF FiniteSubsetsOf
    <2> QED BY <2>1
  <1>3. IsWellFoundedOn(StrictSubsetOrdering(Nat), FiniteSubsetsOf(Nat))
    BY FS_StrictSubsetOrderingWellFounded
  <1>4. \E x \in U : \A y \in U : ~(<<y, x>> \in StrictSubsetOrdering(Nat))
    <2> HIDE DEF U
    <2> QED BY <1>1, <1>2, <1>3, WFMin
  <1>5. PICK m \in T : \A k \in T : ~(<<1 .. k, 1 .. m>> \in StrictSubsetOrdering(Nat))
    BY <1>4
  <1>6. ASSUME NEW k \in T, k < m PROVE FALSE
    <2>1. m \in Nat /\ k \in Nat
      OBVIOUS
    <2>2. 1 .. k \subseteq 1 .. m /\ m \in 1 .. m /\ m \notin 1 .. k
      BY <2>1, <1>6
    <2>3. <<1 .. k, 1 .. m>> \in StrictSubsetOrdering(Nat)
      <3>1. 1 .. k \in SUBSET Nat /\ 1 .. m \in SUBSET Nat
        BY <2>1
      <3> QED BY <2>2, <3>1 DEF StrictSubsetOrdering
    <2> QED BY <1>5, <2>3
  <1> QED BY <1>6

(* Induction up to n: what holds of 0, and of m when it holds of m - 1,    *)
(* holds of all; Good is the set of the numbers it holds of.               *)
LEMMA Upto ==
    ASSUME NEW n \in Nat, NEW Good, 0 \in Good,
           \A m \in 1 .. n : m - 1 \in Good => m \in Good
    PROVE  0 .. n \subseteq Good
  <1> SUFFICES ASSUME (0 .. n) \ Good # {} PROVE FALSE
    OBVIOUS
  <1>1. PICK m \in (0 .. n) \ Good : \A k \in (0 .. n) \ Good : m <= k
    <2>1. (0 .. n) \ Good \subseteq Nat
      OBVIOUS
    <2> QED BY <2>1, Smallest
  <1>2. m \in 1 .. n /\ m - 1 \in 0 .. n /\ ~(m <= m - 1)
    BY <1>1
  <1> QED BY <1>1, <1>2

(* Definition by recursion over 0 .. n.                                    *)
Follows(f, n, b, step) == f[0] = b /\ \A i \in 1 .. n : f[i] = step[<<i, f[i - 1]>>]

LEMMA Recursion ==
    ASSUME NEW n \in Nat, NEW S, NEW b \in S, NEW step \in [(1 .. n) \X S -> S]
    PROVE  \E f \in [0 .. n -> S] : Follows(f, n, b, step)
  <1> DEFINE Upward(m, f) == Follows(f, m, b, step)
             Good == {m \in 0 .. n : \E f \in [0 .. m -> S] : Upward(m, f)}
  <1> USE DEF Follows
  <1>1. 0 \in Good
    <2> DEFINE g == [i \in 0 .. 0 |-> b]
    <2>1. g \in [0 .. 0 -> S] /\ Upward(0, g) /\ 0 \in 0 .. n
      OBVIOUS
    <2> HIDE DEF g
    <2> QED BY <2>1
  <1>2. ASSUME NEW m \in 1 .. n, m - 1 \in Good PROVE m \in Good
    <2>1. PICK f \in [0 .. m - 1 -> S] : Upward(m - 1, f)
      BY <1>2
    <2> DEFINE g == [i \in 0 .. m |-> IF i = m THEN step[<<m, f[m - 1]>>] ELSE f[i]]
    <2>2. m - 1 \in 0 .. m - 1 /\ step[<<m, f[m - 1]>>] \in S
      OBVIOUS
    <2>3. g \in [0 .. m -> S]
      <3>1. \A i \in 0 .. m : i # m => i \in 0 .. m - 1
        OBVIOUS
      <3>2. \A i \in 0 .. m : (IF i = m THEN step[<<m, f[m - 1]>>] ELSE f[i]) \in S
        BY <2>1, <2>2, <3>1
      <3> QED BY <3>2
    <2>4. ASSUME NEW i \in 1 .. m PROVE g[i] = step[<<i, g[i - 1]>>]
      <3>1. CASE i = m
        <4>1. m \in 0 .. m /\ m - 1 \in 0 .. m /\ m - 1 # m
          OBVIOUS
        <4> QED BY <3>1, <4>1
      <3>2. CASE i # m
        <4>1. i \in 1 .. m - 1 /\ i - 1 \in 0 .. m - 1 /\ i \in 0 .. m /\ i - 1 \in 0 .. m /\ i - 1 # m
          BY <3>2
        <4> QED BY <2>1, <3>2, <4>1
      <3> QED BY <3>1, <3>2
    <2>5. g[0] = b
      BY <2>1
    <2> HIDE DEF g
    <2>6. Upward(m, g)
      BY <2>4, <2>5
    <2> QED BY <2>3, <2>6
  <1>3. n \in Good
    <2>1. n \in 0 .. n
      OBVIOUS
    <2> HIDE DEF Good
    <2> QED BY <1>1, <1>2, <2>1, Upto
  <1> HIDE DEF Follows
  <1> QED BY <1>3
(* A finite set of natural numbers can be listed in ascending order.       *)
Ascends(s, n) == \A i, j \in 1 .. n : i < j => s[i] < s[j]
Enumerates(s, n, S) == Ascends(s, n) /\ \A x \in S : \E i \in 1 .. n : s[i] = x

LEMMA Ascending ==
    ASSUME NEW S, S \subseteq Nat, IsFiniteSet(S)
    PROVE  \E s \in [1 .. Cardinality(S) -> S] : Enumerates(s, Cardinality(S), S)
  <1> DEFINE N == Cardinality(S)
             Listed(T) == \E s \in [1 .. Cardinality(T) -> T] : Enumerates(s, Cardinality(T), T)
             Good == {n \in 0 .. N :
                        \A T \in SUBSET S : IsFiniteSet(T) /\ Cardinality(T) = n => Listed(T)}
  <1>0. N \in Nat
    BY FS_CardinalityType
  <1>1. 0 \in Good
    <2> SUFFICES ASSUME NEW T \in SUBSET S, IsFiniteSet(T), Cardinality(T) = 0 PROVE Listed(T)
      BY <1>0
    <2>1. T = {}
      BY FS_EmptySet
    <2> DEFINE s == [i \in 1 .. 0 |-> 0]
    <2>2. s \in [1 .. 0 -> T] /\ Enumerates(s, 0, T)
      BY <2>1 DEF Enumerates, Ascends
    <2> HIDE DEF s
    <2> QED BY <2>2
  <1>2. ASSUME NEW m \in 1 .. N, m - 1 \in Good PROVE m \in Good
    <2> SUFFICES ASSUME NEW T \in SUBSET S, IsFiniteSet(T), Cardinality(T) = m PROVE Listed(T)
      BY <1>0
    <2>0. T # {} /\ T \subseteq Nat /\ m \in Nat
      BY <1>0, FS_EmptySet
    <2>1. PICK least \in T : \A x \in T : least <= x
      BY <2>0, Smallest
    <2> DEFINE U == T \ {least}
    <2>2. IsFiniteSet(U) /\ Cardinality(U) = m - 1 /\ U \in SUBSET S
      BY FS_RemoveElement
    <2>3. PICK t \in [1 .. m - 1 -> U] : Enumerates(t, m - 1, U)
      BY <1>2, <2>2
    <2> DEFINE s == [i \in 1 .. m |-> IF i = 1 THEN least ELSE t[i - 1]]
    <2>4. ASSUME NEW i \in 1 .. m, i # 1 PROVE s[i] = t[i - 1] /\ i - 1 \in 1 .. m - 1 /\ s[i] \in U
      <3>1. i - 1 \in 1 .. m - 1
        BY <2>0, <2>4
      <3> QED BY <2>3, <2>4, <3>1
    <2>5. s[1] = least /\ 1 \in 1 .. m
      BY <2>0
    <2>6. s \in [1 .. m -> T]
      <3>1. \A i \in 1 .. m : s[i] \in T
        BY <2>4, <2>5
      <3> QED BY <3>1
    <2>7. ASSUME NEW i \in 1 .. m, NEW j \in 1 .. m, i < j PROVE s[i] < s[j]
      <3>1. j # 1
        BY <2>0, <2>7
      <3>2. s[j] \in U /\ s[j] = t[j - 1] /\ j - 1 \in 1 .. m - 1
        BY <2>4, <3>1
      <3>3. CASE i = 1
        <4>1. s[i] = least
          BY <2>5, <3>3
        <4>2. \A x \in U : x \in Nat /\ least \in Nat /\ least <= x /\ x # least
          BY <2>0, <2>1
        <4> HIDE DEF s, U
        <4> QED BY <3>2, <4>1, <4>2
      <3>4. CASE i # 1
        <4>1. s[i] = t[i - 1] /\ i - 1 \in 1 .. m - 1
          BY <2>4, <3>4
        <4>2. i - 1 < j - 1
          BY <2>0, <2>7
        <4> QED BY <2>3, <3>2, <4>1, <4>2 DEF Enumerates, Ascends
      <3> QED BY <3>3, <3>4
    <2>8. ASSUME NEW x \in T PROVE \E i \in 1 .. m : s[i] = x
      <3>1. CASE x = least
        BY <2>5, <3>1
      <3>2. CASE x # least
        <4>1. PICK k \in 1 .. m - 1 : t[k] = x
          BY <2>3, <3>2 DEF Enumerates
        <4>2. k + 1 \in 1 .. m /\ k + 1 # 1 /\ (k + 1) - 1 = k
          BY <2>0
        <4>3. s[k + 1] = x
          BY <2>4, <4>1, <4>2
        <4> QED BY <4>2, <4>3
      <3> QED BY <3>1, <3>2
    <2> HIDE DEF s
    <2>9. Enumerates(s, m, T)
      BY <2>7, <2>8 DEF Enumerates, Ascends
    <2> QED BY <2>6, <2>9
  <1>3. N \in Good
    <2> HIDE DEF Good
    <2>1. 0 .. N \subseteq Good /\ N \in 0 .. N
      BY <1>0, <1>1, <1>2, Upto
    <2> QED BY <2>1
  <1> QED BY <1>3
=============================================================================

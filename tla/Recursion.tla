------------------------------- MODULE Recursion -------------------------------
(***************************************************************************)
(* Induction and recursion over the natural numbers, stated for sets and   *)
(* functions where NaturalsInduction has operators: what the proofs about  *)
(* the loops of the program use, which are functions defined by recursion. *)
(***************************************************************************)
EXTENDS Integers, WellFoundedInduction, TLAPS

(* A set of natural numbers that is not empty has a least element.         *)
LEMMA LeastElement ==
  ASSUME NEW T \in SUBSET Nat, T # {}
  PROVE  \E m \in T : \A k \in T : m <= k
<1>1. PICK m \in T : \A k \in T : <<k, m>> \notin OpToRel(<, Nat)
  BY NatLessThanWellFounded, WFMin
<1>2. ASSUME NEW k \in T PROVE m <= k
  <2>1. <<k, m>> \notin OpToRel(<, Nat) BY <1>1
  <2>2. ~(k < m) BY <2>1 DEF OpToRel
  <2>3. k \in Nat /\ m \in Nat OBVIOUS
  <2> QED BY <2>2, <2>3
<1> QED BY <1>2

(* A set of natural numbers that is not empty and bounded has a greatest.  *)
LEMMA GreatestElement ==
  ASSUME NEW T \in SUBSET Nat, T # {}, NEW n \in Nat, \A k \in T : k <= n
  PROVE  \E m \in T : \A k \in T : k <= m
<1> DEFINE U == {d \in 0 .. n : n - d \in T}
<1>1. U \in SUBSET Nat OBVIOUS
<1>2. U # {}
  <2>1. PICK k \in T : TRUE OBVIOUS
  <2>2. n - k \in 0 .. n /\ n - (n - k) = k BY <2>1
  <2> QED BY <2>1, <2>2
<1>3. PICK d \in U : \A e \in U : d <= e BY <1>1, <1>2, LeastElement
<1>4. ASSUME NEW k \in T PROVE k <= n - d
  <2>1. n - k \in 0 .. n /\ n - (n - k) = k OBVIOUS
  <2>2. n - k \in U BY <2>1
  <2>3. d <= n - k BY <1>3, <2>2
  <2>4. d \in Int /\ k \in Int OBVIOUS
  <2> QED BY <2>3, <2>4
<1>5. n - d \in T OBVIOUS
<1> QED BY <1>4, <1>5

(* Induction up to n.                                                      *)
LEMMA Induction ==
  ASSUME NEW n \in Nat, NEW T, 0 \in T, \A i \in 1 .. n : i - 1 \in T => i \in T
  PROVE  \A i \in 0 .. n : i \in T
<1> DEFINE U == {i \in 0 .. n : i \notin T}
<1> SUFFICES ASSUME U # {} PROVE FALSE OBVIOUS
<1>1. PICK m \in U : \A k \in U : m <= k
  <2>1. U \in SUBSET Nat OBVIOUS
  <2> HIDE DEF U
  <2> QED BY <2>1, LeastElement
<1>2. m \in 1 .. n /\ m - 1 \in 0 .. n OBVIOUS
<1>3. m - 1 \in T BY <1>1, <1>2
<1> QED BY <1>2, <1>3

(* The loops of the model: what is there first, and what each round makes  *)
(* of what the round before it has left.                                   *)
Recurses(f, n, base, round) ==
  f[0] = base /\ \A i \in 1 .. n : f[i] = round[<<i, f[i - 1]>>]

(* Rounds that lead from S to S can be iterated, and stay in S.            *)
LEMMA Recursion ==
  ASSUME NEW n \in Nat, NEW S, NEW base \in S, NEW round \in [(1 .. n) \X S -> S]
  PROVE  \E f \in [0 .. n -> S] : Recurses(f, n, base, round)
<1> DEFINE Made(m) == \E f \in [0 .. m -> S] : Recurses(f, m, base, round)
           T == {m \in 0 .. n : Made(m)}
<1>1. Made(0)
  <2> DEFINE f == [i \in 0 .. 0 |-> base]
  <2>1. f \in [0 .. 0 -> S] /\ f[0] = base OBVIOUS
  <2> HIDE DEF f
  <2>2. Recurses(f, 0, base, round) BY <2>1 DEF Recurses
  <2> QED BY <2>1, <2>2
<1>2. ASSUME NEW m \in Nat, m + 1 <= n, Made(m) PROVE Made(m + 1)
  <2>1. PICK f \in [0 .. m -> S] : Recurses(f, m, base, round) BY <1>2
  <2> DEFINE g == [i \in 0 .. m + 1 |-> IF i = m + 1 THEN round[<<m + 1, f[m]>>] ELSE f[i]]
  <2>2. round[<<m + 1, f[m]>>] \in S BY <1>2
  <2>3. g \in [0 .. m + 1 -> S] BY <2>2
  <2>4. Recurses(g, m + 1, base, round)
    <3>1. g[0] = base BY <2>1 DEF Recurses
    <3>2. ASSUME NEW i \in 1 .. m PROVE g[i] = round[<<i, g[i - 1]>>]
      <4>1. f[i] = round[<<i, f[i - 1]>>] BY <2>1 DEF Recurses
      <4>2. g[i] = f[i] /\ g[i - 1] = f[i - 1] OBVIOUS
      <4> QED BY <4>1, <4>2
    <3>3. g[m + 1] = round[<<m + 1, g[m]>>]
      <4>1. g[m + 1] = round[<<m + 1, f[m]>>] OBVIOUS
      <4>2. g[m] = f[m] OBVIOUS
      <4> QED BY <4>1, <4>2
    <3> HIDE DEF g
    <3> QED BY <3>1, <3>2, <3>3 DEF Recurses
  <2> QED BY <2>3, <2>4
<1>3. n \in T
  <2> HIDE DEF Made
  <2>1. 0 \in T BY <1>1
  <2>2. ASSUME NEW i \in 1 .. n, i - 1 \in T PROVE i \in T
    <3>1. i - 1 \in Nat /\ (i - 1) + 1 = i OBVIOUS
    <3>2. Made((i - 1) + 1) BY <1>2, <2>2, <3>1
    <3> QED BY <3>1, <3>2
  <2> HIDE DEF T
  <2> QED BY <2>1, <2>2, Induction
<1> HIDE DEF Made
<1>4. Made(n) BY <1>3
<1> QED BY <1>4 DEF Made

(* A loop whose rounds lead from S to S stays in S.                        *)
LEMMA LoopStays ==
  ASSUME NEW n \in Nat, NEW S, NEW f, f = [i \in 0 .. n |-> f[i]],
         f[0] \in S, \A i \in 1 .. n : f[i - 1] \in S => f[i] \in S
  PROVE  f \in [0 .. n -> S]
<1> DEFINE T == {i \in 0 .. n : f[i] \in S}
<1>1. 0 \in T OBVIOUS
<1>2. ASSUME NEW i \in 1 .. n, i - 1 \in T PROVE i \in T
  <2>1. f[i - 1] \in S BY <1>2
  <2> QED BY <2>1
<1> HIDE DEF T
<1>3. \A i \in 0 .. n : i \in T BY <1>1, <1>2, Induction
<1>4. \A i \in 0 .. n : f[i] \in S BY <1>3 DEF T
<1> QED BY <1>4

(* A search that goes down until it stays where it is ends.                *)
LEMMA Descent ==
  ASSUME NEW n \in Nat, NEW next \in [1 .. n -> 1 .. n], \A b \in 1 .. n : next[b] <= b
  PROVE  \E f \in [1 .. n -> 1 .. n] :
           \A b \in 1 .. n : f[b] = IF next[b] = b THEN b ELSE f[next[b]]
<1> DEFINE Made(m) == \E f \in [1 .. m -> 1 .. n] :
              \A b \in 1 .. m : f[b] = IF next[b] = b THEN b ELSE f[next[b]]
           T == {m \in 0 .. n : Made(m)}
<1>1. Made(0)
  <2> DEFINE f == [b \in 1 .. 0 |-> n]
  <2>1. 1 .. 0 = {} OBVIOUS
  <2>2. f \in [1 .. 0 -> 1 .. n] BY <2>1
  <2> QED BY <2>1, <2>2
<1>2. ASSUME NEW m \in Nat, m + 1 <= n, Made(m) PROVE Made(m + 1)
  <2>1. PICK f \in [1 .. m -> 1 .. n] :
              \A b \in 1 .. m : f[b] = IF next[b] = b THEN b ELSE f[next[b]]
    BY <1>2
  <2> DEFINE top == IF next[m + 1] = m + 1 THEN m + 1 ELSE f[next[m + 1]]
             g == [b \in 1 .. m + 1 |-> IF b = m + 1 THEN top ELSE f[b]]
  <2>2. m + 1 \in 1 .. n /\ next[m + 1] \in 1 .. m + 1 BY <1>2
  <2>3. top \in 1 .. n BY <2>2
  <2> HIDE DEF top
  <2>4. g \in [1 .. m + 1 -> 1 .. n] BY <2>3
  <2>5. ASSUME NEW b \in 1 .. m PROVE g[b] = IF next[b] = b THEN b ELSE g[next[b]]
    <3>1. b \in 1 .. n /\ next[b] \in 1 .. m BY <1>2
    <3>2. g[b] = f[b] /\ g[next[b]] = f[next[b]] BY <3>1
    <3> HIDE DEF g
    <3> QED BY <2>1, <3>2
  <2>6. g[m + 1] = IF next[m + 1] = m + 1 THEN m + 1 ELSE g[next[m + 1]]
    <3>1. g[m + 1] = top OBVIOUS
    <3>2. ASSUME NEW x \in 1 .. m + 1, x # m + 1 PROVE x \in 1 .. m BY <3>2
    <3>3. next[m + 1] # m + 1 => g[next[m + 1]] = f[next[m + 1]] BY <2>2, <3>2
    <3> HIDE DEF g
    <3> QED BY <3>1, <3>3 DEF top
  <2> HIDE DEF g
  <2>7. \A b \in 1 .. m + 1 : g[b] = IF next[b] = b THEN b ELSE g[next[b]]
    BY <2>5, <2>6
  <2> QED BY <2>4, <2>7
<1>3. n \in T
  <2> HIDE DEF Made
  <2>1. 0 \in T BY <1>1
  <2>2. ASSUME NEW i \in 1 .. n, i - 1 \in T PROVE i \in T
    <3>1. i - 1 \in Nat /\ (i - 1) + 1 = i OBVIOUS
    <3>2. Made((i - 1) + 1) BY <1>2, <2>2, <3>1
    <3> QED BY <3>1, <3>2
  <2> HIDE DEF T
  <2>3. \A i \in 0 .. n : i \in T BY <2>1, <2>2, Induction
  <2>4. n \in 0 .. n OBVIOUS
  <2> QED BY <2>3, <2>4
<1> HIDE DEF Made
<1>4. Made(n) BY <1>3
<1> QED BY <1>4 DEF Made
==============================================================================

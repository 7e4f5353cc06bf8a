--------------------------- MODULE DtbRewrite_proofs ---------------------------
(***************************************************************************)
(* Proofs about the rewriting of the DTBs, for lists of tokens of any      *)
(* length.                                                                 *)
(*                                                                         *)
(* A node is where the depth, that is the number of BEGIN_NODEs without an *)
(* END_NODE, first falls to what it was.  So what decides where nodes end  *)
(* and whose children they are is the level after each token, and a node   *)
(* in the place of another leaves the levels of all other tokens as they   *)
(* are (ReplacedLevels): they are in the same nodes as before, /partitions *)
(* is found where it was put, and what is left without it is what was left *)
(* before.  What is composed is a node (ComposedNode), Spliced puts it in  *)
(* the place of the old one or in front of the END_NODE of the root, and   *)
(* read token by token it says what was composed (NodeRead).               *)
(* The theorems are at the end, each with the invariant it rests on.       *)
(***************************************************************************)
EXTENDS DtbRewrite, Recursion, FiniteSetTheorems, FunctionTheorems

(***************************************************************************)
(* Depth                                                                   *)
(***************************************************************************)
(* How many tokens of one kind there are in a stretch                      *)
Those(s, i, j, kind) == {k \in i .. j : s[k].t = kind}
Count(s, i, j, kind) == Cardinality(Those(s, i, j, kind))

(* Counts are numbers.                                                     *)
LEMMA CountNat ==
  ASSUME NEW s, NEW i \in Int, NEW j \in Int, NEW kind
  PROVE  /\ Count(s, i, j, kind) \in Nat
         /\ IsFiniteSet(Those(s, i, j, kind))
<1>1. IsFiniteSet(i .. j) BY FS_Interval
<1>2. Those(s, i, j, kind) \in SUBSET (i .. j) BY DEF Those
<1>3. IsFiniteSet(Those(s, i, j, kind)) BY <1>1, <1>2, FS_Subset
<1>4. Cardinality(Those(s, i, j, kind)) \in Nat BY <1>3, FS_CardinalityType
<1> QED BY <1>3, <1>4 DEF Count

(* A count over a stretch is the sum of those over its two parts.          *)
LEMMA CountSplit ==
  ASSUME NEW s, NEW i \in Int, NEW m \in Int, NEW j \in Int, i <= m + 1, m <= j, NEW kind
  PROVE  Count(s, i, j, kind) = Count(s, i, m, kind) + Count(s, m + 1, j, kind)
<1> DEFINE A == Those(s, i, m, kind)
           B == Those(s, m + 1, j, kind)
           C == Those(s, i, j, kind)
<1>1. m + 1 \in Int OBVIOUS
<1>2. C = A \union B /\ A \intersect B = {} BY DEF Those
<1>3. IsFiniteSet(A) /\ IsFiniteSet(B) BY <1>1, CountNat
<1>4. Cardinality(A) \in Nat /\ Cardinality(B) \in Nat BY <1>1, CountNat DEF Count
<1> HIDE DEF A, B, C
<1>5. Cardinality(C) = Cardinality(A) + Cardinality(B) - Cardinality(A \intersect B)
  BY <1>2, <1>3, FS_Union
<1>6. Cardinality(A \intersect B) = 0 BY <1>2, FS_EmptySet
<1> QED BY <1>4, <1>5, <1>6 DEF Count, A, B, C

(* The same tokens further on count the same.                              *)
LEMMA CountShift ==
  ASSUME NEW s, NEW u, NEW i \in Int, NEW j \in Int, NEW d \in Int, NEW kind,
         \A k \in i .. j : u[k + d] = s[k]
  PROVE  Count(u, i + d, j + d, kind) = Count(s, i, j, kind)
<1> DEFINE A == Those(s, i, j, kind)
           B == Those(u, i + d, j + d, kind)
           f == [k \in A |-> k + d]
<1>1. f \in [A -> B]
  <2>1. ASSUME NEW k \in A PROVE k + d \in B
    <3>1. k \in i .. j /\ s[k].t = kind BY DEF Those
    <3>2. u[k + d] = s[k] /\ k + d \in i + d .. j + d BY <3>1
    <3> QED BY <3>1, <3>2 DEF Those
  <2> QED BY <2>1
<1>2. \A a, b \in A : f[a] = f[b] => a = b BY DEF Those
<1>3. ASSUME NEW b \in B PROVE \E a \in A : f[a] = b
  <2>1. b - d \in i .. j /\ (b - d) + d = b /\ u[b].t = kind BY DEF Those
  <2>2. u[b] = s[b - d] BY <2>1
  <2>3. b - d \in A BY <2>1, <2>2 DEF Those
  <2> QED BY <2>1, <2>3
<1>4. IsFiniteSet(A) BY CountNat
<1> HIDE DEF A, B, f
<1>5. f \in Bijection(A, B)
  BY <1>1, <1>2, <1>3 DEF Bijection, Injection, Surjection, IsInjective
<1>6. ExistsBijection(A, B) BY <1>5 DEF ExistsBijection
<1>7. Cardinality(B) = Cardinality(A) BY <1>4, <1>6, FS_Bijection
<1> QED BY <1>7 DEF Count, A, B

(* Depth in terms of counts, and an integer                                *)
LEMMA DepthIs ==
  ASSUME NEW s, NEW i \in Int, NEW j \in Int
  PROVE  Depth(s, i, j) = Count(s, i, j, "begin") - Count(s, i, j, "end") /\ Depth(s, i, j) \in Int
<1>1. Depth(s, i, j) = Count(s, i, j, "begin") - Count(s, i, j, "end") BY DEF Depth, Count, Those
<1>2. Count(s, i, j, "begin") \in Nat /\ Count(s, i, j, "end") \in Nat BY CountNat
<1> QED BY <1>1, <1>2

(* The depth over a stretch is the sum of those over its two parts ...     *)
LEMMA DepthSplit ==
  ASSUME NEW s, NEW i \in Int, NEW m \in Int, NEW j \in Int, i <= m + 1, m <= j
  PROVE  Depth(s, i, j) = Depth(s, i, m) + Depth(s, m + 1, j)
<1>1. /\ Count(s, i, j, "begin") = Count(s, i, m, "begin") + Count(s, m + 1, j, "begin")
      /\ Count(s, i, j, "end") = Count(s, i, m, "end") + Count(s, m + 1, j, "end")
  BY CountSplit
<1>2. m + 1 \in Int OBVIOUS
<1>3. /\ Count(s, i, m, "begin") \in Nat /\ Count(s, m + 1, j, "begin") \in Nat
      /\ Count(s, i, m, "end") \in Nat /\ Count(s, m + 1, j, "end") \in Nat
  BY <1>2, CountNat
<1>4. /\ Depth(s, i, j) = Count(s, i, j, "begin") - Count(s, i, j, "end")
      /\ Depth(s, i, m) = Count(s, i, m, "begin") - Count(s, i, m, "end")
      /\ Depth(s, m + 1, j) = Count(s, m + 1, j, "begin") - Count(s, m + 1, j, "end")
  BY DepthIs
<1> QED BY <1>1, <1>3, <1>4

(* ... and depends on the tokens in it only, wherever they are.            *)
LEMMA DepthShift ==
  ASSUME NEW s, NEW u, NEW i \in Int, NEW j \in Int, NEW d \in Int,
         \A k \in i .. j : u[k + d] = s[k]
  PROVE  Depth(u, i + d, j + d) = Depth(s, i, j)
<1>1. \A kind : Count(u, i + d, j + d, kind) = Count(s, i, j, kind)
  <2> SUFFICES ASSUME NEW kind PROVE Count(u, i + d, j + d, kind) = Count(s, i, j, kind) OBVIOUS
  <2> QED BY CountShift
<1>2. /\ Depth(s, i, j) = Count(s, i, j, "begin") - Count(s, i, j, "end")
      /\ Depth(u, i + d, j + d) = Count(u, i + d, j + d, "begin") - Count(u, i + d, j + d, "end")
  BY DepthIs
<1> QED BY <1>1, <1>2

(* The tokens from i to j of s stand d further on in u.                    *)
Shifted(s, u, i, j, d) == \A k \in i .. j : u[k + d] = s[k]

(* The same for a list that stands further on in another                   *)
LEMMA DepthMoved ==
  ASSUME NEW s, NEW u, NEW i \in Int, NEW j \in Int, NEW a \in Int, NEW b \in Int, NEW d \in Int,
         a = i + d, b = j + d, Shifted(s, u, i, j, d)
  PROVE  Depth(u, a, b) = Depth(s, i, j)
BY DepthShift DEF Shifted

(* The same for tokens that stay where they are                            *)
LEMMA DepthSame ==
  ASSUME NEW s, NEW u, NEW i \in Int, NEW j \in Int, \A k \in i .. j : u[k] = s[k]
  PROVE  Depth(u, i, j) = Depth(s, i, j)
<1>1. \A kind : Those(u, i, j, kind) = Those(s, i, j, kind) BY DEF Those
<1> QED BY <1>1, DepthIs DEF Count

(* One token                                                               *)
LEMMA DepthOne ==
  ASSUME NEW s, NEW i \in Int
  PROVE  Depth(s, i, i) = IF s[i].t = "begin" THEN 1 ELSE IF s[i].t = "end" THEN -1 ELSE 0
<1>1. ASSUME NEW kind PROVE Count(s, i, i, kind) = IF s[i].t = kind THEN 1 ELSE 0
  <2>1. {k \in i .. i : s[k].t = kind} = IF s[i].t = kind THEN {i} ELSE {} OBVIOUS
  <2> QED BY <2>1, FS_Singleton, FS_EmptySet DEF Count, Those
<1>2. Depth(s, i, i) = Count(s, i, i, "begin") - Count(s, i, i, "end") BY DepthIs
<1>3. /\ Count(s, i, i, "begin") = IF s[i].t = "begin" THEN 1 ELSE 0
      /\ Count(s, i, i, "end") = IF s[i].t = "end" THEN 1 ELSE 0
  BY <1>1
<1> QED BY <1>2, <1>3

(* None                                                                    *)
LEMMA DepthNone ==
  ASSUME NEW s, NEW i \in Int, NEW j \in Int, j < i
  PROVE  Depth(s, i, j) = 0
<1>1. ASSUME NEW kind PROVE Count(s, i, j, kind) = 0
  <2>1. {k \in i .. j : s[k].t = kind} = {} OBVIOUS
  <2> QED BY <2>1, FS_EmptySet DEF Count, Those
<1> QED BY <1>1, DepthIs

(***************************************************************************)
(* Nodes                                                                   *)
(***************************************************************************)
(* How many nodes are open after token j                                   *)
Level(s, j) == Depth(s, 1, j)

(* A depth is a difference of levels.                                      *)
LEMMA LevelDepth ==
  ASSUME NEW s, NEW i \in Nat \ {0}, NEW j \in Nat, i <= j + 1
  PROVE  /\ Depth(s, i, j) = Level(s, j) - Level(s, i - 1)
         /\ Level(s, j) \in Int /\ Level(s, i - 1) \in Int
<1>1. i - 1 \in Int /\ 1 <= (i - 1) + 1 /\ i - 1 <= j /\ (i - 1) + 1 = i OBVIOUS
<1>2. Depth(s, 1, j) = Depth(s, 1, i - 1) + Depth(s, (i - 1) + 1, j) BY <1>1, DepthSplit
<1>3. Depth(s, 1, j) \in Int /\ Depth(s, 1, i - 1) \in Int /\ Depth(s, i, j) \in Int
  BY <1>1, DepthIs
<1> QED BY <1>1, <1>2, <1>3 DEF Level

(* The level after one more token                                          *)
LEMMA LevelStep ==
  ASSUME NEW s, NEW j \in Nat \ {0}
  PROVE  /\ Level(s, j) \in Int /\ Level(s, j - 1) \in Int
         /\ Level(s, j) = Level(s, j - 1) +
              (IF s[j].t = "begin" THEN 1 ELSE IF s[j].t = "end" THEN -1 ELSE 0)
<1>1. Depth(s, j, j) = Level(s, j) - Level(s, j - 1) /\ Level(s, j) \in Int /\ Level(s, j - 1) \in Int
  BY LevelDepth
<1> QED BY <1>1, DepthOne

(* The levels of a list that stands d further on in another one            *)
LEMMA LevelsMoved ==
  ASSUME NEW x, NEW u, NEW L \in Nat, NEW d \in Nat, Shifted(x, u, 1, L, d), NEW k \in 0 .. L
  PROVE  /\ Level(u, k + d) = Level(u, d) + Level(x, k)
         /\ Level(x, k) \in Int /\ Level(u, d) \in Int /\ Level(u, k + d) \in Int
<1>1. /\ k \in Int /\ d \in Int /\ 1 \in Int /\ d + 1 \in Int /\ k + d \in Int /\ d + 1 = 1 + d
      /\ k + d \in Nat /\ d + 1 \in Nat \ {0} /\ d + 1 <= (k + d) + 1 /\ (d + 1) - 1 = d
  OBVIOUS
<1>2. Shifted(x, u, 1, k, d)
  <2>1. \A j \in 1 .. k : j \in 1 .. L OBVIOUS
  <2> QED BY <2>1 DEF Shifted
<1>3. Depth(u, d + 1, k + d) = Depth(x, 1, k) BY <1>1, <1>2, DepthMoved
<1>4. Depth(u, d + 1, k + d) = Level(u, k + d) - Level(u, d)
        /\ Level(u, k + d) \in Int /\ Level(u, d) \in Int
  BY <1>1, LevelDepth
<1>5. Level(x, k) = Depth(x, 1, k) /\ Level(x, k) \in Int BY <1>1, DepthIs DEF Level
<1> QED BY <1>3, <1>4, <1>5

(* The level cannot fall to v but by way of v.                             *)
LEMMA Crossing ==
  ASSUME NEW s, NEW a \in Nat, NEW b \in Nat, NEW v \in Int, a <= b,
         Level(s, a) > v, Level(s, b) <= v
  PROVE  \E c \in a + 1 .. b : Level(s, c) = v /\ \A k \in a .. c - 1 : Level(s, k) > v
<1>1. \A k \in Nat : Level(s, k) \in Int BY DepthIs DEF Level
<1> DEFINE T == {k \in a .. b : Level(s, k) <= v}
<1>2. T \in SUBSET Nat /\ b \in T OBVIOUS
<1>3. PICK c \in T : \A k \in T : c <= k
  <2> HIDE DEF T
  <2> QED BY <1>2, LeastElement
<1>4. c \in a .. b /\ Level(s, c) <= v /\ c # a /\ \A k \in a .. c - 1 : ~(Level(s, k) <= v)
  <2>1. c \in a .. b /\ Level(s, c) <= v OBVIOUS
  <2>2. c # a BY <1>1, <2>1
  <2>3. ASSUME NEW k \in a .. c - 1, Level(s, k) <= v PROVE FALSE
    <3>1. k \in T /\ k < c BY <2>1, <2>3
    <3>2. c <= k BY <1>3, <3>1
    <3> QED BY <2>1, <3>1, <3>2
  <2> QED BY <2>1, <2>2, <2>3
<1>5. c \in a + 1 .. b /\ c - 1 \in a .. c - 1 /\ c \in Nat \ {0} BY <1>4
<1>6. \A k \in a .. c - 1 : Level(s, k) > v BY <1>1, <1>4
<1>7. Level(s, c - 1) > v BY <1>5, <1>6
<1>8. Level(s, c) >= Level(s, c - 1) - 1 BY <1>5, LevelStep
<1>9. Level(s, c) = v BY <1>1, <1>4, <1>5, <1>7, <1>8, LevelStep
<1> QED BY <1>5, <1>6, <1>9

Walked(s, i, j) == \A k \in i .. j : s[k].t \in {"begin", "end", "prop", "nop"}

(* The tokens from i to e are a node of s.                                 *)
Node(s, i, e) ==
  /\ i \in Nat \ {0} /\ e \in Nat /\ i < e /\ e <= Len(s)
  /\ s[i].t = "begin" /\ Walked(s, i, e)
  /\ Level(s, e) = Level(s, i - 1)
  /\ \A k \in i .. e - 1 : Level(s, k) > Level(s, i - 1)

(* In a node the level is above that before it, and at its end the same.   *)
LEMMA NodeLevels ==
  ASSUME NEW s, NEW i, NEW e, Node(s, i, e)
  PROVE  /\ \A k \in Nat : Level(s, k) \in Int
         /\ Level(s, i) = Level(s, i - 1) + 1
         /\ Level(s, e - 1) = Level(s, i) /\ s[e].t = "end"
         /\ \A k \in i .. e - 1 : Level(s, k) >= Level(s, i)
<1>1. \A k \in Nat : Level(s, k) \in Int BY DepthIs DEF Level
<1>2. /\ i \in Nat \ {0} /\ e \in Nat \ {0} /\ e - 1 \in i .. e - 1 /\ s[i].t = "begin"
      /\ Level(s, e) = Level(s, i - 1) /\ \A k \in i .. e - 1 : Level(s, k) > Level(s, i - 1)
  BY DEF Node
<1>3. Level(s, i) = Level(s, i - 1) + 1 BY <1>2, LevelStep
<1>4. Level(s, e - 1) > Level(s, i - 1) BY <1>2
<1>5. Level(s, e - 1) = Level(s, i) /\ s[e].t = "end" BY <1>1, <1>2, <1>3, <1>4, LevelStep
<1>6. \A k \in i .. e - 1 : Level(s, k) >= Level(s, i) BY <1>1, <1>2, <1>3
<1> QED BY <1>1, <1>3, <1>5, <1>6

(* EndOf finds where a node ends ...                                       *)
LEMMA NodeEnds ==
  ASSUME NEW s, NEW i, NEW e, Node(s, i, e), Len(s) \in Nat
  PROVE  EndOf(s, i) = e
<1> DEFINE ends == {j \in i .. Len(s) : Depth(s, i, j) = 0 /\ Walked(s, i, j)}
<1>1. EndOf(s, i) = IF ends = {} THEN 0 ELSE Min(ends) BY DEF EndOf, Walked
<1>2. /\ i \in Nat \ {0} /\ e \in Nat /\ i < e /\ e <= Len(s) /\ Walked(s, i, e)
      /\ Level(s, e) = Level(s, i - 1) /\ \A k \in i .. e - 1 : Level(s, k) > Level(s, i - 1)
  BY DEF Node
<1>3. \A j \in i .. Len(s) : Depth(s, i, j) = Level(s, j) - Level(s, i - 1)
                               /\ Level(s, j) \in Int /\ Level(s, i - 1) \in Int
  BY <1>2, LevelDepth
<1>4. e \in ends BY <1>2, <1>3
<1>5. \A j \in ends : e <= j BY <1>2, <1>3
<1>6. \A j \in ends : j \in Int BY <1>2
<1>7. Min(ends) \in ends /\ \A j \in ends : Min(ends) <= j
  <2> HIDE DEF ends
  <2> QED BY <1>4, <1>5 DEF Min
<1> HIDE DEF ends
<1>8. Min(ends) <= e /\ e <= Min(ends) /\ Min(ends) \in Int BY <1>4, <1>5, <1>6, <1>7
<1> QED BY <1>1, <1>2, <1>4, <1>8

(* ... and what it finds is one.                                           *)
LEMMA EndOfNode ==
  ASSUME NEW s, Len(s) \in Nat, NEW i \in 1 .. Len(s), s[i].t = "begin", EndOf(s, i) # 0
  PROVE  Node(s, i, EndOf(s, i))
<1> DEFINE ends == {j \in i .. Len(s) : Depth(s, i, j) = 0 /\ Walked(s, i, j)}
           e == EndOf(s, i)
<1>1. e = IF ends = {} THEN 0 ELSE Min(ends) BY DEF EndOf, Walked
<1>2. ends # {} /\ ends \in SUBSET Nat BY <1>1
<1>3. e \in ends /\ \A j \in ends : e <= j
  <2> HIDE DEF ends
  <2>1. PICK m \in ends : \A j \in ends : m <= j BY <1>2, LeastElement
  <2> QED BY <1>1, <1>2, <2>1 DEF Min
<1>4. e \in i .. Len(s) /\ Depth(s, i, e) = 0 /\ Walked(s, i, e) BY <1>3
<1> HIDE DEF e
<1>5. \A j \in i .. Len(s) : Depth(s, i, j) = Level(s, j) - Level(s, i - 1)
                               /\ Level(s, j) \in Int /\ Level(s, i - 1) \in Int
  BY LevelDepth
<1>6. Level(s, e) = Level(s, i - 1) BY <1>4, <1>5
<1>7. Level(s, i) = Level(s, i - 1) + 1 BY LevelStep
<1>8. i < e BY <1>4, <1>5, <1>6, <1>7
<1>9. ASSUME NEW k \in i .. e - 1 PROVE Level(s, k) > Level(s, i - 1)
  <2> SUFFICES ASSUME ~(Level(s, k) > Level(s, i - 1)) PROVE FALSE OBVIOUS
  <2>1. k \in Nat /\ i \in Nat /\ i <= k /\ k \in i .. Len(s) BY <1>4
  <2>2. Level(s, k) <= Level(s, i - 1) BY <1>5, <2>1
  <2>3. Level(s, i) > Level(s, i - 1) /\ Level(s, i - 1) \in Int BY <1>7, LevelStep
  <2>4. PICK c \in i + 1 .. k : Level(s, c) = Level(s, i - 1) BY <2>1, <2>2, <2>3, Crossing
  <2>5. c \in i .. Len(s) /\ c < e BY <1>4, <2>1
  <2>6. Depth(s, i, c) = 0 BY <1>5, <2>4, <2>5
  <2>7. Walked(s, i, c) BY <1>4, <2>5 DEF Walked
  <2>8. c \in ends BY <2>5, <2>6, <2>7
  <2> QED BY <1>3, <1>4, <2>5, <2>8
<1>10. i \in Nat \ {0} /\ e \in Nat /\ e <= Len(s) BY <1>4
<1> QED BY <1>4, <1>6, <1>8, <1>9, <1>10 DEF Node, e

(* A node that begins in another one ends in it.                           *)
LEMMA NodeInside ==
  ASSUME NEW s, Len(s) \in Nat, NEW r, NEW E, Node(s, r, E),
         NEW n \in r + 1 .. E, s[n].t = "begin"
  PROVE  Node(s, n, EndOf(s, n)) /\ EndOf(s, n) < E
<1>1. r \in Nat \ {0} /\ E \in Nat /\ r < E /\ E <= Len(s) /\ Walked(s, r, E) BY DEF Node
<1>2. /\ \A k \in Nat : Level(s, k) \in Int
      /\ Level(s, E) < Level(s, r)
      /\ s[E].t = "end" /\ \A k \in r .. E - 1 : Level(s, k) >= Level(s, r)
  <2>1. /\ \A k \in Nat : Level(s, k) \in Int
        /\ Level(s, r) = Level(s, r - 1) + 1
        /\ s[E].t = "end" /\ \A k \in r .. E - 1 : Level(s, k) >= Level(s, r)
    BY NodeLevels
  <2>2. Level(s, E) = Level(s, r - 1) /\ r - 1 \in Nat BY <1>1 DEF Node
  <2>3. Level(s, r - 1) \in Int BY <2>1, <2>2
  <2> QED BY <2>1, <2>2, <2>3
<1>3. n \in Nat \ {0} /\ n - 1 \in r .. E - 1 /\ n # E /\ n \in 1 .. Len(s) BY <1>1, <1>2
<1>4. Level(s, n) = Level(s, n - 1) + 1 /\ Level(s, n - 1) \in Int BY <1>3, LevelStep
<1>5. Level(s, n - 1) >= Level(s, r) BY <1>2, <1>3
<1>6. Level(s, E) <= Level(s, n - 1) /\ Level(s, E) # Level(s, n - 1) BY <1>1, <1>2, <1>4, <1>5
<1>7. PICK c \in n + 1 .. E :
        /\ Level(s, c) = Level(s, n - 1)
        /\ \A k \in n .. c - 1 : Level(s, k) > Level(s, n - 1)
  <2>1. Level(s, n) > Level(s, n - 1) /\ n <= E BY <1>4
  <2> QED BY <1>1, <1>3, <1>4, <1>6, <2>1, Crossing
<1>8. c # E BY <1>6, <1>7
<1>9. Walked(s, n, c) BY <1>1, <1>3, <1>7 DEF Walked
<1>10. Node(s, n, c) BY <1>1, <1>3, <1>7, <1>9 DEF Node
<1>11. EndOf(s, n) = c BY <1>10, NodeEnds
<1> QED BY <1>1, <1>3, <1>8, <1>10, <1>11

(* A node is a child of the one from r to E if it begins where no other    *)
(* one is open in it.                                                      *)
LEMMA ChildLevel ==
  ASSUME NEW s, NEW r, NEW E, Node(s, r, E), NEW k \in r + 1 .. E
  PROVE  Parent(s, k) = r <=> Level(s, k - 1) = Level(s, r)
<1> DEFINE open == {i \in 1 .. k - 1 : s[i].t = "begin" /\ Depth(s, i, k - 1) > 0}
           all == {0} \union open
<1>1. /\ r \in Nat \ {0} /\ E \in Nat /\ k \in Nat /\ r <= k - 1 /\ k - 1 <= E - 1
      /\ k - 1 \in r .. E - 1 /\ s[r].t = "begin"
  BY DEF Node
<1>2. /\ \A j \in Nat : Level(s, j) \in Int
      /\ Level(s, r) = Level(s, r - 1) + 1
      /\ \A j \in r .. E - 1 : Level(s, j) >= Level(s, r)
  BY NodeLevels
<1>3. \A i \in 1 .. k - 1 : Depth(s, i, k - 1) = Level(s, k - 1) - Level(s, i - 1)
  BY <1>1, LevelDepth
<1>4. Level(s, k - 1) >= Level(s, r) BY <1>1, <1>2
<1>5. Parent(s, k) = Max(all) BY DEF Parent
<1>6. r \in all
  <2>1. r - 1 \in Nat /\ Level(s, r - 1) \in Int /\ Level(s, k - 1) \in Int BY <1>1, <1>2
  <2>2. Depth(s, r, k - 1) > 0 BY <1>1, <1>2, <1>3, <1>4, <2>1
  <2> QED BY <1>1, <2>2
<1>7. all \in SUBSET Nat /\ \A i \in all : i <= k BY <1>1
<1>8. Max(all) \in all /\ \A i \in all : i <= Max(all)
  <2> HIDE DEF all
  <2>1. PICK m \in all : \A i \in all : i <= m BY <1>1, <1>6, <1>7, GreatestElement
  <2> QED BY <1>7, <2>1 DEF Max
<1>9. ASSUME Level(s, k - 1) = Level(s, r) PROVE Parent(s, k) = r
  <2>1. ASSUME NEW i \in all, i > r PROVE FALSE
    <3>1. i \in r + 1 .. k - 1 /\ Depth(s, i, k - 1) > 0 BY <1>1, <2>1
    <3>2. i - 1 \in r .. E - 1 /\ i \in 1 .. k - 1 BY <1>1, <3>1
    <3>3. Level(s, i - 1) >= Level(s, r) /\ Level(s, i - 1) \in Int BY <1>1, <1>2, <3>2
    <3>4. Level(s, r) \in Int BY <1>1, <1>2
    <3> QED BY <1>3, <1>9, <3>1, <3>2, <3>3, <3>4
  <2>2. Max(all) \in Int /\ r \in Int BY <1>1, <1>7, <1>8
  <2> HIDE DEF all
  <2>3. r <= Max(all) /\ ~(Max(all) > r) BY <1>6, <1>8, <2>1
  <2> QED BY <1>5, <2>2, <2>3
<1>10. ASSUME Level(s, k - 1) # Level(s, r) PROVE Parent(s, k) # r
  <2>1. Level(s, k - 1) > Level(s, r) /\ Level(s, r) \in Int /\ k - 1 \in Nat
    BY <1>1, <1>2, <1>4, <1>10
  <2> DEFINE low == {i \in r .. k - 2 : Level(s, i) <= Level(s, r)}
  <2>2. low \in SUBSET Nat /\ r \in low /\ \A i \in low : i <= k
    BY <1>1, <2>1
  <2>3. PICK i \in low : \A j \in low : j <= i
    <3> HIDE DEF low
    <3> QED BY <1>1, <2>2, GreatestElement
  <2>4. i \in r .. k - 2 /\ Level(s, i) <= Level(s, r) OBVIOUS
  <2>5. i + 1 \in r + 1 .. k - 1 /\ i + 1 \notin low /\ (i + 1) - 1 = i /\ i + 1 \in Nat \ {0}
    <3>1. i + 1 \notin low BY <1>1, <2>3, <2>4
    <3> HIDE DEF low
    <3> QED BY <1>1, <2>4, <3>1
  <2>6. Level(s, i + 1) > Level(s, r) BY <1>1, <1>2, <2>1, <2>5
  <2>7. Level(s, i) \in Int /\ Level(s, i + 1) \in Int BY <1>1, <1>2, <2>4, <2>5
  <2>8. s[i + 1].t = "begin"
    <3>1. Level(s, i + 1) = Level(s, i) +
            (IF s[i + 1].t = "begin" THEN 1 ELSE IF s[i + 1].t = "end" THEN -1 ELSE 0)
      BY <2>5, LevelStep
    <3> QED BY <2>1, <2>4, <2>6, <2>7, <3>1
  <2>9. Depth(s, i + 1, k - 1) > 0
    <3>1. i + 1 \in 1 .. k - 1 BY <1>1, <2>5
    <3>2. Depth(s, i + 1, k - 1) = Level(s, k - 1) - Level(s, (i + 1) - 1) BY <1>3, <3>1
    <3>3. Level(s, k - 1) \in Int BY <1>2, <2>1
    <3> QED BY <2>1, <2>4, <2>5, <2>7, <3>2, <3>3
  <2>10. i + 1 \in all
    <3>1. i + 1 \in 1 .. k - 1 BY <1>1, <2>5
    <3>2. i + 1 \in open BY <2>8, <2>9, <3>1
    <3> HIDE DEF open
    <3> QED BY <3>2
  <2>11. i + 1 <= Max(all) /\ i + 1 > r
    <3>1. i + 1 > r BY <1>1, <2>5
    <3> HIDE DEF all
    <3> QED BY <1>8, <2>10, <3>1
  <2>12. i + 1 \in Int /\ r \in Int /\ Max(all) \in Int BY <1>1, <1>7, <1>8, <2>4
  <2> HIDE DEF all, low
  <2> QED BY <1>5, <2>11, <2>12
<1> QED BY <1>9, <1>10

(* The root begins at the first token that is no NOP.                      *)
LEMMA RootIs ==
  ASSUME NEW s, Len(s) \in Nat, NEW r \in Nat \ {0}
  PROVE  Root(s) = r <=> /\ r <= Len(s) /\ s[r].t = "begin"
                         /\ \A k \in 1 .. r - 1 : s[k].t = "nop"
<1> DEFINE other == {k \in 1 .. Len(s) : s[k].t # "nop"}
           first == IF other # {} THEN Min(other) ELSE 0
<1>1. Root(s) = IF first # 0 /\ s[first].t = "begin" THEN first ELSE 0
  BY DEF Root, SelectInSeq
<1>2. ASSUME other # {} PROVE Min(other) \in other /\ \A k \in other : Min(other) <= k
  <2>1. other \in SUBSET Nat OBVIOUS
  <2> HIDE DEF other
  <2>2. PICK m \in other : \A k \in other : m <= k BY <1>2, <2>1, LeastElement
  <2> QED BY <2>2 DEF Min
<1>3. ASSUME Root(s) = r
      PROVE  r <= Len(s) /\ s[r].t = "begin" /\ \A k \in 1 .. r - 1 : s[k].t = "nop"
  <2>1. other # {} /\ r = Min(other) /\ s[r].t = "begin" BY <1>1, <1>3
  <2>2. r \in other /\ \A k \in other : r <= k BY <1>2, <2>1
  <2>3. r <= Len(s) BY <2>2
  <2>4. ASSUME NEW k \in 1 .. r - 1 PROVE s[k].t = "nop"
    <3>1. k \in 1 .. Len(s) /\ ~(r <= k) BY <2>3
    <3> QED BY <2>2, <3>1
  <2> QED BY <2>1, <2>3, <2>4
<1>4. ASSUME r <= Len(s), s[r].t = "begin", \A k \in 1 .. r - 1 : s[k].t = "nop"
      PROVE  Root(s) = r
  <2>1. r \in other BY <1>4
  <2>2. \A k \in other : r <= k /\ k \in Int BY <1>4
  <2>3. Min(other) \in other /\ Min(other) <= r BY <1>2, <2>1
  <2>4. Min(other) = r
    <3> HIDE DEF other
    <3>1. r <= Min(other) /\ Min(other) \in Int BY <2>2, <2>3
    <3> QED BY <2>3, <3>1
  <2> HIDE DEF other
  <2> QED BY <1>1, <1>4, <2>1, <2>4
<1> QED BY <1>3, <1>4

(* The nodes named partitions among the children of the root               *)
Candidates(s, r, E) ==
  {k \in r + 1 .. E : s[k].t = "begin" /\ s[k].name = "partitions" /\ Level(s, k - 1) = Level(s, r)}

(* A tree: its root is a node.                                             *)
Tree(s, r, E) == Len(s) \in Nat /\ Root(s) = r /\ Node(s, r, E)

(* What Root and EndOf find is one.                                        *)
LEMMA TreeFound ==
  ASSUME NEW s, Len(s) \in Nat, Root(s) # 0, EndOf(s, Root(s)) # 0
  PROVE  Tree(s, Root(s), EndOf(s, Root(s)))
<1> DEFINE r == Root(s)
<1>1. r \in Nat \ {0}
  <2> DEFINE other == {k \in 1 .. Len(s) : s[k].t # "nop"}
  <2>1. r = Min(other) /\ other # {} BY DEF Root, SelectInSeq
  <2>2. other \in SUBSET Nat OBVIOUS
  <2>3. Min(other) \in other
    <3> HIDE DEF other
    <3>1. PICK m \in other : \A k \in other : m <= k BY <2>1, <2>2, LeastElement
    <3> QED BY <3>1 DEF Min
  <2> QED BY <2>1, <2>3
<1>2. r <= Len(s) /\ s[r].t = "begin" BY <1>1, RootIs
<1>3. r \in 1 .. Len(s) BY <1>1, <1>2
<1> QED BY <1>2, <1>3, EndOfNode DEF Tree

(* The last candidate is taken.                                            *)
LEMMA PartitionsAtIs ==
  ASSUME NEW s, NEW r, NEW E, Tree(s, r, E)
  PROVE  /\ PartitionsAt(s) = 0 => Candidates(s, r, E) = {}
         /\ PartitionsAt(s) # 0 => PartitionsAt(s) \in Candidates(s, r, E)
         /\ \A k \in Candidates(s, r, E) : k <= PartitionsAt(s)
         /\ PartitionsAt(s) \in Nat
<1> DEFINE C == {k \in r + 1 .. E : s[k].t = "begin" /\ s[k].name = "partitions" /\ Parent(s, k) = r}
           all == {0} \union C
<1>1. Len(s) \in Nat /\ Root(s) = r /\ Node(s, r, E) BY DEF Tree
<1>2. r \in Nat \ {0} /\ E \in Nat BY <1>1 DEF Node
<1>3. EndOf(s, r) = E BY <1>1, NodeEnds
<1>4. PartitionsAt(s) = Max(all) BY <1>1, <1>2, <1>3 DEF PartitionsAt
<1>5. C = Candidates(s, r, E)
  <2>1. \A k \in r + 1 .. E : Parent(s, k) = r <=> Level(s, k - 1) = Level(s, r)
    BY <1>1, ChildLevel
  <2> QED BY <2>1 DEF Candidates
<1>6. all \in SUBSET Nat /\ 0 \in all /\ \A k \in all : k <= E BY <1>2
<1>7. Max(all) \in all /\ \A k \in all : k <= Max(all)
  <2> HIDE DEF all
  <2>1. PICK m \in all : \A k \in all : k <= m BY <1>2, <1>6, GreatestElement
  <2> QED BY <1>6, <2>1 DEF Max
<1>8. \A k \in C : k \in Nat \ {0} BY <1>2
<1> HIDE DEF C
<1> QED BY <1>4, <1>5, <1>6, <1>7, <1>8

(* There is none in what is no tree.                                       *)
LEMMA PartitionsOfTree ==
  ASSUME NEW s, Len(s) \in Nat, PartitionsAt(s) # 0
  PROVE  Tree(s, Root(s), EndOf(s, Root(s)))
<1>1. Root(s) # 0 BY DEF PartitionsAt
<1>2. ASSUME EndOf(s, Root(s)) = 0 PROVE FALSE
  <2> DEFINE r == Root(s)
             C == {k \in r + 1 .. 0 : s[k].t = "begin" /\ s[k].name = "partitions" /\ Parent(s, k) = r}
  <2>1. PartitionsAt(s) = Max({0} \union C) BY <1>1, <1>2 DEF PartitionsAt
  <2>2. r \in Nat
    <3> DEFINE other == {k \in 1 .. Len(s) : s[k].t # "nop"}
    <3>1. r = Min(other) /\ other # {} BY <1>1 DEF Root, SelectInSeq
    <3>2. other \in SUBSET Nat OBVIOUS
    <3>3. Min(other) \in other
      <4> HIDE DEF other
      <4>1. PICK m \in other : \A k \in other : m <= k BY <3>1, <3>2, LeastElement
      <4> QED BY <4>1 DEF Min
    <3> QED BY <3>1, <3>3
  <2>3. {0} \union C = {0} BY <2>2
  <2>4. Max({0}) = 0 BY DEF Max
  <2> QED BY <2>1, <2>3, <2>4
<1> QED BY <1>1, <1>2, TreeFound

(***************************************************************************)
(* One node in place of another, or of none                                *)
(***************************************************************************)
(* u is s with the node from n to e replaced by the one from n to f; there *)
(* is none to replace if e is before n, and none instead if f is.          *)
Replaced(s, u, n, e, f) ==
  /\ n \in Nat \ {0} /\ e \in Nat /\ f \in Nat /\ n - 1 <= e /\ n - 1 <= f
  /\ Len(s) \in Nat /\ Len(u) \in Nat /\ e <= Len(s) /\ Len(u) = Len(s) + (f - e)
  /\ \A k \in 1 .. n - 1 : u[k] = s[k]
  /\ \A k \in e + 1 .. Len(s) : u[k + (f - e)] = s[k]
  /\ e = n - 1 \/ Node(s, n, e)
  /\ f = n - 1 \/ Node(u, n, f)

(* The levels of the other tokens stay, those of the new ones are above.   *)
LEMMA ReplacedLevels ==
  ASSUME NEW s, NEW u, NEW n, NEW e, NEW f, Replaced(s, u, n, e, f)
  PROVE  /\ \A j \in 0 .. n - 1 : Level(u, j) = Level(s, j)
         /\ \A j \in e .. Len(s) : Level(u, j + (f - e)) = Level(s, j)
         /\ \A j \in n .. f - 1 : Level(u, j) > Level(s, n - 1)
<1>1. /\ n \in Nat \ {0} /\ e \in Nat /\ f \in Nat /\ n - 1 <= e /\ n - 1 <= f
      /\ Len(s) \in Nat /\ e <= Len(s)
  BY DEF Replaced
<1>2. ASSUME NEW j \in 0 .. n - 1 PROVE Level(u, j) = Level(s, j)
  <2>1. \A k \in 1 .. j : u[k] = s[k] BY <1>1 DEF Replaced
  <2>2. j \in Int BY <1>1
  <2> QED BY <2>1, <2>2, DepthSame DEF Level
<1>3. n - 1 \in 0 .. n - 1 /\ n - 1 \in Nat BY <1>1
<1>4. Level(u, n - 1) = Level(s, n - 1) BY <1>2, <1>3
<1>5. Level(s, e) = Level(s, n - 1) BY DEF Replaced, Node
<1>6. Level(u, f) = Level(s, n - 1) BY <1>4 DEF Replaced, Node
<1>7. ASSUME NEW j \in e .. Len(s) PROVE Level(u, j + (f - e)) = Level(s, j)
  <2> DEFINE d == f - e
  <2>1. /\ d \in Int /\ e + 1 \in Nat \ {0} /\ f + 1 \in Nat \ {0} /\ j \in Nat
        /\ (e + 1) + d = f + 1 /\ (e + 1) - 1 = e /\ (f + 1) - 1 = f
        /\ j + d \in Nat /\ e + 1 <= j + 1 /\ f + 1 <= (j + d) + 1
    BY <1>1
  <2>2. \A k \in e + 1 .. j : u[k + d] = s[k] BY <1>1 DEF Replaced
  <2> HIDE DEF d
  <2>3. e + 1 \in Int /\ j \in Int BY <2>1
  <2>4. Depth(u, (e + 1) + d, j + d) = Depth(s, e + 1, j) BY <2>1, <2>2, <2>3, DepthShift
  <2>5. Depth(s, e + 1, j) = Level(s, j) - Level(s, e) /\ Level(s, j) \in Int /\ Level(s, e) \in Int
    BY <2>1, LevelDepth
  <2>6. Depth(u, f + 1, j + d) = Level(u, j + d) - Level(u, f)
          /\ Level(u, j + d) \in Int /\ Level(u, f) \in Int
    BY <2>1, LevelDepth
  <2>7. Level(u, j + d) - Level(u, f) = Level(s, j) - Level(s, e) BY <2>1, <2>4, <2>5, <2>6
  <2>8. Level(u, f) = Level(s, e) BY <1>5, <1>6
  <2>9. Level(u, j + d) = Level(s, j) BY <2>5, <2>6, <2>7, <2>8
  <2> QED BY <2>9 DEF d
<1>8. ASSUME NEW j \in n .. f - 1 PROVE Level(u, j) > Level(s, n - 1)
  <2>1. f # n - 1 BY <1>1
  <2>2. Node(u, n, f) BY <2>1 DEF Replaced
  <2> QED BY <1>4, <2>2 DEF Node
<1> QED BY <1>2, <1>7, <1>8

(* A tree stays one if the node is below its root.                         *)
LEMMA ReplacedTree ==
  ASSUME NEW s, NEW u, NEW n, NEW e, NEW f, Replaced(s, u, n, e, f),
         NEW r, NEW E, Tree(s, r, E), r < n, n <= E, e < E
  PROVE  Tree(u, r, E + (f - e))
<1>1. /\ n \in Nat \ {0} /\ e \in Nat /\ f \in Nat /\ n - 1 <= e /\ n - 1 <= f
      /\ Len(s) \in Nat /\ Len(u) \in Nat /\ e <= Len(s) /\ Len(u) = Len(s) + (f - e)
  BY DEF Replaced
<1>2. /\ r \in Nat \ {0} /\ E \in Nat /\ r < E /\ E <= Len(s)
      /\ s[r].t = "begin" /\ Walked(s, r, E) /\ Level(s, E) = Level(s, r - 1)
      /\ Root(s) = r /\ Node(s, r, E)
  BY DEF Tree, Node
<1>3. /\ \A k \in 1 .. n - 1 : u[k] = s[k]
      /\ \A k \in e + 1 .. Len(s) : u[k + (f - e)] = s[k]
  BY DEF Replaced
<1> DEFINE d == f - e  F == E + d
<1>4. d \in Int /\ F \in Nat /\ r < F /\ F <= Len(u) /\ f < F /\ d = f - e BY <1>1, <1>2
<1>5. /\ \A j \in 0 .. n - 1 : Level(u, j) = Level(s, j)
      /\ \A j \in e .. Len(s) : Level(u, j + d) = Level(s, j)
      /\ \A j \in n .. f - 1 : Level(u, j) > Level(s, n - 1)
  BY ReplacedLevels
<1>6. /\ \A k \in Nat : Level(s, k) \in Int
      /\ \A k \in r .. E - 1 : Level(s, k) >= Level(s, r)
      /\ Level(s, r) = Level(s, r - 1) + 1
  BY <1>2, NodeLevels
<1> HIDE DEF d
<1>7. Root(u) = r
  <2>1. s[r].t = "begin" /\ \A k \in 1 .. r - 1 : s[k].t = "nop" BY <1>1, <1>2, RootIs
  <2>2. r \in 1 .. n - 1 /\ \A k \in 1 .. r - 1 : k \in 1 .. n - 1 BY <1>1, <1>2
  <2>3. u[r].t = "begin" /\ \A k \in 1 .. r - 1 : u[k].t = "nop" BY <1>3, <2>1, <2>2
  <2>4. r <= Len(u) BY <1>2, <1>4
  <2> QED BY <1>1, <1>2, <2>3, <2>4, RootIs
<1>8. u[r].t = "begin"
  <2>1. r \in 1 .. n - 1 BY <1>1, <1>2
  <2> QED BY <1>2, <1>3, <2>1
<1>9. Walked(u, r, F)
  <2> SUFFICES ASSUME NEW k \in r .. F PROVE u[k].t \in {"begin", "end", "prop", "nop"}
    BY DEF Walked
  <2>1. k \in Int /\ r <= k /\ k <= F BY <1>2, <1>4
  <2>2. CASE k < n
    <3>1. k \in 1 .. n - 1 /\ k \in r .. E BY <1>1, <1>2, <2>1, <2>2
    <3> QED BY <1>2, <1>3, <3>1 DEF Walked
  <2>3. CASE k > f
    <3>1. k - d \in e + 1 .. Len(s) /\ k - d \in r .. E /\ (k - d) + d = k
      BY <1>1, <1>2, <1>4, <2>1, <2>3
    <3>2. u[k] = s[k - d] BY <1>3, <3>1 DEF d
    <3> QED BY <1>2, <3>1, <3>2 DEF Walked
  <2>4. CASE n <= k /\ k <= f
    <3>1. f # n - 1 /\ k \in n .. f BY <1>1, <2>1, <2>4
    <3>2. Walked(u, n, f) BY <3>1 DEF Replaced, Node
    <3> QED BY <3>1, <3>2 DEF Walked
  <2> QED BY <1>1, <2>1, <2>2, <2>3, <2>4
<1>10. Level(u, r - 1) = Level(s, r - 1)
  <2>1. r - 1 \in 0 .. n - 1 BY <1>1, <1>2
  <2> QED BY <1>5, <2>1
<1>11. Level(u, F) = Level(s, E)
  <2>1. E \in e .. Len(s) BY <1>1, <1>2
  <2> QED BY <1>5, <2>1
<1>12. ASSUME NEW k \in r .. F - 1 PROVE Level(u, k) > Level(u, r - 1)
  <2>1. k \in Int /\ r <= k /\ k <= F - 1 BY <1>2, <1>4
  <2>2. r - 1 \in Nat /\ Level(s, r - 1) \in Int /\ Level(s, r) \in Int BY <1>2, <1>6
  <2>3. ASSUME NEW j \in r .. E - 1 PROVE Level(s, j) > Level(s, r - 1)
    <3>1. j \in Nat BY <1>2
    <3>2. Level(s, j) >= Level(s, r) /\ Level(s, j) \in Int BY <1>6, <3>1
    <3> QED BY <1>6, <2>2, <3>2
  <2>4. CASE k < n
    <3>1. k \in 0 .. n - 1 /\ k \in r .. E - 1 BY <1>1, <1>2, <2>1, <2>4
    <3> QED BY <1>5, <1>10, <2>3, <3>1
  <2>5. CASE k >= f
    <3>1. k - d \in e .. Len(s) /\ k - d \in r .. E - 1 /\ (k - d) + d = k
      BY <1>1, <1>2, <1>4, <2>1, <2>5
    <3>2. Level(u, k) = Level(s, k - d) BY <1>5, <3>1
    <3> QED BY <1>10, <2>3, <3>1, <3>2
  <2>6. CASE n <= k /\ k < f
    <3>1. k \in n .. f - 1 /\ n - 1 \in r .. E - 1 /\ k \in Nat /\ n - 1 \in Nat
      BY <1>1, <1>2, <2>1, <2>6
    <3>2. Level(u, k) > Level(s, n - 1) /\ Level(s, n - 1) > Level(s, r - 1) BY <1>5, <2>3, <3>1
    <3>3. Level(u, k) \in Int BY <3>1, DepthIs DEF Level
    <3>4. Level(s, n - 1) \in Int BY <1>6, <3>1
    <3> QED BY <1>10, <2>2, <3>2, <3>3, <3>4
  <2> QED BY <1>1, <2>1, <2>4, <2>5, <2>6
<1>13. Node(u, r, F) BY <1>2, <1>4, <1>8, <1>9, <1>10, <1>11, <1>12 DEF Node
<1> QED BY <1>1, <1>7, <1>13 DEF Tree, d

(* The candidates outside the node stay, those in it never were any.       *)
LEMMA ReplacedCandidates ==
  ASSUME NEW s, NEW u, NEW n, NEW e, NEW f, Replaced(s, u, n, e, f),
         NEW r, NEW E, Tree(s, r, E), r < n, n <= E, e < E,
         NEW k \in Candidates(u, r, E + (f - e))
  PROVE  \/ k < n /\ k \in Candidates(s, r, E)
         \/ k = n /\ k <= f
         \/ k > f /\ k - (f - e) > e /\ k - (f - e) \in Candidates(s, r, E)
<1> DEFINE d == f - e  F == E + d
<1>1. /\ n \in Nat \ {0} /\ e \in Nat /\ f \in Nat /\ n - 1 <= e /\ n - 1 <= f
      /\ Len(s) \in Nat /\ Len(u) \in Nat /\ e <= Len(s)
      /\ \A j \in 1 .. n - 1 : u[j] = s[j]
      /\ \A j \in e + 1 .. Len(s) : u[j + d] = s[j]
  BY DEF Replaced
<1>2. r \in Nat \ {0} /\ E \in Nat /\ r < E /\ E <= Len(s) /\ Node(s, r, E) BY DEF Tree, Node
<1>3. d \in Int /\ d = f - e /\ F \in Int /\ F = E + d BY <1>1, <1>2
<1>4. /\ \A j \in 0 .. n - 1 : Level(u, j) = Level(s, j)
      /\ \A j \in e .. Len(s) : Level(u, j + d) = Level(s, j)
      /\ \A j \in n .. f - 1 : Level(u, j) > Level(s, n - 1)
  BY ReplacedLevels
<1>5. /\ \A j \in Nat : Level(s, j) \in Int
      /\ \A j \in r .. E - 1 : Level(s, j) >= Level(s, r)
  BY <1>2, NodeLevels
<1>6. /\ k \in r + 1 .. F /\ u[k].t = "begin" /\ u[k].name = "partitions"
      /\ Level(u, k - 1) = Level(u, r)
  BY DEF Candidates
<1>7. Level(u, r) = Level(s, r) /\ Level(s, r) \in Int
  <2>1. r \in 0 .. n - 1 /\ r \in Nat BY <1>1, <1>2
  <2> QED BY <1>4, <1>5, <2>1
<1> HIDE DEF d, F
<1>8. CASE k < n
  <2>1. k \in 1 .. n - 1 /\ k - 1 \in 0 .. n - 1 /\ k \in r + 1 .. E
    <3>1. k \in Int /\ r + 1 <= k BY <1>2, <1>3, <1>6
    <3> QED BY <1>1, <1>2, <1>8, <3>1
  <2>2. u[k] = s[k] /\ Level(u, k - 1) = Level(s, k - 1) BY <1>1, <1>4, <2>1
  <2> QED BY <1>6, <1>7, <1>8, <2>1, <2>2 DEF Candidates
<1>9. CASE k > f
  <2>1. /\ k - d \in e + 1 .. Len(s) /\ k - d \in r + 1 .. E /\ (k - d) + d = k
        /\ (k - d) - 1 \in e .. Len(s) /\ ((k - d) - 1) + d = k - 1 /\ k - d > e
    BY <1>1, <1>2, <1>3, <1>6, <1>9
  <2>2. u[k] = s[k - d] BY <1>1, <2>1
  <2>3. Level(u, k - 1) = Level(s, (k - d) - 1) BY <1>4, <2>1
  <2>4. k - d \in Candidates(s, r, E) BY <1>6, <1>7, <2>1, <2>2, <2>3 DEF Candidates
  <2> QED BY <1>9, <2>1, <2>4 DEF d
<1>10. CASE n < k /\ k <= f
  <2>1. k - 1 \in n .. f - 1 /\ n - 1 \in r .. E - 1 /\ k - 1 \in Nat
    BY <1>1, <1>2, <1>3, <1>6, <1>10
  <2>2. Level(u, k - 1) > Level(s, n - 1) /\ Level(s, n - 1) >= Level(s, r) BY <1>4, <1>5, <2>1
  <2>3. Level(s, n - 1) \in Int /\ Level(u, k - 1) \in Int
    <3>1. n - 1 \in Nat BY <1>1
    <3> QED BY <1>5, <2>1, <3>1, DepthIs DEF Level
  <2> QED BY <1>6, <1>7, <2>2, <2>3
<1>11. k \in Int BY <1>2, <1>3, <1>6
<1> QED BY <1>1, <1>8, <1>9, <1>10, <1>11

(* A new partitions node behind which there is no other is the one found.  *)
LEMMA ReplacedFound ==
  ASSUME NEW s, NEW u, NEW n, NEW e, NEW f, Replaced(s, u, n, e, f),
         NEW r, NEW E, Tree(s, r, E), r < n, n <= E, e < E, n <= f,
         Level(s, n - 1) = Level(s, r), u[n].name = "partitions",
         \A k \in Candidates(s, r, E) : k <= e
  PROVE  PartitionsAt(u) = n /\ EndOf(u, n) = f
<1> DEFINE F == E + (f - e)
<1>1. /\ n \in Nat \ {0} /\ e \in Nat /\ f \in Nat /\ Len(u) \in Nat
  BY DEF Replaced
<1>2. Node(u, n, f) BY <1>1 DEF Replaced
<1>3. EndOf(u, n) = f BY <1>1, <1>2, NodeEnds
<1>4. r \in Nat \ {0} /\ E \in Nat BY DEF Tree, Node
<1>5. Tree(u, r, F) BY ReplacedTree
<1>6. n \in Candidates(u, r, F)
  <2>1. Level(u, n - 1) = Level(s, n - 1) /\ Level(u, r) = Level(s, r)
    <3>1. n - 1 \in 0 .. n - 1 /\ r \in 0 .. n - 1 BY <1>1, <1>4
    <3> QED BY <3>1, ReplacedLevels
  <2>2. u[n].t = "begin" BY <1>2 DEF Node
  <2>3. n \in r + 1 .. F BY <1>1, <1>4
  <2> QED BY <2>1, <2>2, <2>3 DEF Candidates
<1>7. ASSUME NEW k \in Candidates(u, r, F) PROVE k <= n
  <2>1. k < n \/ k = n \/ (k - (f - e) > e /\ k - (f - e) \in Candidates(s, r, E))
    BY ReplacedCandidates
  <2>2. k \in Int BY <1>1, <1>4 DEF Candidates
  <2>3. ASSUME k - (f - e) > e, k - (f - e) \in Candidates(s, r, E) PROVE FALSE
    <3>1. k - (f - e) <= e BY <2>3
    <3>2. k - (f - e) \in Int BY <1>1, <2>2
    <3> QED BY <1>1, <2>3, <3>1, <3>2
  <2> QED BY <1>1, <2>1, <2>2, <2>3
<1> HIDE DEF F
<1>8. PartitionsAt(u) \in Candidates(u, r, F) /\ n <= PartitionsAt(u)
  <2>1. /\ PartitionsAt(u) = 0 => Candidates(u, r, F) = {}
        /\ PartitionsAt(u) # 0 => PartitionsAt(u) \in Candidates(u, r, F)
        /\ \A k \in Candidates(u, r, F) : k <= PartitionsAt(u)
    BY <1>5, PartitionsAtIs
  <2> QED BY <1>6, <2>1
<1>9. PartitionsAt(u) <= n /\ PartitionsAt(u) \in Int BY <1>5, <1>7, <1>8, PartitionsAtIs
<1> QED BY <1>1, <1>3, <1>8, <1>9

(***************************************************************************)
(* Lists of tokens                                                         *)
(***************************************************************************)
IsList(s) == s \in Seq(Range(s))

(* A function on 1 .. n is a list.                                         *)
LEMMA FunctionList ==
  ASSUME NEW n \in Nat, NEW f, f = [k \in 1 .. n |-> f[k]]
  PROVE  IsList(f) /\ Len(f) = n /\ DOMAIN f = 1 .. n
<1> DEFINE R == Range(f)
<1>1. DOMAIN f = 1 .. n OBVIOUS
<1>2. \A k \in 1 .. n : f[k] \in R BY <1>1 DEF Range
<1> HIDE DEF R
<1>3. f \in [1 .. n -> R] BY <1>2
<1>4. f \in Seq(R) BY <1>3
<1>5. DOMAIN f = 1 .. Len(f) /\ Len(f) \in Nat BY <1>4
<1>6. Len(f) = n BY <1>1, <1>4
<1> QED BY <1>1, <1>4, <1>6 DEF IsList, R

(* A sequence of any kind is a list.                                       *)
LEMMA ListIs ==
  ASSUME NEW T, NEW s \in Seq(T)
  PROVE  /\ IsList(s) /\ Len(s) \in Nat /\ DOMAIN s = 1 .. Len(s)
         /\ \A k \in 1 .. Len(s) : s[k] \in T
<1> DEFINE R == Range(s)
<1>1. Len(s) \in Nat /\ DOMAIN s = 1 .. Len(s) /\ s = [k \in 1 .. Len(s) |-> s[k]] OBVIOUS
<1>2. \A k \in 1 .. Len(s) : s[k] \in R BY <1>1 DEF Range
<1> HIDE DEF R
<1>3. s \in [1 .. Len(s) -> R] BY <1>1, <1>2
<1>4. s \in Seq(R) BY <1>1, <1>3
<1> QED BY <1>1, <1>4 DEF IsList, R

(* Two lists end to end are a list.                                        *)
LEMMA Joined ==
  ASSUME NEW x, NEW y, IsList(x), IsList(y)
  PROVE  /\ IsList(x \o y) /\ Len(x) \in Nat /\ Len(y) \in Nat
         /\ Len(x \o y) = Len(x) + Len(y)
         /\ \A k \in 1 .. Len(x) : (x \o y)[k] = x[k]
         /\ \A k \in 1 .. Len(y) : (x \o y)[k + Len(x)] = y[k]
<1> DEFINE A == Range(x)  B == Range(y)
<1>1. x \in Seq(A) /\ y \in Seq(B) BY DEF IsList
<1> HIDE DEF A, B
<1>2. x \in Seq(A \union B) /\ y \in Seq(A \union B) BY <1>1
<1>3. x \o y \in Seq(A \union B) BY <1>2
<1>4. IsList(x \o y) BY <1>3, ListIs
<1> QED BY <1>2, <1>4

(* Lists of the same tokens are the same.                                  *)
LEMMA SameList ==
  ASSUME NEW x, NEW y, IsList(x), IsList(y), Len(x) = Len(y), \A k \in 1 .. Len(x) : x[k] = y[k]
  PROVE  x = y
<1>1. /\ x = [k \in 1 .. Len(x) |-> x[k]] /\ y = [k \in 1 .. Len(y) |-> y[k]]
  BY DEF IsList
<1> QED BY <1>1

(* u is s with the list node instead of the tokens from i to j - 1.        *)
IsSplice(u, s, i, j, node) ==
  LET f == i - 1 + Len(node)
  IN /\ IsList(u) /\ Len(s) \in Nat /\ Len(node) \in Nat
     /\ Len(u) = Len(s) + (f - (j - 1))
     /\ \A k \in 1 .. i - 1 : u[k] = s[k]
     /\ \A k \in 1 .. Len(node) : u[k + (i - 1)] = node[k]
     /\ \A k \in j .. Len(s) : u[k + (f - (j - 1))] = s[k]

(* What Spliced returns                                                    *)
LEMMA SplicedIs ==
  ASSUME NEW s, IsList(s), NEW node, IsList(node),
         NEW i \in Nat \ {0}, NEW j \in Nat, i <= j, j <= Len(s) + 1
  PROVE  IsSplice(Spliced(s, i, j, node), s, i, j, node)
<1> DEFINE P == SubSeq(s, 1, i - 1)  Q == SubSeq(s, j, Len(s))
           T == Range(s)
           u == Spliced(s, i, j, node)
<1>1. s \in Seq(T) BY DEF IsList
<1>2. Len(s) \in Nat /\ Len(node) \in Nat BY <1>1 DEF IsList
<1> HIDE DEF T
<1>3. P \in Seq(T) /\ Len(P) = i - 1 /\ \A k \in 1 .. i - 1 : P[k] = s[k] BY <1>1, <1>2
<1>4. Q \in Seq(T) /\ Len(Q) = Len(s) - j + 1 /\ \A k \in 1 .. Len(s) - j + 1 : Q[k] = s[j + k - 1]
  BY <1>1, <1>2
<1> HIDE DEF P, Q
<1>5. IsList(P) /\ IsList(Q) BY <1>3, <1>4, ListIs
<1>6. u = (P \o node) \o Q BY DEF Spliced, P, Q
<1> DEFINE x == P \o node
<1>7. /\ IsList(x) /\ Len(x) = i - 1 + Len(node)
      /\ \A k \in 1 .. Len(P) : x[k] = P[k]
      /\ \A k \in 1 .. Len(node) : x[k + Len(P)] = node[k]
  BY <1>3, <1>5, Joined
<1> HIDE DEF x
<1>8. IsList(x) BY <1>7
<1>9. /\ IsList(x \o Q) /\ Len(x \o Q) = Len(x) + Len(Q)
      /\ \A k \in 1 .. Len(x) : (x \o Q)[k] = x[k]
      /\ \A k \in 1 .. Len(Q) : (x \o Q)[k + Len(x)] = Q[k]
  BY <1>5, <1>8, Joined
<1>10. u = x \o Q BY <1>6 DEF x
<1> HIDE DEF u
<1>11. IsList(u) BY <1>9, <1>10
<1>12. Len(u) = Len(s) + (i - 1 + Len(node) - (j - 1))
  BY <1>2, <1>4, <1>7, <1>9, <1>10
<1>13. ASSUME NEW k \in 1 .. i - 1 PROVE u[k] = s[k]
  <2>1. k \in 1 .. Len(P) /\ k \in 1 .. Len(x) BY <1>2, <1>3, <1>7
  <2> QED BY <1>3, <1>7, <1>9, <1>10, <2>1
<1>14. ASSUME NEW k \in 1 .. Len(node) PROVE u[k + (i - 1)] = node[k]
  <2>1. k + (i - 1) \in 1 .. Len(x) /\ k + Len(P) = k + (i - 1) BY <1>2, <1>3, <1>7
  <2> QED BY <1>7, <1>9, <1>10, <2>1
<1>15. ASSUME NEW k \in j .. Len(s) PROVE u[k + (i - 1 + Len(node) - (j - 1))] = s[k]
  <2>1. /\ k - j + 1 \in 1 .. Len(Q) /\ j + (k - j + 1) - 1 = k /\ k - j + 1 \in 1 .. Len(s) - j + 1
        /\ (k - j + 1) + Len(x) = k + (i - 1 + Len(node) - (j - 1))
    BY <1>2, <1>4, <1>7
  <2>2. u[(k - j + 1) + Len(x)] = Q[k - j + 1] BY <1>9, <1>10, <2>1
  <2>3. Q[k - j + 1] = s[k] BY <1>4, <2>1
  <2> QED BY <2>1, <2>2, <2>3
<1>16. IsSplice(u, s, i, j, node) BY <1>2, <1>11, <1>12, <1>13, <1>14, <1>15 DEF IsSplice
<1> QED BY <1>16 DEF u

(***************************************************************************)
(* The new node                                                            *)
(***************************************************************************)
LEMMA Tokens ==
  /\ \A name : Begin(name).t = "begin" /\ Begin(name).name = name
  /\ End.t = "end"
  /\ \A name, val : Prop(name, val).t = "prop" /\ Prop(name, val).name = name
  /\ \A id, val : PartProp(id, val).t = "prop" /\ PartProp(id, val).name = "part-"
  /\ \A text : Pname(text).t = "prop" /\ Pname(text).name = "pname"
<1> DEFINE none == ""
<1>1. \A a, b, c, d, e : Token(a, b, c, d, e).t = a /\ Token(a, b, c, d, e).name = b BY DEF Token
<1>2. /\ \A name : Begin(name) = Token("begin", name, 0, 0, none)
      /\ End = Token("end", none, 0, 0, none)
      /\ \A name, val : Prop(name, val) = Token("prop", name, 0, val, none)
      /\ \A id, val : PartProp(id, val) = Token("prop", "part-", id, val, none)
      /\ \A text : Pname(text) = Token("prop", "pname", 0, 0, text)
  BY Zenon DEF Begin, End, Prop, PartProp, Pname
<1> HIDE DEF none
<1> QED BY <1>1, <1>2

(* Prop makes a property, whatever its name.                               *)
LEMMA PropTokens == \A name, val : Prop(name, val).t = "prop"
BY Tokens

(* No node is open before the first token.                                 *)
LEMMA LevelZero == \A s : Level(s, 0) = 0
BY DepthNone DEF Level

(* Levels in two lists end to end                                          *)
LEMMA JoinedLevels ==
  ASSUME NEW x, NEW y, IsList(x), IsList(y)
  PROVE  /\ \A k \in 0 .. Len(x) : Level(x \o y, k) = Level(x, k) /\ Level(x, k) \in Int
         /\ \A k \in 0 .. Len(y) : /\ Level(x \o y, k + Len(x)) = Level(x, Len(x)) + Level(y, k)
                                   /\ Level(y, k) \in Int
<1> DEFINE z == x \o y  n == Len(x)
<1>1. /\ n \in Nat /\ Len(y) \in Nat /\ \A k \in 1 .. n : z[k] = x[k]
      /\ \A k \in 1 .. Len(y) : z[k + n] = y[k]
  BY Joined
<1> HIDE DEF z, n
<1>2. ASSUME NEW k \in 0 .. n PROVE Level(z, k) = Level(x, k) /\ Level(x, k) \in Int
  <2>1. \A j \in 1 .. k : z[j] = x[j] BY <1>1
  <2>2. k \in Int BY <1>1
  <2> QED BY <2>1, <2>2, DepthSame, DepthIs DEF Level
<1>3. ASSUME NEW k \in 0 .. Len(y) PROVE Level(z, k + n) = Level(x, n) + Level(y, k) /\ Level(y, k) \in Int
  <2>1. \A j \in 1 .. k : z[j + n] = y[j] BY <1>1
  <2>2. /\ k \in Int /\ k \in Nat /\ n + 1 \in Nat \ {0} /\ 1 + n = n + 1 /\ (n + 1) - 1 = n
        /\ k + n \in Nat /\ n + 1 <= (k + n) + 1 /\ n \in Int /\ n \in 0 .. n
    BY <1>1
  <2>3. Depth(z, n + 1, k + n) = Depth(y, 1, k)
    <3>1. n + 1 \in Int /\ k + n \in Int /\ n + 1 = 1 + n BY <2>2
    <3>2. Shifted(y, z, 1, k, n) BY <2>1 DEF Shifted
    <3>3. 1 \in Int /\ k \in Int /\ n \in Int BY <2>2
    <3> QED BY <3>1, <3>2, <3>3, DepthMoved
  <2>4. Depth(z, n + 1, k + n) = Level(z, k + n) - Level(z, n)
          /\ Level(z, k + n) \in Int /\ Level(z, n) \in Int
    BY <2>2, LevelDepth
  <2>5. Level(z, n) = Level(x, n) /\ Level(y, k) \in Int BY <1>2, <2>2, DepthIs DEF Level
  <2>6. Level(y, k) = Level(z, k + n) - Level(z, n) BY <2>2, <2>3, <2>4 DEF Level
  <2> QED BY <2>4, <2>5, <2>6
<1> QED BY <1>2, <1>3 DEF z, n

(* Lists that leave as many nodes open as they found, one more, or that    *)
(* are one node                                                            *)
Balanced(x) ==
  /\ IsList(x) /\ Walked(x, 1, Len(x)) /\ Level(x, Len(x)) = 0
  /\ \A k \in 0 .. Len(x) : Level(x, k) >= 0

Opened(x) ==
  /\ IsList(x) /\ Len(x) >= 1 /\ x[1].t = "begin" /\ Walked(x, 1, Len(x)) /\ Level(x, Len(x)) = 1
  /\ \A k \in 1 .. Len(x) : Level(x, k) > 0

NodeList(x) == IsList(x) /\ Node(x, 1, Len(x))

(* A list that is one node leaves as many nodes open as it found.          *)
LEMMA NodeBalanced ==
  ASSUME NEW x, NodeList(x)
  PROVE  Balanced(x)
<1>1. /\ IsList(x) /\ Len(x) \in Nat /\ Walked(x, 1, Len(x)) /\ Level(x, Len(x)) = Level(x, 1 - 1)
      /\ \A k \in 1 .. Len(x) - 1 : Level(x, k) > Level(x, 1 - 1)
  BY DEF NodeList, Node
<1>2. Level(x, 1 - 1) = 0 /\ 1 - 1 = 0 BY LevelZero
<1>3. ASSUME NEW k \in 0 .. Len(x) PROVE Level(x, k) >= 0
  <2>1. k = 0 \/ k = Len(x) \/ k \in 1 .. Len(x) - 1 BY <1>1
  <2>2. Level(x, k) \in Int
    <3>1. k \in Int BY <1>1
    <3> QED BY <3>1, DepthIs DEF Level
  <2>3. k = 0 => Level(x, k) = 0 BY <1>2
  <2> QED BY <1>1, <1>2, <2>1, <2>2, <2>3
<1> QED BY <1>1, <1>2, <1>3 DEF Balanced

(* dts_skip_node walks over two lists if it does over each.                *)
LEMMA WalkedJoined ==
  ASSUME NEW x, NEW y, IsList(x), IsList(y), Walked(x, 1, Len(x)), Walked(y, 1, Len(y))
  PROVE  Walked(x \o y, 1, Len(x \o y))
<1>1. /\ Len(x) \in Nat /\ Len(y) \in Nat /\ Len(x \o y) = Len(x) + Len(y)
      /\ \A k \in 1 .. Len(x) : (x \o y)[k] = x[k]
      /\ \A k \in 1 .. Len(y) : (x \o y)[k + Len(x)] = y[k]
  BY Joined
<1> SUFFICES ASSUME NEW k \in 1 .. Len(x \o y)
             PROVE  (x \o y)[k].t \in {"begin", "end", "prop", "nop"}
  BY DEF Walked
<1>2. CASE k <= Len(x)
  <2>1. k \in 1 .. Len(x) BY <1>1, <1>2
  <2> QED BY <1>1, <2>1 DEF Walked
<1>3. CASE k > Len(x)
  <2>1. k - Len(x) \in 1 .. Len(y) /\ (k - Len(x)) + Len(x) = k BY <1>1, <1>3
  <2>2. (x \o y)[k] = y[k - Len(x)] BY <1>1, <2>1
  <2> QED BY <2>1, <2>2 DEF Walked
<1> QED BY <1>1, <1>2, <1>3

(* Two lists that are balanced are so end to end ...                       *)
LEMMA BalancedJoined ==
  ASSUME NEW x, NEW y, Balanced(x), Balanced(y)
  PROVE  Balanced(x \o y)
<1> DEFINE z == x \o y
<1>1. /\ IsList(x) /\ IsList(y) /\ Len(x) \in Nat /\ Len(y) \in Nat /\ IsList(z)
      /\ Len(z) = Len(x) + Len(y) /\ Walked(z, 1, Len(z))
  BY Joined, WalkedJoined DEF Balanced
<1>2. /\ \A k \in 0 .. Len(x) : Level(z, k) = Level(x, k) /\ Level(x, k) \in Int
      /\ \A k \in 0 .. Len(y) : Level(z, k + Len(x)) = Level(x, Len(x)) + Level(y, k) /\ Level(y, k) \in Int
  BY <1>1, JoinedLevels
<1>3. /\ Level(x, Len(x)) = 0 /\ Level(y, Len(y)) = 0
      /\ \A k \in 0 .. Len(x) : Level(x, k) >= 0 /\ \A j \in 0 .. Len(y) : Level(y, j) >= 0
  BY DEF Balanced
<1> HIDE DEF z
<1>4. Level(z, Len(z)) = 0
  <2>1. Len(y) \in 0 .. Len(y) /\ Len(z) = Len(y) + Len(x) BY <1>1
  <2> QED BY <1>2, <1>3, <2>1
<1>5. ASSUME NEW k \in 0 .. Len(z) PROVE Level(z, k) >= 0
  <2>1. CASE k <= Len(x)
    <3>1. k \in 0 .. Len(x) BY <1>1, <2>1
    <3> QED BY <1>2, <1>3, <3>1
  <2>2. CASE k > Len(x)
    <3>1. k - Len(x) \in 0 .. Len(y) /\ (k - Len(x)) + Len(x) = k BY <1>1, <2>2
    <3>2. Level(z, k) = 0 + Level(y, k - Len(x)) /\ Level(y, k - Len(x)) \in Int BY <1>2, <1>3, <3>1
    <3>3. Level(z, k) = Level(y, k - Len(x)) BY <3>2
    <3>4. Level(y, k - Len(x)) >= 0 BY <1>3, <3>1
    <3> QED BY <3>3, <3>4
  <2> QED BY <1>1, <2>1, <2>2
<1>6. Balanced(z) BY <1>1, <1>4, <1>5 DEF Balanced
<1> QED BY <1>6 DEF z

(* ... and a balanced one adds nothing to one that leaves a node open ...  *)
LEMMA OpenedJoined ==
  ASSUME NEW x, NEW y, Opened(x), Balanced(y)
  PROVE  Opened(x \o y)
<1> DEFINE z == x \o y
<1>1. /\ IsList(x) /\ IsList(y) /\ Len(x) \in Nat /\ Len(x) >= 1 /\ Len(y) \in Nat /\ IsList(z)
      /\ Len(z) = Len(x) + Len(y) /\ Walked(z, 1, Len(z)) /\ z[1] = x[1]
  BY Joined, WalkedJoined DEF Balanced, Opened
<1>2. /\ \A k \in 0 .. Len(x) : Level(z, k) = Level(x, k) /\ Level(x, k) \in Int
      /\ \A k \in 0 .. Len(y) : Level(z, k + Len(x)) = Level(x, Len(x)) + Level(y, k) /\ Level(y, k) \in Int
  BY <1>1, JoinedLevels
<1>3. /\ Level(x, Len(x)) = 1 /\ Level(y, Len(y)) = 0 /\ x[1].t = "begin"
      /\ \A k \in 1 .. Len(x) : Level(x, k) > 0
      /\ \A k \in 0 .. Len(y) : Level(y, k) >= 0
  BY DEF Balanced, Opened
<1> HIDE DEF z
<1>4. Level(z, Len(z)) = 1
  <2>1. Len(y) \in 0 .. Len(y) /\ Len(z) = Len(y) + Len(x) BY <1>1
  <2> QED BY <1>2, <1>3, <2>1
<1>5. ASSUME NEW k \in 1 .. Len(z) PROVE Level(z, k) > 0
  <2>1. CASE k <= Len(x)
    <3>1. k \in 0 .. Len(x) /\ k \in 1 .. Len(x) BY <1>1, <2>1
    <3> QED BY <1>2, <1>3, <3>1
  <2>2. CASE k > Len(x)
    <3>1. k - Len(x) \in 0 .. Len(y) /\ (k - Len(x)) + Len(x) = k BY <1>1, <2>2
    <3>2. Level(z, k) = 1 + Level(y, k - Len(x)) /\ Level(y, k - Len(x)) \in Int BY <1>2, <1>3, <3>1
    <3>3. Level(y, k - Len(x)) >= 0 BY <1>3, <3>1
    <3> QED BY <3>2, <3>3
  <2> QED BY <1>1, <2>1, <2>2
<1>6. Opened(z) BY <1>1, <1>3, <1>4, <1>5 DEF Opened
<1> QED BY <1>6 DEF z

(* ... which the END_NODE makes one node.                                  *)
LEMMA OpenedEnds ==
  ASSUME NEW x, Opened(x)
  PROVE  NodeList(x \o << End >>)
<1> DEFINE y == << End >>  z == x \o y
<1>1. IsList(y) /\ Len(y) = 1 /\ y[1].t = "end" /\ Walked(y, 1, Len(y))
  <2>1. y \in Seq({End}) /\ Len(y) = 1 /\ y[1] = End OBVIOUS
  <2>2. \A k \in 1 .. Len(y) : y[k] = End BY <2>1
  <2> HIDE DEF y
  <2> QED BY <2>1, <2>2, ListIs, Tokens DEF Walked
<1> HIDE DEF y
<1>2. Level(y, 1) = -1 /\ Level(y, 0) = 0
  <2>1. Depth(y, 1, 1) = -1 BY <1>1, DepthOne
  <2> QED BY <2>1, LevelZero DEF Level
<1>3. /\ IsList(x) /\ Len(x) \in Nat /\ Len(x) >= 1 /\ IsList(z)
      /\ Len(z) = Len(x) + 1 /\ Walked(z, 1, Len(z)) /\ z[1] = x[1]
  <2>1. IsList(x) /\ Len(x) >= 1 /\ Walked(x, 1, Len(x)) BY DEF Opened
  <2>2. /\ IsList(z) /\ Len(z) = Len(x) + 1 /\ Len(x) \in Nat
        /\ \A k \in 1 .. Len(x) : z[k] = x[k]
    <3>1. IsList(y) /\ IsList(x) BY <1>1, <2>1
    <3>2. /\ IsList(x \o y) /\ Len(x \o y) = Len(x) + Len(y) /\ Len(x) \in Nat
          /\ \A k \in 1 .. Len(x) : (x \o y)[k] = x[k]
      BY <3>1, Joined
    <3> QED BY <1>1, <3>2 DEF z
  <2>3. Walked(z, 1, Len(z)) BY <1>1, <2>1, WalkedJoined DEF z
  <2> QED BY <2>1, <2>2, <2>3
<1>4. /\ \A k \in 0 .. Len(x) : Level(z, k) = Level(x, k) /\ Level(x, k) \in Int
      /\ \A k \in 0 .. Len(y) : Level(z, k + Len(x)) = Level(x, Len(x)) + Level(y, k) /\ Level(y, k) \in Int
  BY <1>1, <1>3, JoinedLevels
<1>5. /\ Level(x, Len(x)) = 1 /\ x[1].t = "begin" /\ \A k \in 1 .. Len(x) : Level(x, k) > 0
  BY DEF Opened
<1> HIDE DEF z
<1>6. Level(z, Len(z)) = 0
  <2>1. 1 \in 0 .. Len(y) /\ Len(z) = 1 + Len(x) BY <1>1, <1>3
  <2>2. Level(z, 1 + Len(x)) = Level(x, Len(x)) + Level(y, 1) BY <1>4, <2>1
  <2> QED BY <1>2, <1>5, <2>1, <2>2
<1>7. Level(z, 1 - 1) = 0 BY LevelZero
<1>8. ASSUME NEW k \in 1 .. Len(z) - 1 PROVE Level(z, k) > 0
  <2>1. k \in 1 .. Len(x) /\ k \in 0 .. Len(x) BY <1>3
  <2> QED BY <1>4, <1>5, <2>1
<1>9. 1 < Len(z) /\ Len(z) \in Nat /\ Len(z) <= Len(z) BY <1>3
<1>10. Node(z, 1, Len(z)) BY <1>3, <1>5, <1>6, <1>7, <1>8, <1>9 DEF Node
<1> QED BY <1>3, <1>10 DEF NodeList, z, y

(* Properties open and close nothing.                                      *)
LEMMA PropsBalanced ==
  ASSUME NEW x, IsList(x), \A k \in 1 .. Len(x) : x[k].t = "prop"
  PROVE  Balanced(x)
<1>1. Len(x) \in Nat BY ListIs DEF IsList
<1>2. ASSUME NEW k \in 0 .. Len(x) PROVE Level(x, k) = 0
  <2>1. Those(x, 1, k, "begin") = {} /\ Those(x, 1, k, "end") = {}
    <3>1. \A j \in 1 .. k : j \in 1 .. Len(x) BY <1>1
    <3>2. \A j \in 1 .. k : x[j].t = "prop" BY <3>1
    <3> QED BY <3>2 DEF Those
  <2>2. k \in Int BY <1>1
  <2>3. Count(x, 1, k, "begin") = 0 /\ Count(x, 1, k, "end") = 0 BY <2>1, FS_EmptySet DEF Count
  <2> QED BY <2>2, <2>3, DepthIs DEF Level
<1>3. Len(x) \in 0 .. Len(x) BY <1>1
<1> QED BY <1>2, <1>3 DEF Balanced, Walked

(* A node begun, with its first properties                                 *)
LEMMA OpenedProps ==
  ASSUME NEW x, IsList(x), Len(x) >= 1, x[1].t = "begin", \A k \in 2 .. Len(x) : x[k].t = "prop"
  PROVE  Opened(x)
<1>1. Len(x) \in Nat BY ListIs DEF IsList
<1>2. ASSUME NEW k \in 1 .. Len(x) PROVE Level(x, k) = 1
  <2>1. Those(x, 1, k, "begin") = {1} /\ Those(x, 1, k, "end") = {}
    <3>1. \A j \in 1 .. k : j = 1 \/ j \in 2 .. Len(x) BY <1>1
    <3>2. 1 \in 1 .. k BY <1>1
    <3> QED BY <3>1, <3>2 DEF Those
  <2>2. k \in Int BY <1>1
  <2>3. Count(x, 1, k, "begin") = 1 /\ Count(x, 1, k, "end") = 0
    BY <2>1, FS_EmptySet, FS_Singleton DEF Count
  <2> QED BY <2>2, <2>3, DepthIs DEF Level
<1>3. Len(x) \in 1 .. Len(x) BY <1>1
<1>4. Walked(x, 1, Len(x))
  <2>1. \A k \in 1 .. Len(x) : k = 1 \/ k \in 2 .. Len(x) BY <1>1
  <2> QED BY <2>1 DEF Walked
<1> QED BY <1>2, <1>3, <1>4 DEF Opened

(* The phandles of a node are properties.                                  *)
LEMMA WithLinuxBalanced ==
  ASSUME NEW phandle, NEW linux
  PROVE  Balanced(WithLinux(phandle, linux))
<1> DEFINE p == Prop("phandle", phandle)  l == Prop("linux,phandle", phandle)  x == WithLinux(phandle, linux)
<1>1. p.t = "prop" /\ l.t = "prop" BY PropTokens
<1>2. x = << p, l >> \/ x = << p >> BY DEF WithLinux
<1> HIDE DEF p, l, x
<1>3. << p, l >> \in Seq({p, l}) /\ << p >> \in Seq({p, l}) OBVIOUS
<1>4. x \in Seq({p, l}) BY <1>2, <1>3
<1>5. IsList(x) /\ \A k \in 1 .. Len(x) : x[k] \in {p, l}
  <2> DEFINE T == {p, l}
  <2>1. x \in Seq(T) BY <1>4
  <2> HIDE DEF T
  <2>2. IsList(x) /\ \A k \in 1 .. Len(x) : x[k] \in T BY <2>1, ListIs
  <2> QED BY <2>2 DEF T
<1>6. Balanced(x) BY <1>1, <1>5, PropsBalanced
<1> QED BY <1>6 DEF x

(* Each child is a node.                                                   *)
LEMMA ComposedPartNode ==
  ASSUME NEW part, NEW phandle, NEW linux
  PROVE  NodeList(ComposedPart(part, phandle, linux))
<1> DEFINE b == Begin(part.name)  p == Pname(part.name)  s == Prop("size", part.size)
           m == Prop("mask", part.mask)  x == << b, p, s, m >>  y == WithLinux(phandle, linux)
<1>1. b.t = "begin" /\ p.t = "prop" /\ s.t = "prop" /\ m.t = "prop" BY Tokens
<1>2. ComposedPart(part, phandle, linux) = (x \o y) \o << End >> BY DEF ComposedPart
<1>3. Balanced(y) BY WithLinuxBalanced
<1> HIDE DEF b, p, s, m, y
<1>4. x \in Seq({b, p, s, m}) /\ Len(x) = 4 /\ x[1] = b /\ x[2] = p /\ x[3] = s /\ x[4] = m OBVIOUS
<1> HIDE DEF x
<1>5. IsList(x) BY <1>4, ListIs
<1>6. \A k \in 2 .. Len(x) : k = 2 \/ k = 3 \/ k = 4 BY <1>4
<1>7. \A k \in 2 .. Len(x) : x[k].t = "prop" BY <1>1, <1>4, <1>6
<1>8. Opened(x) BY <1>1, <1>4, <1>5, <1>7, OpenedProps
<1>9. Opened(x \o y) BY <1>3, <1>8, OpenedJoined
<1>10. NodeList((x \o y) \o << End >>) BY <1>9, OpenedEnds
<1> QED BY <1>2, <1>10

Laid(all, parts, handle, linux, children) ==
  all = << Begin("partitions"), Prop("parts", Len(parts)) >> \o Record(handle, Len(parts))
          \o WithLinux(handle[Len(parts) + 1], linux) \o children \o << End >>

(* f has the children laid so far, after each round.                       *)
EndToEnd(f, parts, handle, linux) ==
  f[0] = <<>> /\ \A h \in 1 .. Len(parts) : f[h] = f[h - 1] \o ComposedPart(parts[h], handle[h], linux)

(* The loop that lays the children end to end.                             *)
LEMMA ChildrenLoop ==
  ASSUME NEW parts, NEW handle, NEW linux, Len(parts) \in Nat
  PROVE  \E f : /\ EndToEnd(f, parts, handle, linux) /\ Balanced(f[Len(parts)])
                /\ Laid(Composed(parts, handle, linux), parts, handle, linux, f[Len(parts)])
<1> DEFINE n == Len(parts)
           Child(h) == ComposedPart(parts[h], handle[h], linux)
           A == UNION {Range(Child(h)) : h \in 1 .. n}
           S == {x \in Seq(A) : Balanced(x)}
           base == <<>>
           New(x, h) == x \o Child(h)
           round == [x \in (1 .. n) \X S |-> New(x[2], x[1])]
           Is(f) == f = [h \in 0 .. n |-> IF h = 0 THEN base ELSE New(f[h - 1], h)]
           loop == CHOOSE f : Is(f)
<1>1. n \in Nat OBVIOUS
<1>2. base \in S
  <2>1. base \in Seq(A) /\ Len(base) = 0 OBVIOUS
  <2> HIDE DEF base, A
  <2>2. IsList(base) BY <2>1, ListIs
  <2>3. Balanced(base) BY <2>1, <2>2, PropsBalanced
  <2> QED BY <2>1, <2>3
<1>3. ASSUME NEW h \in 1 .. n, NEW x \in S PROVE New(x, h) \in S
  <2>1. NodeList(Child(h)) BY ComposedPartNode
  <2>2. Balanced(Child(h)) BY <2>1, NodeBalanced
  <2>3. Child(h) \in Seq(Range(Child(h))) BY <2>1 DEF NodeList, IsList
  <2>4. Child(h) \in Seq(A)
    <3> DEFINE B == Range(Child(h))
    <3>1. \A b \in B : b \in A OBVIOUS
    <3>2. Child(h) \in Seq(B) BY <2>3
    <3> HIDE DEF A, B, Child
    <3> QED BY <3>1, <3>2
  <2> HIDE DEF A, Child
  <2>5. Balanced(x \o Child(h)) BY <2>2, BalancedJoined
  <2>6. x \o Child(h) \in Seq(A) BY <2>4
  <2> QED BY <2>5, <2>6
<1>4. Laid(Composed(parts, handle, linux), parts, handle, linux, loop[n]) BY DEF Composed, Laid
<1> HIDE DEF n, New, base
<1>5. round \in [(1 .. n) \X S -> S] BY <1>3
<1>6. \A h \in 1 .. n, x \in S : round[<<h, x>>] = New(x, h) OBVIOUS
<1> HIDE DEF round, S
<1>7. PICK f \in [0 .. n -> S] : Recurses(f, n, base, round) BY <1>1, <1>2, <1>5, Recursion
<1>8. Is(f)
  <2>1. ASSUME NEW h \in 0 .. n PROVE f[h] = IF h = 0 THEN base ELSE New(f[h - 1], h)
    <3>1. CASE h = 0 BY <1>7, <3>1 DEF Recurses
    <3>2. CASE h # 0
      <4>1. h \in 1 .. n /\ h - 1 \in 0 .. n BY <1>1, <3>2
      <4>2. f[h] = round[<<h, f[h - 1]>>] BY <1>7, <4>1 DEF Recurses
      <4> QED BY <1>6, <3>2, <4>1, <4>2
    <3> QED BY <3>1, <3>2
  <2> QED BY <2>1
<1>9. Is(loop)
  <2> HIDE DEF Is
  <2> QED BY <1>8
<1> HIDE DEF loop
<1>10. loop[0] = base /\ \A h \in 1 .. n : loop[h] = New(loop[h - 1], h) BY <1>1, <1>9
<1>11. loop \in [0 .. n -> S]
  <2>1. loop = [h \in 0 .. n |-> loop[h]] BY <1>9
  <2>2. \A h \in 1 .. n : loop[h - 1] \in S => loop[h] \in S BY <1>3, <1>10
  <2> HIDE DEF Is
  <2> QED BY <1>1, <1>2, <1>10, <2>1, <2>2, LoopStays
<1>12. loop[n] \in S
  <2>1. n \in 0 .. n BY <1>1
  <2> QED BY <1>11, <2>1
<1>13. Balanced(loop[n]) BY <1>12 DEF S
<1>14. EndToEnd(loop, parts, handle, linux)
  <2>1. \A h \in 1 .. n : loop[h] = loop[h - 1] \o ComposedPart(parts[h], handle[h], linux)
    BY <1>10 DEF New
  <2>2. loop[0] = <<>> BY <1>10 DEF base
  <2> QED BY <2>1, <2>2 DEF EndToEnd, n
<1> QED BY <1>4, <1>13, <1>14 DEF n

(* What dts_compose_partitions_node writes is a node named partitions.     *)
LEMMA ComposedNode ==
  ASSUME NEW parts, NEW handle, NEW linux, Len(parts) \in Nat
  PROVE  /\ NodeList(Composed(parts, handle, linux))
         /\ Composed(parts, handle, linux)[1].name = "partitions"
<1> DEFINE n == Len(parts)
           b == Begin("partitions")
           p == Prop("parts", n)
           x == << b, p >>
           y == Record(handle, n)
           w == WithLinux(handle[n + 1], linux)
           all == Composed(parts, handle, linux)
<1>1. PICK z : Balanced(z) /\ Laid(all, parts, handle, linux, z)
  <2>1. PICK f : Balanced(f[n]) /\ Laid(all, parts, handle, linux, f[n]) BY ChildrenLoop
  <2> QED BY <2>1
<1>2. Balanced(z) /\ all = (((x \o y) \o w) \o z) \o << End >> BY <1>1 DEF Laid
<1>3. Balanced(w) BY WithLinuxBalanced
<1>4. Balanced(y)
  <2> DEFINE T == {PartProp(k - 1, handle[k]) : k \in 1 .. n}
  <2>1. \A k \in 1 .. n : PartProp(k - 1, handle[k]).t = "prop" BY Tokens
  <2>2. \A q \in T : q.t = "prop" BY <2>1
  <2>3. y \in Seq(T) BY DEF Record
  <2> HIDE DEF T, y
  <2>4. IsList(y) /\ \A k \in 1 .. Len(y) : y[k] \in T BY <2>3, ListIs
  <2> QED BY <2>2, <2>4, PropsBalanced
<1>5. b.t = "begin" /\ b.name = "partitions" /\ p.t = "prop" BY Tokens
<1> HIDE DEF b, p, y, w, all
<1>6. x \in Seq({b, p}) /\ Len(x) = 2 /\ x[1] = b /\ x[2] = p OBVIOUS
<1> HIDE DEF x
<1>7. IsList(x) BY <1>6, ListIs
<1>8. \A k \in 2 .. Len(x) : x[k].t = "prop"
  <2>1. \A k \in 2 .. Len(x) : k = 2 BY <1>6
  <2> QED BY <1>5, <1>6, <2>1
<1>9. Opened(x) BY <1>5, <1>6, <1>7, <1>8, OpenedProps
<1>10. Opened(x \o y) BY <1>4, <1>9, OpenedJoined
<1>11. Opened((x \o y) \o w) BY <1>3, <1>10, OpenedJoined
<1>12. Opened(((x \o y) \o w) \o z) BY <1>2, <1>11, OpenedJoined
<1>13. NodeList(all) BY <1>2, <1>12, OpenedEnds
<1>14. all[1] = b
  <2> DEFINE e == << End >>
  <2>1. IsList(y) /\ IsList(w) /\ IsList(z) BY <1>2, <1>3, <1>4 DEF Balanced
  <2>2. IsList(e)
    <3>1. e \in Seq({End}) OBVIOUS
    <3> HIDE DEF e
    <3> QED BY <3>1, ListIs
  <2>3. all = (((x \o y) \o w) \o z) \o e BY <1>2
  <2> HIDE DEF e
  <2>4. ASSUME NEW u, NEW v, IsList(u), IsList(v), u[1] = b, Len(u) >= 1
        PROVE  IsList(u \o v) /\ (u \o v)[1] = b /\ Len(u \o v) >= 1
    <3>1. /\ IsList(u \o v) /\ Len(u) \in Nat /\ Len(v) \in Nat /\ Len(u \o v) = Len(u) + Len(v)
          /\ \A k \in 1 .. Len(u) : (u \o v)[k] = u[k]
      BY <2>4, Joined
    <3>2. 1 \in 1 .. Len(u) BY <2>4, <3>1
    <3> QED BY <2>4, <3>1, <3>2
  <2>5. IsList(x \o y) /\ (x \o y)[1] = b /\ Len(x \o y) >= 1 BY <1>6, <1>7, <2>1, <2>4
  <2>6. IsList((x \o y) \o w) /\ ((x \o y) \o w)[1] = b /\ Len((x \o y) \o w) >= 1
    BY <2>1, <2>4, <2>5
  <2>7. /\ IsList(((x \o y) \o w) \o z) /\ (((x \o y) \o w) \o z)[1] = b
        /\ Len(((x \o y) \o w) \o z) >= 1
    BY <2>1, <2>4, <2>6
  <2>8. ((((x \o y) \o w) \o z) \o e)[1] = b BY <2>2, <2>4, <2>7
  <2> QED BY <2>3, <2>8
<1>15. NodeList(Composed(parts, handle, linux)) /\ Composed(parts, handle, linux)[1] = b
  BY <1>13, <1>14 DEF all
<1> QED BY <1>5, <1>15

(***************************************************************************)
(* Putting it in, and taking it out                                        *)
(***************************************************************************)
(* Where a list that is one node is put, a node is.                        *)
LEMMA NodePut ==
  ASSUME NEW x, NodeList(x), NEW u, Len(u) \in Nat, NEW n \in Nat \ {0},
         n - 1 + Len(x) <= Len(u), \A k \in 1 .. Len(x) : u[k + (n - 1)] = x[k]
  PROVE  Node(u, n, n - 1 + Len(x))
<1> DEFINE L == Len(x)  d == n - 1  e == d + L
<1>1. /\ L \in Nat /\ 1 < L /\ x[1].t = "begin" /\ Walked(x, 1, L) /\ Level(x, L) = Level(x, 1 - 1)
      /\ \A k \in 1 .. L - 1 : Level(x, k) > Level(x, 1 - 1)
  BY DEF NodeList, Node
<1>2. Level(x, 1 - 1) = 0 BY LevelZero
<1>3. d \in Nat /\ d + 1 = n /\ e \in Nat /\ e = d + L BY <1>1
<1>4. \A k \in 1 .. L : u[k + d] = x[k] OBVIOUS
<1> HIDE DEF L, d, e
<1>5. \A k \in 0 .. L :
        Level(u, k + d) = Level(u, d) + Level(x, k) /\ Level(x, k) \in Int /\ Level(u, d) \in Int
  <2>1. Shifted(x, u, 1, L, d) BY <1>4 DEF Shifted
  <2>2. L \in Nat /\ d \in Nat BY <1>1, <1>3
  <2> QED BY <2>1, <2>2, LevelsMoved
<1>6. u[n].t = "begin"
  <2>1. 1 \in 1 .. L /\ 1 + d = n BY <1>1, <1>3
  <2> QED BY <1>1, <1>4, <2>1
<1>7. Walked(u, n, e)
  <2> SUFFICES ASSUME NEW k \in n .. e PROVE u[k].t \in {"begin", "end", "prop", "nop"} BY DEF Walked
  <2>1. k - d \in 1 .. L /\ (k - d) + d = k BY <1>1, <1>3
  <2>2. u[k] = x[k - d] BY <1>4, <2>1
  <2> QED BY <1>1, <2>1, <2>2 DEF Walked
<1>8. n - 1 = d BY <1>3
<1>9. Level(u, e) = Level(u, n - 1)
  <2>1. L \in 0 .. L /\ L + d = e BY <1>1, <1>3
  <2> QED BY <1>1, <1>2, <1>5, <1>8, <2>1
<1>10. ASSUME NEW k \in n .. e - 1 PROVE Level(u, k) > Level(u, n - 1)
  <2>1. k - d \in 0 .. L /\ k - d \in 1 .. L - 1 /\ (k - d) + d = k BY <1>1, <1>3
  <2>2. Level(u, k) = Level(u, d) + Level(x, k - d) /\ Level(x, k - d) \in Int /\ Level(u, d) \in Int
    BY <1>5, <2>1
  <2>3. Level(x, k - d) > 0 BY <1>1, <1>2, <2>1
  <2> QED BY <1>8, <2>2, <2>3
<1>11. n < e /\ e <= Len(u) BY <1>1, <1>3 DEF L, d, e
<1>12. Node(u, n, e) BY <1>3, <1>6, <1>7, <1>9, <1>10, <1>11 DEF Node
<1> QED BY <1>12 DEF e, d, L

(* Spliced replaces a node by a list that is one or is empty.              *)
LEMMA SplicedReplaces ==
  ASSUME NEW s, IsList(s), NEW n \in Nat \ {0}, NEW e \in Nat, n - 1 <= e, e <= Len(s),
         e = n - 1 \/ Node(s, n, e),
         NEW node, IsList(node), node = <<>> \/ NodeList(node)
  PROVE  LET u == Spliced(s, n, e + 1, node)
         IN IsList(u) /\ Replaced(s, u, n, e, n - 1 + Len(node))
<1> DEFINE u == Spliced(s, n, e + 1, node)  f == n - 1 + Len(node)
<1>1. Len(s) \in Nat /\ Len(node) \in Nat BY ListIs DEF IsList
<1>2. e + 1 \in Nat /\ n <= e + 1 /\ e + 1 <= Len(s) + 1 /\ (e + 1) - 1 = e BY <1>1
<1>3. /\ IsList(u) /\ Len(u) = Len(s) + (f - e)
      /\ \A k \in 1 .. n - 1 : u[k] = s[k]
      /\ \A k \in 1 .. Len(node) : u[k + (n - 1)] = node[k]
      /\ \A k \in e + 1 .. Len(s) : u[k + (f - e)] = s[k]
  <2>1. IsSplice(u, s, n, e + 1, node) BY <1>2, SplicedIs
  <2> HIDE DEF u
  <2> QED BY <1>2, <2>1 DEF IsSplice
<1> HIDE DEF u
<1>4. Len(u) \in Nat BY <1>3, ListIs DEF IsList
<1>5. f \in Nat /\ n - 1 <= f /\ f <= Len(u) BY <1>1, <1>3
<1>6. f = n - 1 \/ Node(u, n, f)
  <2>1. CASE node = <<>> BY <2>1
  <2>2. CASE NodeList(node) BY <1>3, <1>4, <1>5, <2>2, NodePut
  <2> QED BY <2>1, <2>2
<1>7. Replaced(s, u, n, e, f) BY <1>1, <1>3, <1>4, <1>5, <1>6 DEF Replaced
<1> QED BY <1>3, <1>7 DEF u

Without(s, n, e) == Spliced(s, n, e + 1, <<>>)

(* What is left without the node is what was left before.                  *)
LEMMA SameRest ==
  ASSUME NEW s, IsList(s), NEW n \in Nat \ {0}, NEW e \in Nat, n - 1 <= e, e <= Len(s),
         NEW node, IsList(node), NEW f, f = n - 1 + Len(node)
  PROVE  Without(Spliced(s, n, e + 1, node), n, f) = Without(s, n, e)
<1> DEFINE u == Spliced(s, n, e + 1, node)
           none == <<>>
           a == Spliced(u, n, f + 1, none)  b == Spliced(s, n, e + 1, none)
<1>1. Len(s) \in Nat /\ Len(node) \in Nat BY ListIs DEF IsList
<1>2. /\ e + 1 \in Nat /\ n <= e + 1 /\ e + 1 <= Len(s) + 1 /\ (e + 1) - 1 = e
      /\ f \in Nat /\ f + 1 \in Nat /\ n <= f + 1 /\ (f + 1) - 1 = f
  BY <1>1
<1>3. IsList(none) /\ Len(none) = 0
  <2>1. none \in Seq({}) /\ Len(none) = 0 OBVIOUS
  <2> HIDE DEF none
  <2> QED BY <2>1, ListIs
<1> HIDE DEF none
<1>4. /\ IsList(u) /\ Len(u) = Len(s) + (f - e)
      /\ \A k \in 1 .. n - 1 : u[k] = s[k]
      /\ \A k \in e + 1 .. Len(s) : u[k + (f - e)] = s[k]
  <2>1. IsSplice(u, s, n, e + 1, node) BY <1>2, SplicedIs
  <2> HIDE DEF u
  <2> QED BY <1>2, <2>1 DEF IsSplice
<1> HIDE DEF u
<1>5. f + 1 <= Len(u) + 1 BY <1>1, <1>2, <1>4
<1>6. /\ IsList(a) /\ Len(a) = Len(u) + (n - 1 - f)
      /\ \A k \in 1 .. n - 1 : a[k] = u[k]
      /\ \A k \in f + 1 .. Len(u) : a[k + (n - 1 - f)] = u[k]
  <2>1. n - 1 + Len(none) = n - 1 BY <1>3
  <2>2. IsSplice(a, u, n, f + 1, none) BY <1>2, <1>3, <1>4, <1>5, SplicedIs
  <2> HIDE DEF a
  <2> QED BY <1>2, <2>1, <2>2 DEF IsSplice
<1>7. /\ IsList(b) /\ Len(b) = Len(s) + (n - 1 - e)
      /\ \A k \in 1 .. n - 1 : b[k] = s[k]
      /\ \A k \in e + 1 .. Len(s) : b[k + (n - 1 - e)] = s[k]
  <2>1. n - 1 + Len(none) = n - 1 BY <1>3
  <2>2. IsSplice(b, s, n, e + 1, none) BY <1>2, <1>3, SplicedIs
  <2> HIDE DEF b
  <2> QED BY <1>2, <2>1, <2>2 DEF IsSplice
<1> HIDE DEF a, b
<1>8. Len(a) = Len(b) BY <1>1, <1>2, <1>4, <1>6, <1>7
<1>9. ASSUME NEW k \in 1 .. Len(a) PROVE a[k] = b[k]
  <2>1. CASE k <= n - 1
    <3>1. k \in 1 .. n - 1 BY <2>1
    <3> QED BY <1>4, <1>6, <1>7, <3>1
  <2>2. CASE k > n - 1
    <3> DEFINE i == k - (n - 1 - e)  j == i + (f - e)
    <3>1. /\ i \in e + 1 .. Len(s) /\ i + (n - 1 - e) = k
          /\ j \in f + 1 .. Len(u) /\ j + (n - 1 - f) = k
      BY <1>1, <1>2, <1>4, <1>7, <1>8, <2>2
    <3> HIDE DEF i
    <3>2. b[k] = s[i] /\ u[j] = s[i] BY <1>4, <1>7, <3>1
    <3> HIDE DEF j
    <3>3. a[k] = u[j] BY <1>6, <3>1
    <3> QED BY <3>2, <3>3
  <2>3. k \in Int BY <1>8, <1>1, <1>2, <1>7
  <2> QED BY <2>1, <2>2, <2>3
<1>10. a = b BY <1>6, <1>7, <1>8, <1>9, SameList
<1> QED BY <1>10 DEF a, b, u, none, Without

(* What comes after the tree does not matter to it.                        *)
LEMMA TreeAlone ==
  ASSUME NEW s, NEW u, NEW r, NEW E, Tree(s, r, E), Len(u) \in Nat, E <= Len(u),
         \A k \in 1 .. E : u[k] = s[k]
  PROVE  Tree(u, r, E) /\ Candidates(u, r, E) = Candidates(s, r, E)
<1>1. /\ Len(s) \in Nat /\ Root(s) = r /\ r \in Nat \ {0} /\ E \in Nat /\ r < E /\ E <= Len(s)
      /\ s[r].t = "begin" /\ Walked(s, r, E) /\ Level(s, E) = Level(s, r - 1)
      /\ \A k \in r .. E - 1 : Level(s, k) > Level(s, r - 1)
  BY DEF Tree, Node
<1>2. ASSUME NEW k \in 0 .. E PROVE Level(u, k) = Level(s, k)
  <2>1. k \in Int /\ \A j \in 1 .. k : u[j] = s[j] BY <1>1
  <2> QED BY <2>1, DepthSame DEF Level
<1>3. \A k \in r .. E : k \in 1 .. E /\ k \in 0 .. E /\ k - 1 \in 0 .. E BY <1>1
<1>4. r \in r .. E /\ E \in r .. E BY <1>1
<1>5. u[r].t = "begin" /\ Walked(u, r, E) BY <1>1, <1>3, <1>4 DEF Walked
<1>6. Level(u, E) = Level(u, r - 1) /\ \A k \in r .. E - 1 : Level(u, k) > Level(u, r - 1)
  <2>1. Level(u, E) = Level(s, E) /\ Level(u, r - 1) = Level(s, r - 1) BY <1>2, <1>3, <1>4
  <2>2. ASSUME NEW k \in r .. E - 1 PROVE Level(u, k) = Level(s, k)
    <3>1. k \in 0 .. E BY <1>1
    <3> QED BY <1>2, <3>1
  <2> QED BY <1>1, <2>1, <2>2
<1>7. Node(u, r, E) BY <1>1, <1>5, <1>6 DEF Node
<1>8. Root(u) = r
  <2>1. \A k \in 1 .. r - 1 : s[k].t = "nop" BY <1>1, RootIs
  <2>2. \A k \in 1 .. r - 1 : k \in 1 .. E BY <1>1
  <2>3. r <= Len(u) BY <1>1
  <2> QED BY <1>1, <1>5, <2>1, <2>2, <2>3, RootIs
<1>9. \A k \in r + 1 .. E : u[k] = s[k] /\ Level(u, k - 1) = Level(s, k - 1) /\ Level(u, r) = Level(s, r)
  <2>1. \A k \in r + 1 .. E : k \in r .. E BY <1>1
  <2> QED BY <1>2, <1>3, <1>4, <2>1
<1>10. Candidates(u, r, E) = Candidates(s, r, E) BY <1>9 DEF Candidates
<1> QED BY <1>7, <1>8, <1>10 DEF Tree

(* A new node in front of the last two tokens, if it is found there        *)
LEMMA Inserted ==
  ASSUME NEW s, IsList(s), PartitionsAt(s) = 0, Root(s) # 0, EndOf(s, Root(s)) # 0,
         s[Len(s)].t = "fin", NEW node, NodeList(node), node[1].name = "partitions",
         NEW u, u = Spliced(s, BeforeEnd(s), BeforeEnd(s), node), PartitionsAt(u) # 0
  PROVE  IsList(u) /\ Others(u) = s
<1> DEFINE n == BeforeEnd(s)  e == n - 1  r == Root(s)  E == EndOf(s, r)  f == n - 1 + Len(node)
<1>1. Len(s) \in Nat /\ Len(node) \in Nat BY ListIs DEF IsList, NodeList
<1>2. Tree(s, r, E) BY <1>1, TreeFound
<1>3. /\ r \in Nat \ {0} /\ E \in Nat /\ r < E /\ E <= Len(s) /\ Walked(s, r, E) /\ Node(s, r, E)
  BY <1>2 DEF Tree, Node
<1>4. E # Len(s)
  <2>1. E \in r .. E BY <1>3
  <2>2. s[E].t \in {"begin", "end", "prop", "nop"} BY <1>3, <2>1 DEF Walked
  <2> QED BY <2>2
<1>5. n = Len(s) - 1 BY DEF BeforeEnd
<1>6. /\ n \in Nat \ {0} /\ e \in Nat /\ E <= n /\ n - 1 <= e /\ e <= Len(s) /\ e + 1 = n
      /\ n <= n /\ n <= Len(s) + 1 /\ e = n - 1 /\ Len(s) = n + 1 /\ f \in Nat
  BY <1>1, <1>3, <1>4, <1>5
<1> HIDE DEF n, e, r, E
<1>7. u = Spliced(s, n, e + 1, node) BY <1>6 DEF n
<1>8. IsList(node) BY DEF NodeList
<1>9. IsList(u) /\ Replaced(s, u, n, e, f)
  <2>1. n \in Nat \ {0} /\ e \in Nat /\ n - 1 <= e /\ e <= Len(s) /\ e = n - 1 BY <1>6
  <2>2. f = n - 1 + Len(node) OBVIOUS
  <2> HIDE DEF f
  <2> QED BY <1>7, <1>8, <2>1, <2>2, SplicedReplaces
<1>10. Candidates(s, r, E) = {} BY <1>2, PartitionsAtIs
<1>11. CASE E < n
  <2>1. Len(u) \in Nat /\ Len(u) = Len(s) + (f - e) /\ \A k \in 1 .. n - 1 : u[k] = s[k] /\ n - 1 <= f
    BY <1>9 DEF Replaced
  <2>2. E <= Len(u) /\ \A k \in 1 .. E : u[k] = s[k] BY <1>3, <1>6, <1>11, <2>1
  <2>3. Tree(u, r, E) /\ Candidates(u, r, E) = {} BY <1>2, <1>10, <2>1, <2>2, TreeAlone
  <2>4. PartitionsAt(u) = 0 BY <2>3, PartitionsAtIs
  <2> QED BY <2>4
<1>12. CASE E = n
  <2>1. r < n /\ n <= E /\ e < E BY <1>3, <1>6, <1>12
  <2>2. Level(s, n - 1) = Level(s, r) BY <1>3, <1>12, NodeLevels
  <2>3. n <= f /\ u[n].name = "partitions"
    <3>1. 1 < Len(node) BY DEF NodeList, Node
    <3>2. IsSplice(u, s, n, e + 1, node) BY <1>6, <1>7, <1>8, SplicedIs
    <3>3. 1 \in 1 .. Len(node) /\ 1 + (n - 1) = n /\ n <= f BY <1>1, <1>6, <3>1
    <3>4. u[1 + (n - 1)] = node[1] BY <3>2, <3>3 DEF IsSplice
    <3> QED BY <3>3, <3>4
  <2>4. \A k \in Candidates(s, r, E) : k <= e BY <1>10
  <2>5. PartitionsAt(u) = n /\ EndOf(u, n) = f BY <1>2, <1>9, <2>1, <2>2, <2>3, <2>4, ReplacedFound
  <2>6. Others(u) = Spliced(u, n, f + 1, <<>>) BY <1>6, <2>5 DEF Others
  <2>7. Others(u) = Spliced(s, n, e + 1, <<>>)
    <3>1. /\ n \in Nat \ {0} /\ e \in Nat /\ n - 1 <= e /\ e <= Len(s)
          /\ f = n - 1 + Len(node)
      BY <1>6
    <3> HIDE DEF f
    <3>2. Without(Spliced(s, n, e + 1, node), n, f) = Without(s, n, e) BY <1>8, <3>1, SameRest
    <3> QED BY <1>7, <2>6, <3>2 DEF Without
  <2>8. Spliced(s, n, e + 1, <<>>) = s
    <3> DEFINE none == <<>>  b == Spliced(s, n, e + 1, none)
    <3>1. IsList(none) /\ Len(none) = 0
      <4>1. none \in Seq({}) /\ Len(none) = 0 OBVIOUS
      <4> HIDE DEF none
      <4> QED BY <4>1, ListIs
    <3> HIDE DEF none
    <3>2. e + 1 \in Nat /\ n <= e + 1 /\ e + 1 <= Len(s) + 1 BY <1>6
    <3>3. IsSplice(b, s, n, e + 1, none) BY <1>6, <3>1, <3>2, SplicedIs
    <3> HIDE DEF b
    <3>4. n - 1 + Len(none) - (e + 1 - 1) = 0 BY <1>6, <3>1
    <3>5. /\ IsList(b) /\ Len(b) = Len(s) /\ \A k \in 1 .. n - 1 : b[k] = s[k]
          /\ \A k \in e + 1 .. Len(s) : b[k] = s[k]
      BY <1>1, <1>6, <3>1, <3>3, <3>4 DEF IsSplice
    <3>6. \A k \in 1 .. Len(b) : k \in 1 .. n - 1 \/ k \in e + 1 .. Len(s) BY <1>6, <3>5
    <3>7. b = s BY <3>5, <3>6, SameList
    <3> QED BY <3>7 DEF b, none
  <2> QED BY <1>9, <2>7, <2>8
<1> QED BY <1>3, <1>6, <1>11, <1>12

(* A new node in the place of the old one                                  *)
LEMMA Exchanged ==
  ASSUME NEW s, IsList(s), NEW n, n = PartitionsAt(s), n # 0,
         NEW node, IsList(node), node = <<>> \/ (NodeList(node) /\ node[1].name = "partitions"),
         NEW u, u = Spliced(s, n, EndOf(s, n) + 1, node)
  PROVE  IsList(u) /\ (node # <<>> => Others(u) = Others(s))
<1> DEFINE r == Root(s)  E == EndOf(s, r)  e == EndOf(s, n)  f == n - 1 + Len(node)
<1>1. Len(s) \in Nat /\ Len(node) \in Nat BY ListIs DEF IsList
<1>2. Tree(s, r, E) BY <1>1, PartitionsOfTree
<1>3. /\ r \in Nat \ {0} /\ E \in Nat /\ r < E /\ E <= Len(s) /\ Node(s, r, E)
  BY <1>2 DEF Tree, Node
<1> HIDE DEF r, E
<1>4. n \in Candidates(s, r, E) /\ \A k \in Candidates(s, r, E) : k <= n BY <1>2, PartitionsAtIs
<1>5. n \in r + 1 .. E /\ s[n].t = "begin" /\ Level(s, n - 1) = Level(s, r) BY <1>4 DEF Candidates
<1>6. Node(s, n, e) /\ e < E BY <1>1, <1>3, <1>5, NodeInside
<1>7. n \in Nat \ {0} /\ e \in Nat /\ n < e /\ e <= Len(s) /\ n - 1 <= e BY <1>6 DEF Node
<1> HIDE DEF e
<1>8. u = Spliced(s, n, e + 1, node) BY DEF e
<1>9. IsList(u) /\ Replaced(s, u, n, e, f) BY <1>6, <1>7, <1>8, SplicedReplaces
<1>10. ASSUME node # <<>> PROVE Others(u) = Others(s)
  <2>1. NodeList(node) /\ node[1].name = "partitions" BY <1>10
  <2>2. r < n /\ n <= E /\ e < E BY <1>3, <1>5, <1>6
  <2>3. n <= f /\ u[n].name = "partitions"
    <3>1. 1 < Len(node) BY <2>1 DEF NodeList, Node
    <3>2. e + 1 \in Nat /\ n <= e + 1 /\ e + 1 <= Len(s) + 1 BY <1>1, <1>7
    <3>3. IsSplice(u, s, n, e + 1, node) BY <1>7, <1>8, <3>2, SplicedIs
    <3>4. 1 \in 1 .. Len(node) /\ 1 + (n - 1) = n /\ n <= f BY <1>1, <1>7, <3>1
    <3>5. u[1 + (n - 1)] = node[1] BY <3>3, <3>4 DEF IsSplice
    <3> QED BY <2>1, <3>4, <3>5
  <2>4. \A k \in Candidates(s, r, E) : k <= e
    <3>1. \A k \in Candidates(s, r, E) : k \in Int BY <1>3 DEF Candidates
    <3> QED BY <1>4, <1>7, <3>1
  <2>5. PartitionsAt(u) = n /\ EndOf(u, n) = f
    BY <1>2, <1>5, <1>9, <2>2, <2>3, <2>4, ReplacedFound
  <2>6. Others(u) = Spliced(u, n, f + 1, <<>>) BY <1>7, <2>5 DEF Others
  <2>7. Others(s) = Spliced(s, n, e + 1, <<>>) BY <1>7 DEF Others, e
  <2>8. Without(Spliced(s, n, e + 1, node), n, f) = Without(s, n, e)
    <3>1. /\ n \in Nat \ {0} /\ e \in Nat /\ n - 1 <= e /\ e <= Len(s)
          /\ f = n - 1 + Len(node)
      BY <1>7
    <3> HIDE DEF f
    <3> QED BY <3>1, SameRest
  <2> QED BY <1>8, <2>6, <2>7, <2>8 DEF Without
<1> QED BY <1>9, <1>10

(***************************************************************************)
(* Sorting                                                                 *)
(***************************************************************************)
(* The rounds of dts_sort_partitions can be run: each leaves the list, or  *)
(* swaps its entry with the first later one of the phandle recorded.       *)
LEMMA SortRounds ==
  ASSUME NEW h, NEW n \in Nat, Len(h.parts) = n, h.parts = [k \in 1 .. n |-> h.parts[k]],
         h = [parts |-> h.parts, phandles |-> h.phandles, record |-> h.record, root |-> h.root],
         h.record = n
  PROVE  \E f \in [0 .. n -> [1 .. n -> Range(h.parts)]] :
           /\ Sorted(h) = [h EXCEPT !.parts = f[n]]
           /\ f[0] = h.parts
           /\ \A i \in 1 .. n : f[i] = SortedAt(f[i - 1], h.phandles, i)
<1> DEFINE S == [1 .. n -> Range(h.parts)]
           base == h.parts
           New(x, i) == SortedAt(x, h.phandles, i)
           round == [x \in (1 .. n) \X S |-> New(x[2], x[1])]
           Is(f) == f = [i \in 0 .. n |-> IF i = 0 THEN base ELSE New(f[i - 1], i)]
           loop == CHOOSE f : Is(f)
<1>1. base \in S
  <2> DEFINE R == Range(h.parts)
  <2>1. \A k \in 1 .. n : base[k] \in R BY DEF Range
  <2> HIDE DEF R
  <2> QED BY <2>1 DEF R
<1>2. ASSUME NEW i \in 1 .. n, NEW x \in S PROVE New(x, i) \in S
  <2> DEFINE later == {j \in i + 1 .. Len(x) : x[j].phandle = h.phandles[i - 1]}
             R == Range(h.parts)
  <2>1. x \in [1 .. n -> R] OBVIOUS
  <2> HIDE DEF R
  <2>2. Len(x) = n
    <3>1. x = [k \in 1 .. n |-> x[k]] BY <2>1
    <3> QED BY <3>1, FunctionList
  <2>3. New(x, i) = IF x[i].phandle = h.phandles[i - 1] \/ later = {} THEN x ELSE Swapped(x, i, Min(later))
    BY DEF SortedAt
  <2>4. later \in SUBSET (1 .. n) BY <2>2
  <2>5. later # {} => Min(later) \in later
    <3> HIDE DEF later
    <3> SUFFICES ASSUME later # {} PROVE Min(later) \in later OBVIOUS
    <3>1. later \in SUBSET Nat BY <2>4
    <3>2. PICK m \in later : \A k \in later : m <= k BY <3>1, LeastElement
    <3> QED BY <3>2 DEF Min
  <2> HIDE DEF later, New
  <2>6. later # {} => Swapped(x, i, Min(later)) \in [1 .. n -> R] BY <2>1, <2>4, <2>5 DEF Swapped
  <2>7. New(x, i) \in [1 .. n -> R] BY <2>1, <2>3, <2>6
  <2> QED BY <2>7 DEF R
<1>3. Sorted(h) = [h EXCEPT !.parts = loop[n]] BY DEF Sorted
<1> HIDE DEF New, base
<1>4. round \in [(1 .. n) \X S -> S] BY <1>2
<1>5. \A i \in 1 .. n, x \in S : round[<<i, x>>] = New(x, i) OBVIOUS
<1> HIDE DEF round, S
<1>6. PICK f \in [0 .. n -> S] : Recurses(f, n, base, round) BY <1>1, <1>4, Recursion
<1>7. Is(f)
  <2>1. ASSUME NEW i \in 0 .. n PROVE f[i] = IF i = 0 THEN base ELSE New(f[i - 1], i)
    <3>1. CASE i = 0 BY <1>6, <3>1 DEF Recurses
    <3>2. CASE i # 0
      <4>1. i \in 1 .. n /\ i - 1 \in 0 .. n BY <3>2
      <4>2. f[i] = round[<<i, f[i - 1]>>] BY <1>6, <4>1 DEF Recurses
      <4> QED BY <1>5, <3>2, <4>1, <4>2
    <3> QED BY <3>1, <3>2
  <2> QED BY <2>1
<1>8. Is(loop)
  <2> HIDE DEF Is
  <2> QED BY <1>7
<1> HIDE DEF loop
<1>9. loop[0] = base /\ \A i \in 1 .. n : loop[i] = New(loop[i - 1], i)
  <2>1. \A i \in 0 .. n : loop[i] = IF i = 0 THEN base ELSE New(loop[i - 1], i) BY <1>8
  <2>2. 0 \in 0 .. n /\ \A i \in 1 .. n : i \in 0 .. n /\ i # 0 OBVIOUS
  <2> HIDE DEF Is
  <2> QED BY <2>1, <2>2
<1>10. loop \in [0 .. n -> S]
  <2>1. loop = [i \in 0 .. n |-> loop[i]] BY <1>8
  <2>2. \A i \in 1 .. n : loop[i - 1] \in S => loop[i] \in S BY <1>2, <1>9
  <2> HIDE DEF Is
  <2> QED BY <1>1, <1>9, <2>1, <2>2, LoopStays
<1> QED BY <1>3, <1>9, <1>10 DEF S, New, base

(* A list of n different phandles names none of them twice.                *)
LEMMA RecordDistinct ==
  ASSUME NEW n \in Nat, NEW phandles,
         Cardinality({phandles[i - 1] : i \in 1 .. n}) = n
  PROVE  \A i, j \in 1 .. n : phandles[i - 1] = phandles[j - 1] => i = j
<1> DEFINE T == {phandles[i - 1] : i \in 1 .. n}
           f == [i \in 1 .. n |-> phandles[i - 1]]
<1>1. IsFiniteSet(1 .. n) /\ Cardinality(1 .. n) = n BY FS_Interval
<1>2. f \in Surjection(1 .. n, T)
  <2>1. f \in [1 .. n -> T] OBVIOUS
  <2>2. \A t \in T : \E i \in 1 .. n : f[i] = t OBVIOUS
  <2> HIDE DEF f, T
  <2> QED BY <2>1, <2>2, Fun_IsSurj
<1> HIDE DEF T
<1>3. f \in Injection(1 .. n, T) BY <1>1, <1>2, FS_SurjSameCardinalityImpliesInj DEF T
<1>4. \A i, j \in 1 .. n : f[i] = f[j] => i = j BY <1>3 DEF Injection, IsInjective
<1> QED BY <1>4

(* One round puts the phandle that the record names next in its place, if  *)
(* the list has it and it is not in an earlier one.                        *)
Handles(x, n) == {x[k].phandle : k \in 1 .. n}
Round(x, y, phandles, i, n) ==
  /\ Handles(y, n) = Handles(x, n)
  /\ \A k \in 1 .. i - 1 : y[k] = x[k]
  /\ (\E k \in i .. n : x[k].phandle = phandles[i - 1]) => y[i].phandle = phandles[i - 1]

(* What one round does                                                     *)
LEMMA SortRound ==
  ASSUME NEW n \in Nat, NEW R, NEW x \in [1 .. n -> R], NEW phandles, NEW i \in 1 .. n
  PROVE  Round(x, SortedAt(x, phandles, i), phandles, i, n)
<1> DEFINE y == SortedAt(x, phandles, i)
           later == {j \in i + 1 .. Len(x) : x[j].phandle = phandles[i - 1]}
<1>1. Len(x) = n
  <2>1. x = [k \in 1 .. n |-> x[k]] OBVIOUS
  <2> QED BY <2>1, FunctionList
<1>2. y = IF x[i].phandle = phandles[i - 1] \/ later = {} THEN x ELSE Swapped(x, i, Min(later))
  BY DEF SortedAt
<1>3. later \in SUBSET (i + 1 .. n) BY <1>1
<1>4. \A k \in i .. n : x[k].phandle = phandles[i - 1] => k = i \/ k \in later BY <1>1
<1>5. \A k \in later : x[k].phandle = phandles[i - 1] OBVIOUS
<1> HIDE DEF y, later
<1>6. CASE x[i].phandle = phandles[i - 1] BY <1>2, <1>6 DEF Round, y
<1>7. CASE x[i].phandle # phandles[i - 1] /\ later = {} BY <1>2, <1>4, <1>7 DEF Round, y
<1>8. CASE x[i].phandle # phandles[i - 1] /\ later # {}
  <2> DEFINE j == Min(later)
  <2>1. j \in later
    <3>1. later \in SUBSET Nat BY <1>3
    <3>2. PICK m \in later : \A k \in later : m <= k BY <1>8, <3>1, LeastElement
    <3> QED BY <3>2 DEF Min
  <2>2. j \in i + 1 .. n /\ x[j].phandle = phandles[i - 1] BY <1>3, <1>5, <2>1
  <2>3. y = [x EXCEPT ![i] = x[j], ![j] = x[i]] BY <1>2, <1>8 DEF Swapped
  <2> HIDE DEF j
  <2>4. j \in 1 .. n /\ i # j BY <2>2
  <2>5. y[i] = x[j] /\ y[j] = x[i] /\ \A k \in 1 .. n : k # i /\ k # j => y[k] = x[k]
    BY <2>3, <2>4
  <2>6. \A k \in 1 .. i - 1 : y[k] = x[k] BY <2>2, <2>5
  <2>7. Handles(y, n) = Handles(x, n)
    <3>1. ASSUME NEW k \in 1 .. n PROVE \E l \in 1 .. n : y[k] = x[l]
      <4>1. k = i \/ k = j \/ (k # i /\ k # j) OBVIOUS
      <4> QED BY <2>4, <2>5, <4>1
    <3>2. ASSUME NEW l \in 1 .. n PROVE \E k \in 1 .. n : y[k] = x[l]
      <4>1. l = i \/ l = j \/ (l # i /\ l # j) OBVIOUS
      <4> QED BY <2>4, <2>5, <4>1
    <3>3. \A v \in Handles(y, n) : v \in Handles(x, n)
      <4> SUFFICES ASSUME NEW k \in 1 .. n PROVE y[k].phandle \in Handles(x, n) BY DEF Handles
      <4>1. PICK l \in 1 .. n : y[k] = x[l] BY <3>1
      <4> QED BY <4>1 DEF Handles
    <3>4. \A v \in Handles(x, n) : v \in Handles(y, n)
      <4> SUFFICES ASSUME NEW l \in 1 .. n PROVE x[l].phandle \in Handles(y, n) BY DEF Handles
      <4>1. PICK k \in 1 .. n : y[k] = x[l] BY <3>2
      <4> QED BY <4>1 DEF Handles
    <3> QED BY <3>3, <3>4
  <2> QED BY <2>2, <2>5, <2>6, <2>7 DEF Round, y
<1> QED BY <1>6, <1>7, <1>8

(* The record says an order: it has as many phandles as there are          *)
(* partitions, each the phandle of one.                                    *)
Recorded(parts, phandles, n) ==
  /\ {phandles[i] : i \in 0 .. n - 1} = Handles(parts, n)
  /\ Cardinality(Handles(parts, n)) = n

(* What the record says is true of the list.                               *)
InOrder(parts, phandles, n) == \A i \in 1 .. n : parts[i].phandle = phandles[i - 1]

(* f has the list after each round.                                        *)
Rounds(f, n, R, phandles) ==
  /\ n \in Nat /\ f \in [0 .. n -> [1 .. n -> R]]
  /\ \A i \in 1 .. n : f[i] = SortedAt(f[i - 1], phandles, i)

(* After all rounds the list is in the order of the record.                *)
LEMMA SortedRight ==
  ASSUME NEW n, NEW R, NEW phandles, NEW f, Rounds(f, n, R, phandles), Recorded(f[n], phandles, n)
  PROVE  InOrder(f[n], phandles, n)
<1>1. /\ n \in Nat /\ f \in [0 .. n -> [1 .. n -> R]]
      /\ \A i \in 1 .. n : f[i] = SortedAt(f[i - 1], phandles, i)
  BY DEF Rounds
<1> DEFINE V(i) == Handles(f[i], n)
           P == {phandles[i - 1] : i \in 1 .. n}
<1>2. P = {phandles[i] : i \in 0 .. n - 1}
  <2>1. \A i \in 1 .. n : i - 1 \in 0 .. n - 1 BY <1>1
  <2>2. \A i \in 0 .. n - 1 : i + 1 \in 1 .. n /\ i + 1 - 1 = i BY <1>1
  <2>3. \A v : v \in P => v \in {phandles[i] : i \in 0 .. n - 1} BY <2>1
  <2>4. \A v : v \in {phandles[i] : i \in 0 .. n - 1} => v \in P
    <3> SUFFICES ASSUME NEW i \in 0 .. n - 1 PROVE phandles[i] \in P OBVIOUS
    <3> DEFINE j == i + 1
    <3>1. j \in 1 .. n /\ j - 1 = i BY <2>2
    <3> HIDE DEF j
    <3> QED BY <3>1
  <2> QED BY <2>3, <2>4
<1>3. V(n) = P /\ Cardinality(P) = n BY <1>2 DEF Recorded
<1>4. \A i, j \in 1 .. n : phandles[i - 1] = phandles[j - 1] => i = j BY <1>1, <1>3, RecordDistinct
<1>5. \A i \in 1 .. n : V(i) = V(i - 1) /\ \A k \in 1 .. i - 1 : f[i][k] = f[i - 1][k]
  <2> SUFFICES ASSUME NEW i \in 1 .. n
               PROVE  V(i) = V(i - 1) /\ \A k \in 1 .. i - 1 : f[i][k] = f[i - 1][k]
    OBVIOUS
  <2> DEFINE x == f[i - 1]
  <2>1. x \in [1 .. n -> R] /\ f[i] = SortedAt(x, phandles, i) BY <1>1
  <2> HIDE DEF x
  <2>2. Round(x, f[i], phandles, i, n) BY <1>1, <2>1, SortRound
  <2> QED BY <2>2 DEF Round, x
<1> HIDE DEF V
<1> DEFINE D == {d \in 0 .. n : V(n - d) = P}
<1>6. \A i \in 0 .. n : V(i) = P
  <2>1. 0 \in D
    <3>1. n - 0 = n /\ 0 \in 0 .. n BY <1>1
    <3> QED BY <1>1, <1>3, <3>1
  <2>2. ASSUME NEW d \in 1 .. n, d - 1 \in D PROVE d \in D
    <3> DEFINE e == n - (d - 1)
    <3>1. e \in 1 .. n /\ e - 1 = n - d /\ d \in 0 .. n BY <1>1
    <3>2. V(e) = P BY <2>2
    <3> HIDE DEF e
    <3>3. V(n - d) = P BY <1>1, <1>5, <3>1, <3>2
    <3> QED BY <3>1, <3>3
  <2> HIDE DEF D
  <2>3. \A d \in 0 .. n : d \in D BY <1>1, <2>1, <2>2, Induction
  <2> SUFFICES ASSUME NEW i \in 0 .. n PROVE V(i) = P OBVIOUS
  <2>4. n - i \in D BY <1>1, <2>3
  <2>5. n - (n - i) = i BY <1>1
  <2>6. V(n - (n - i)) = P BY <2>4 DEF D
  <2> QED BY <2>5, <2>6
<1> DEFINE G == {i \in 0 .. n : \A k \in 1 .. i : f[i][k].phandle = phandles[k - 1]}
<1>7. 0 \in G BY <1>1
<1>8. ASSUME NEW i \in 1 .. n, i - 1 \in G PROVE i \in G
  <2> DEFINE x == f[i - 1]
  <2>1. x \in [1 .. n -> R] /\ f[i] = SortedAt(x, phandles, i) BY <1>1
  <2>2. \A k \in 1 .. i - 1 : x[k].phandle = phandles[k - 1] BY <1>8
  <2>3. i - 1 \in 0 .. n BY <1>1
  <2>4. phandles[i - 1] \in Handles(x, n) BY <1>6, <2>3 DEF V
  <2> HIDE DEF x
  <2>5. PICK k \in 1 .. n : x[k].phandle = phandles[i - 1] BY <2>4 DEF Handles
  <2>6. k \in i .. n
    <3> SUFFICES ASSUME k < i PROVE FALSE BY <1>1
    <3>1. k \in 1 .. i - 1 BY <1>1
    <3>2. phandles[k - 1] = phandles[i - 1] BY <2>2, <2>5, <3>1
    <3> QED BY <1>4, <3>2
  <2>7. Round(x, f[i], phandles, i, n) BY <1>1, <2>1, SortRound
  <2>8. f[i][i].phandle = phandles[i - 1] BY <2>5, <2>6, <2>7 DEF Round
  <2>9. ASSUME NEW l \in 1 .. i PROVE f[i][l].phandle = phandles[l - 1]
    <3>1. l = i \/ l \in 1 .. i - 1 BY <1>1
    <3> QED BY <2>2, <2>7, <2>8, <3>1 DEF Round
  <2> QED BY <1>1, <2>9
<1>9. n \in G
  <2> HIDE DEF G
  <2>1. \A i \in 0 .. n : i \in G BY <1>1, <1>7, <1>8, Induction
  <2> QED BY <1>1, <2>1
<1> QED BY <1>9 DEF InOrder

(* What the parser fills in, if the node is where it says.                 *)
LEMMA FilledIs ==
  ASSUME NEW s, NEW n \in Int, NEW upto \in Int
  PROVE  LET h == Filled(s, n, upto)
         IN /\ h = [parts |-> h.parts, phandles |-> h.phandles, record |-> h.record, root |-> h.root]
            /\ Len(h.parts) \in Nat /\ h.parts = [k \in 1 .. Len(h.parts) |-> h.parts[k]]
<1> DEFINE begun == {k \in n + 1 .. upto - 1 : s[k].t = "begin" /\ Parent(s, k) = n}
           child == Children(s, n, upto)
           c == Cardinality(begun)
           parts == [k \in DOMAIN child |->
                       [name    |-> s[child[k]].name,
                        size    |-> Value(s, child[k], upto, "size", 0),
                        mask    |-> Value(s, child[k], upto, "mask", 0),
                        phandle |-> Value(s, child[k], upto, "phandle", 0)]]
<1>1. c \in Nat
  <2>1. IsFiniteSet(n + 1 .. upto - 1) BY FS_Interval
  <2>2. begun \in SUBSET (n + 1 .. upto - 1) OBVIOUS
  <2> HIDE DEF begun
  <2>3. IsFiniteSet(begun) BY <2>1, <2>2, FS_Subset
  <2> QED BY <2>3, FS_CardinalityType
<1>2. child = [k \in 1 .. c |-> Nth(begun, k)] BY DEF Children
<1>3. Filled(s, n, upto) = FilledWith(s, n, upto, child) BY DEF Filled
<1> HIDE DEF child, c
<1>4. DOMAIN child = 1 .. c BY <1>2
<1>5. parts = [k \in 1 .. c |-> parts[k]] BY <1>4
<1>6. Filled(s, n, upto).parts = parts BY <1>3 DEF FilledWith
<1> HIDE DEF parts
<1>7. Len(parts) = c BY <1>1, <1>5, FunctionList
<1>8. LET h == Filled(s, n, upto)
      IN h = [parts |-> h.parts, phandles |-> h.phandles, record |-> h.record, root |-> h.root]
  BY <1>3 DEF FilledWith
<1> QED BY <1>1, <1>5, <1>6, <1>7, <1>8

(* The order is that of the record, whenever it says one.                  *)
ByRecord(h) ==
  LET n == Len(h.parts)
  IN (h.record = n /\ Recorded(h.parts, h.phandles, n)) => InOrder(h.parts, h.phandles, n)

(* dts_sort_partitions puts the list in the order of the record.           *)
LEMMA SortedIs ==
  ASSUME NEW h, Len(h.parts) \in Nat, h.parts = [k \in 1 .. Len(h.parts) |-> h.parts[k]],
         h = [parts |-> h.parts, phandles |-> h.phandles, record |-> h.record, root |-> h.root]
  PROVE  ByRecord(Sorted(h))
<1> DEFINE n == Len(h.parts)
           R == Range(h.parts)
           g == Sorted(h)
<1>1. CASE h.record # n
  <2>1. g = h BY <1>1 DEF Sorted
  <2> QED BY <1>1, <2>1 DEF ByRecord
<1>2. CASE h.record = n
  <2>1. PICK f \in [0 .. n -> [1 .. n -> R]] :
             /\ g = [h EXCEPT !.parts = f[n]] /\ f[0] = h.parts
             /\ \A i \in 1 .. n : f[i] = SortedAt(f[i - 1], h.phandles, i)
    BY <1>2, SortRounds
  <2>2. n \in Nat OBVIOUS
  <2> HIDE DEF n, R, g
  <2>3. g.parts = f[n] /\ g.phandles = h.phandles /\ g.record = h.record BY <2>1
  <2>4. Len(f[n]) = n
    <3>1. f[n] = [k \in 1 .. n |-> f[n][k]] BY <2>1, <2>2
    <3> QED BY <2>2, <3>1, FunctionList
  <2>5. Recorded(f[n], h.phandles, n) => InOrder(f[n], h.phandles, n)
    <3> DEFINE p == h.phandles
    <3>1. \A i \in 1 .. n : f[i] = SortedAt(f[i - 1], p, i) BY <2>1
    <3> HIDE DEF p
    <3>2. Rounds(f, n, R, p) BY <2>2, <3>1 DEF Rounds
    <3>3. ASSUME Recorded(f[n], p, n) PROVE InOrder(f[n], p, n)
      BY <3>2, <3>3, SortedRight
    <3> QED BY <3>3 DEF p
  <2>6. ByRecord(g) BY <1>2, <2>3, <2>4, <2>5 DEF ByRecord
  <2> QED BY <2>6 DEF g
<1> QED BY <1>1, <1>2

(***************************************************************************)
(* Parents                                                                 *)
(***************************************************************************)
(* The last token before k at which the level rose to that of k            *)
Up(s, p, k) ==
  /\ p \in 0 .. k - 1 /\ (p # 0 => Level(s, p - 1) < Level(s, k - 1))
  /\ \A j \in p .. k - 1 : Level(s, j) >= Level(s, k - 1)

(* That is the parent ...                                                  *)
LEMMA ParentUp ==
  ASSUME NEW s, NEW k \in Nat \ {0}
  PROVE  Up(s, Parent(s, k), k)
<1> DEFINE open == {i \in 1 .. k - 1 : s[i].t = "begin" /\ Depth(s, i, k - 1) > 0}
           all == {0} \union open
           p == Parent(s, k)
<1>1. \A j \in Nat : Level(s, j) \in Int BY DepthIs DEF Level
<1>2. \A i \in 1 .. k - 1 : Depth(s, i, k - 1) = Level(s, k - 1) - Level(s, i - 1)
  BY LevelDepth
<1>3. p = Max(all) BY DEF Parent
<1>4. all \in SUBSET Nat /\ 0 \in all /\ \A i \in all : i <= k - 1 /\ k - 1 \in Nat OBVIOUS
<1>5. p \in all /\ \A i \in all : i <= p
  <2> HIDE DEF all
  <2>1. PICK m \in all : \A i \in all : i <= m BY <1>4, GreatestElement
  <2> QED BY <1>3, <1>4, <2>1 DEF Max
<1>6. p \in 0 .. k - 1 BY <1>4, <1>5
<1>7. ASSUME p # 0 PROVE Level(s, p - 1) < Level(s, k - 1)
  <2>1. p \in 1 .. k - 1 /\ Depth(s, p, k - 1) > 0 BY <1>5, <1>7
  <2>2. p - 1 \in Nat /\ k - 1 \in Nat BY <2>1
  <2> HIDE DEF p
  <2> QED BY <1>1, <1>2, <2>1, <2>2
<1>8. ASSUME NEW j \in p .. k - 1, Level(s, j) < Level(s, k - 1) PROVE FALSE
  <2> DEFINE low == {i \in j .. k - 1 : Level(s, i) < Level(s, k - 1)}
  <2>1. low \in SUBSET Nat /\ j \in low /\ \A i \in low : i <= k BY <1>6, <1>8
  <2>2. PICK i \in low : \A l \in low : l <= i
    <3> HIDE DEF low
    <3> QED BY <2>1, GreatestElement
  <2>3. i \in p .. k - 1 /\ Level(s, i) < Level(s, k - 1) /\ i \in Nat BY <1>6
  <2>4. i # k - 1 BY <1>1, <2>3
  <2>5. i + 1 \in p + 1 .. k - 1 /\ (i + 1) - 1 = i /\ i + 1 \in Nat \ {0} /\ i + 1 \notin low
    <3>1. i + 1 \notin low BY <2>2, <2>3
    <3> HIDE DEF low, p
    <3> QED BY <1>6, <2>3, <2>4, <3>1
  <2>6. Level(s, i + 1) >= Level(s, k - 1) BY <1>1, <1>6, <2>5
  <2> HIDE DEF p, low, open
  <2>7. Level(s, i) \in Int /\ Level(s, i + 1) \in Int /\ Level(s, k - 1) \in Int
    BY <1>1, <2>3, <2>5
  <2>8. s[i + 1].t = "begin"
    <3>1. Level(s, i + 1) = Level(s, i) +
            (IF s[i + 1].t = "begin" THEN 1 ELSE IF s[i + 1].t = "end" THEN -1 ELSE 0)
      BY <2>5, LevelStep
    <3> QED BY <2>3, <2>6, <2>7, <3>1
  <2>9. i + 1 \in 1 .. k - 1 BY <1>6, <2>5
  <2>10. Depth(s, i + 1, k - 1) > 0 BY <1>2, <2>3, <2>5, <2>7, <2>9
  <2>11. i + 1 \in all BY <2>8, <2>9, <2>10 DEF open
  <2> QED BY <1>5, <1>6, <2>5, <2>11
<1>9. ASSUME NEW j \in p .. k - 1 PROVE Level(s, j) >= Level(s, k - 1)
  <2>1. ~(Level(s, j) < Level(s, k - 1)) BY <1>8
  <2>2. j \in Nat /\ k - 1 \in Nat BY <1>6
  <2> QED BY <1>1, <2>1, <2>2
<1> HIDE DEF p
<1> QED BY <1>6, <1>7, <1>9 DEF Up, p

(* ... as there is no other such token ...                                 *)
LEMMA UpUnique ==
  ASSUME NEW s, NEW k \in Nat \ {0}, NEW p, NEW q, Up(s, p, k), Up(s, q, k)
  PROVE  p = q
<1>1. \A j \in Nat : Level(s, j) \in Int BY DepthIs DEF Level
<1>2. ASSUME NEW a, NEW b, Up(s, a, k), Up(s, b, k), a < b PROVE FALSE
  <2>1. a \in 0 .. k - 1 /\ b \in 0 .. k - 1 /\ b # 0 /\ b - 1 \in a .. k - 1 /\ b - 1 \in Nat
    BY <1>2 DEF Up
  <2>2. Level(s, b - 1) < Level(s, k - 1) /\ Level(s, b - 1) >= Level(s, k - 1) BY <1>2, <2>1 DEF Up
  <2>3. k - 1 \in Nat OBVIOUS
  <2> QED BY <1>1, <2>1, <2>2, <2>3
<1>3. ~(p < q) /\ ~(q < p) BY <1>2
<1>4. p \in Int /\ q \in Int BY DEF Up
<1> QED BY <1>3, <1>4

(* ... so that whatever is one is the parent.                              *)
LEMMA ParentIs ==
  ASSUME NEW s, NEW k \in Nat \ {0}, NEW p, Up(s, p, k)
  PROVE  Parent(s, k) = p
BY ParentUp, UpUnique

(* What begins in a node has its parent in it, or it is the parent.        *)
LEMMA ParentInside ==
  ASSUME NEW s, NEW n, NEW e, Node(s, n, e), NEW k \in n + 1 .. e
  PROVE  Parent(s, k) \in n .. e
<1> DEFINE p == Parent(s, k)
<1>1. n \in Nat \ {0} /\ e \in Nat /\ k \in Nat \ {0} /\ k - 1 \in n .. e - 1 /\ k - 1 \in Nat BY DEF Node
<1>2. Level(s, k - 1) > Level(s, n - 1) BY <1>1 DEF Node
<1>3. p \in 0 .. k - 1 /\ \A j \in p .. k - 1 : Level(s, j) >= Level(s, k - 1) BY <1>1, ParentUp DEF Up
<1> HIDE DEF p
<1>4. ASSUME p < n PROVE FALSE
  <2>1. n - 1 \in p .. k - 1 /\ n - 1 \in Nat BY <1>1, <1>3, <1>4
  <2>2. Level(s, n - 1) >= Level(s, k - 1) BY <1>3, <2>1
  <2>3. Level(s, n - 1) \in Int /\ Level(s, k - 1) \in Int BY <1>1, <2>1, DepthIs DEF Level
  <2> QED BY <1>2, <2>2, <2>3
<1> QED BY <1>1, <1>3, <1>4 DEF p

(* What is not in a node has not its parent there.                         *)
LEMMA ParentOutside ==
  ASSUME NEW s, NEW n, NEW e, Node(s, n, e), NEW k \in Nat \ {0}, k < n \/ k > e
  PROVE  Parent(s, k) < n \/ Parent(s, k) > e
<1> DEFINE p == Parent(s, k)
<1>1. n \in Nat \ {0} /\ e \in Nat /\ Level(s, e) = Level(s, n - 1) BY DEF Node
<1>2. /\ p \in 0 .. k - 1 /\ (p # 0 => Level(s, p - 1) < Level(s, k - 1))
      /\ \A j \in p .. k - 1 : Level(s, j) >= Level(s, k - 1)
  BY ParentUp DEF Up
<1>3. \A j \in n - 1 .. e : Level(s, j) >= Level(s, n - 1)
  <2>1. \A j \in n - 1 .. e : Level(s, j) \in Int BY <1>1, DepthIs DEF Level
  <2>2. \A j \in n .. e - 1 : Level(s, j) > Level(s, n - 1) BY DEF Node
  <2>3. \A j \in n - 1 .. e : j = n - 1 \/ j = e \/ j \in n .. e - 1 BY <1>1
  <2>4. n - 1 \in n - 1 .. e BY <1>1 DEF Node
  <2> QED BY <1>1, <2>1, <2>2, <2>3, <2>4
<1> HIDE DEF p
<1>4. ASSUME p \in n .. e PROVE FALSE
  <2>1. k > e /\ p # 0 BY <1>1, <1>2, <1>4
  <2>2. e \in p .. k - 1 /\ p - 1 \in n - 1 .. e /\ p - 1 \in Nat /\ k - 1 \in Nat BY <1>1, <1>4, <2>1
  <2>3. /\ Level(s, e) >= Level(s, k - 1) /\ Level(s, p - 1) >= Level(s, n - 1)
        /\ Level(s, p - 1) < Level(s, k - 1)
    BY <1>2, <1>3, <2>1, <2>2
  <2>4. Level(s, e) \in Int /\ Level(s, k - 1) \in Int /\ Level(s, p - 1) \in Int
    BY <1>1, <2>2, DepthIs DEF Level
  <2> QED BY <1>1, <2>3, <2>4
<1> QED BY <1>1, <1>2, <1>4 DEF p

(* What has its parent in the list has it there still.                     *)
LEMMA ParentMoved ==
  ASSUME NEW x, NEW u, NEW L \in Nat, NEW d \in Nat, Shifted(x, u, 1, L, d),
         NEW k \in 1 .. L, Parent(x, k) # 0
  PROVE  Parent(u, k + d) = Parent(x, k) + d
<1> DEFINE p == Parent(x, k)
<1>1. /\ p \in 1 .. k - 1 /\ Level(x, p - 1) < Level(x, k - 1)
      /\ \A j \in p .. k - 1 : Level(x, j) >= Level(x, k - 1)
  BY ParentUp DEF Up
<1> HIDE DEF p
<1>2. \A j \in 0 .. L :
        Level(u, j + d) = Level(u, d) + Level(x, j) /\ Level(x, j) \in Int /\ Level(u, d) \in Int
  BY LevelsMoved
<1>3. /\ p - 1 \in 0 .. L /\ k - 1 \in 0 .. L /\ (p + d) - 1 = (p - 1) + d /\ (k + d) - 1 = (k - 1) + d
      /\ k + d \in Nat \ {0} /\ p + d \in 0 .. (k + d) - 1
  BY <1>1
<1>4. Level(u, (p + d) - 1) < Level(u, (k + d) - 1) BY <1>1, <1>2, <1>3
<1>5. ASSUME NEW j \in p + d .. (k + d) - 1 PROVE Level(u, j) >= Level(u, (k + d) - 1)
  <2>1. j - d \in p .. k - 1 /\ j - d \in 0 .. L /\ (j - d) + d = j BY <1>1
  <2>2. Level(x, j - d) >= Level(x, k - 1) BY <1>1, <2>1
  <2>3. Level(u, j) = Level(u, d) + Level(x, j - d) /\ Level(x, j - d) \in Int BY <1>2, <2>1
  <2> QED BY <1>2, <1>3, <2>2, <2>3
<1>6. Up(u, p + d, k + d) BY <1>3, <1>4, <1>5 DEF Up
<1> QED BY <1>3, <1>6, ParentIs DEF p

(* Where a token outside the replaced node comes to stand                  *)
Moved(p, n, e, f) == IF p < n THEN p ELSE p + (f - e)

(* A node in the place of another is nobody else's parent.                 *)
LEMMA ReplacedParent ==
  ASSUME NEW s, NEW u, NEW n, NEW e, NEW f, Replaced(s, u, n, e, f),
         NEW k \in 1 .. Len(s), k < n \/ k > e
  PROVE  Parent(u, Moved(k, n, e, f)) = Moved(Parent(s, k), n, e, f)
<1> DEFINE p == Parent(s, k)  d == f - e  L == Len(s)
<1>1. /\ n \in Nat \ {0} /\ e \in Nat /\ f \in Nat /\ n - 1 <= e /\ n - 1 <= f
      /\ L \in Nat /\ e <= L
  BY DEF Replaced
<1>2. /\ \A j \in 0 .. n - 1 : Level(u, j) = Level(s, j)
      /\ \A j \in e .. L : Level(u, j + d) = Level(s, j)
      /\ \A j \in n .. f - 1 : Level(u, j) > Level(s, n - 1)
  BY ReplacedLevels
<1>3. /\ p \in 0 .. k - 1 /\ (p # 0 => Level(s, p - 1) < Level(s, k - 1))
      /\ \A j \in p .. k - 1 : Level(s, j) >= Level(s, k - 1)
  <2>1. k \in Nat \ {0} BY <1>1
  <2> QED BY <2>1, ParentUp DEF Up
<1>4. p < n \/ p > e
  <2>1. CASE e = n - 1 BY <1>1, <1>3, <2>1
  <2>2. CASE Node(s, n, e)
    <3>1. k \in Nat \ {0} BY <1>1
    <3> QED BY <2>2, <3>1, ParentOutside
  <2> QED BY <2>1, <2>2 DEF Replaced
<1>5. \A j \in Nat : Level(s, j) \in Int /\ Level(u, j) \in Int BY DepthIs DEF Level
<1> HIDE DEF p, L
<1>6. CASE k < n
  <2>1. Moved(k, n, e, f) = k /\ Moved(p, n, e, f) = p BY <1>1, <1>3, <1>6 DEF Moved
  <2>2. \A j \in 0 .. k - 1 : Level(u, j) = Level(s, j) BY <1>1, <1>2, <1>6
  <2>3. p # 0 => p - 1 \in 0 .. k - 1 BY <1>3
  <2>4. k - 1 \in 0 .. k - 1 /\ \A j \in p .. k - 1 : j \in 0 .. k - 1 BY <1>3
  <2>5. Up(u, p, k) BY <1>3, <2>2, <2>3, <2>4 DEF Up
  <2> QED BY <2>1, <2>5, ParentIs DEF p
<1>7. CASE k > e
  <2> DEFINE q == Moved(p, n, e, f)
  <2>1. ~(k < n) BY <1>1, <1>7
  <2>2. Moved(k, n, e, f) = k + d BY <2>1 DEF Moved
  <2>3. /\ k + d \in Nat \ {0} /\ k - 1 \in e .. L /\ (k + d) - 1 = (k - 1) + d /\ d \in Int
        /\ k - 1 \in Nat
    BY <1>1, <1>7 DEF L
  <2>4. Level(u, (k + d) - 1) = Level(s, k - 1) BY <1>2, <2>3
  <2>5. ASSUME NEW j \in f .. (k + d) - 1 PROVE Level(u, j) = Level(s, j - d) /\ j - d \in e .. k - 1
    <3>1. j - d \in e .. L /\ (j - d) + d = j /\ j - d \in e .. k - 1 BY <1>1, <2>3
    <3> QED BY <1>2, <3>1
  <2>6. CASE p < n
    <3>1. q = p /\ p \in 0 .. (k + d) - 1 BY <1>1, <1>3, <1>7, <2>6 DEF Moved
    <3>2. ASSUME p # 0 PROVE Level(u, p - 1) < Level(u, (k + d) - 1)
      <4>1. p - 1 \in 0 .. n - 1 BY <1>1, <1>3, <2>6, <3>2
      <4> QED BY <1>2, <1>3, <2>4, <3>2, <4>1
    <3>3. Level(s, n - 1) >= Level(s, k - 1)
      <4>1. n - 1 \in p .. k - 1 BY <1>1, <1>3, <1>7, <2>6
      <4> QED BY <1>3, <4>1
    <3>4. ASSUME NEW j \in p .. (k + d) - 1 PROVE Level(u, j) >= Level(s, k - 1)
      <4>1. CASE j <= n - 1
        <5>1. j \in 0 .. n - 1 /\ j \in p .. k - 1 BY <1>1, <1>3, <1>7, <4>1
        <5> QED BY <1>2, <1>3, <5>1
      <4>2. CASE j \in n .. f - 1
        <5>1. Level(u, j) > Level(s, n - 1) BY <1>2, <4>2
        <5>2. j \in Nat /\ n - 1 \in Nat BY <1>1, <4>2
        <5>3. Level(u, j) \in Int /\ Level(s, n - 1) \in Int /\ Level(s, k - 1) \in Int
          BY <1>5, <2>3, <5>2
        <5> QED BY <3>3, <5>1, <5>3
      <4>3. CASE j >= f
        <5>1. j \in f .. (k + d) - 1 BY <1>1, <2>3, <4>3
        <5>2. Level(u, j) = Level(s, j - d) /\ j - d \in e .. k - 1 BY <2>5, <5>1
        <5>3. j - d \in p .. k - 1 BY <1>1, <1>3, <2>3, <2>6, <5>2
        <5> QED BY <1>3, <5>2, <5>3
      <4>4. j \in Int BY <1>3
      <4> HIDE DEF d
      <4> QED BY <1>1, <4>1, <4>2, <4>3, <4>4
    <3>5. Up(u, p, k + d) BY <2>4, <3>1, <3>2, <3>4 DEF Up
    <3> QED BY <2>2, <2>3, <3>1, <3>5, ParentIs DEF p
  <2>7. CASE p > e
    <3>1. ~(p < n) /\ p \in Nat BY <1>1, <1>3, <2>7
    <3>2. q = p + d BY <3>1 DEF Moved
    <3>3. /\ p + d \in 0 .. (k + d) - 1 /\ p # 0 /\ p - 1 \in e .. L /\ (p + d) - 1 = (p - 1) + d
          /\ f <= p + d
      BY <1>1, <1>3, <1>7, <2>3, <2>7, <3>1
    <3>4. Level(u, (p + d) - 1) = Level(s, p - 1) BY <1>2, <3>3
    <3>5. Level(u, (p + d) - 1) < Level(u, (k + d) - 1) BY <1>3, <2>4, <3>3, <3>4
    <3>6. ASSUME NEW j \in p + d .. (k + d) - 1 PROVE Level(u, j) >= Level(s, k - 1)
      <4>1. j \in f .. (k + d) - 1 BY <1>1, <2>3, <3>1, <3>3
      <4>2. Level(u, j) = Level(s, j - d) BY <2>5, <4>1
      <4>3. j - d \in p .. k - 1 BY <2>3, <3>1
      <4> QED BY <1>3, <4>2, <4>3
    <3>7. Up(u, p + d, k + d) BY <2>4, <3>3, <3>5, <3>6 DEF Up
    <3> HIDE DEF d
    <3> QED BY <2>2, <2>3, <3>2, <3>7, ParentIs DEF p, d
  <2> QED BY <1>4, <2>6, <2>7
<1> QED BY <1>6, <1>7

(***************************************************************************)
(* Phandles                                                                *)
(***************************************************************************)
(* The phandles of a list are among those of H, each belongs to a node of  *)
(* the list, and no two nodes have the same.                               *)
Apart(x, H) ==
  /\ IsList(x)
  /\ \A k \in PhandleProps(x) : x[k].val \in H /\ Parent(x, k) # 0
  /\ \A j, k \in PhandleProps(x) : x[j].val = x[k].val => Parent(x, j) = Parent(x, k)

(* Whether token k is a phandle depends on nothing else.                   *)
IsPhandle(token) == token.t = "prop" /\ token.name \in PhandleNames

(* The properties dts_get_phandles looks at                                *)
LEMMA PhandlePropsIs ==
  ASSUME NEW x, IsList(x)
  PROVE  PhandleProps(x) = {k \in 1 .. Len(x) : IsPhandle(x[k])} /\ Len(x) \in Nat
<1>1. DOMAIN x = 1 .. Len(x) /\ Len(x) \in Nat BY ListIs DEF IsList
<1> QED BY <1>1 DEF PhandleProps, IsPhandle

(* Two lists that have no phandle in common, end to end                    *)
LEMMA ApartJoined ==
  ASSUME NEW x, NEW y, NEW H, NEW G, Apart(x, H), Apart(y, G), H \intersect G = {}
  PROVE  Apart(x \o y, H \union G)
<1> DEFINE z == x \o y  n == Len(x)
<1>1. /\ IsList(x) /\ IsList(y)
      /\ \A k \in PhandleProps(x) : x[k].val \in H /\ Parent(x, k) # 0
      /\ \A j, k \in PhandleProps(x) : x[j].val = x[k].val => Parent(x, j) = Parent(x, k)
      /\ \A k \in PhandleProps(y) : y[k].val \in G /\ Parent(y, k) # 0
      /\ \A j, k \in PhandleProps(y) : y[j].val = y[k].val => Parent(y, j) = Parent(y, k)
  BY DEF Apart
<1>2. /\ IsList(z) /\ n \in Nat /\ Len(y) \in Nat /\ Len(z) = n + Len(y)
      /\ \A k \in 1 .. n : z[k] = x[k]
      /\ \A k \in 1 .. Len(y) : z[k + n] = y[k]
  BY <1>1, Joined
<1> HIDE DEF z, n
<1>3. /\ PhandleProps(x) = {k \in 1 .. n : IsPhandle(x[k])}
      /\ PhandleProps(y) = {k \in 1 .. Len(y) : IsPhandle(y[k])}
      /\ PhandleProps(z) = {k \in 1 .. Len(z) : IsPhandle(z[k])}
  BY <1>1, <1>2, PhandlePropsIs DEF n
<1>4. ASSUME NEW k \in PhandleProps(z), k <= n
      PROVE  k \in PhandleProps(x) /\ z[k].val = x[k].val /\ Parent(z, k) = Parent(x, k)
               /\ z[k].val \in H /\ Parent(z, k) \in 1 .. n
  <2>1. k \in 1 .. n /\ z[k] = x[k] BY <1>2, <1>3, <1>4
  <2>2. k \in PhandleProps(x) BY <1>3, <2>1
  <2>3. x[k].val \in H /\ Parent(x, k) # 0 BY <1>1, <2>2
  <2> DEFINE o == 0
  <2>4. o \in Nat /\ \A j \in 1 .. n : z[j + o] = x[j] /\ j + o = j
    <3>1. \A j \in 1 .. n : j + o = j BY <1>2
    <3> QED BY <1>2, <3>1
  <2>5. Parent(z, k) = Parent(x, k)
    <3>1. k + o = k /\ Parent(x, k) + o = Parent(x, k)
      <4>1. Parent(x, k) \in 0 .. k - 1 BY <2>1, ParentUp DEF Up
      <4> QED BY <2>1, <4>1
    <3> HIDE DEF o
    <3>2. Shifted(x, z, 1, n, o) BY <2>4 DEF Shifted
    <3>3. Parent(z, k + o) = Parent(x, k) + o BY <1>2, <2>1, <2>3, <2>4, <3>2, ParentMoved
    <3> QED BY <3>1, <3>3
  <2>6. Parent(x, k) \in 0 .. k - 1 BY <2>1, ParentUp DEF Up
  <2> QED BY <1>2, <2>1, <2>2, <2>3, <2>5, <2>6
<1>5. ASSUME NEW k \in PhandleProps(z), k > n
      PROVE  k - n \in PhandleProps(y) /\ z[k].val = y[k - n].val
               /\ Parent(z, k) = Parent(y, k - n) + n /\ z[k].val \in G /\ Parent(z, k) # 0
  <2>1. k - n \in 1 .. Len(y) /\ (k - n) + n = k /\ z[k] = y[k - n] BY <1>2, <1>3, <1>5
  <2>2. k - n \in PhandleProps(y) BY <1>3, <2>1
  <2>3. y[k - n].val \in G /\ Parent(y, k - n) # 0 BY <1>1, <2>2
  <2>4. Shifted(y, z, 1, Len(y), n) BY <1>2 DEF Shifted
  <2>5. Parent(z, (k - n) + n) = Parent(y, k - n) + n
    <3> DEFINE j == k - n
    <3>1. j \in 1 .. Len(y) /\ Parent(y, j) # 0 BY <2>1, <2>3
    <3> HIDE DEF j
    <3>2. Parent(z, j + n) = Parent(y, j) + n BY <1>2, <2>4, <3>1, ParentMoved
    <3> QED BY <3>2 DEF j
  <2>6. Parent(y, k - n) \in Nat
    <3>1. k - n \in Nat \ {0} BY <2>1
    <3> QED BY <3>1, ParentUp DEF Up
  <2> QED BY <1>2, <2>1, <2>2, <2>3, <2>5, <2>6
<1>6. \A k \in PhandleProps(z) : k \in Int /\ (k <= n \/ k > n) BY <1>2, <1>3
<1>7. ASSUME NEW k \in PhandleProps(z) PROVE z[k].val \in H \union G /\ Parent(z, k) # 0
  <2>1. CASE k <= n BY <1>4, <2>1
  <2>2. CASE k > n BY <1>5, <2>2
  <2> QED BY <1>6, <2>1, <2>2
<1>8. ASSUME NEW j \in PhandleProps(z), NEW k \in PhandleProps(z), z[j].val = z[k].val
      PROVE  Parent(z, j) = Parent(z, k)
  <2>1. CASE j <= n /\ k <= n BY <1>1, <1>4, <1>8, <2>1
  <2>2. CASE j > n /\ k > n
    <3>1. j - n \in PhandleProps(y) /\ k - n \in PhandleProps(y) /\ y[j - n].val = y[k - n].val
            /\ Parent(z, j) = Parent(y, j - n) + n /\ Parent(z, k) = Parent(y, k - n) + n
      BY <1>5, <1>8, <2>2
    <3> QED BY <1>1, <3>1
  <2>3. CASE (j <= n /\ k > n) \/ (j > n /\ k <= n)
    <3>1. (z[j].val \in H /\ z[k].val \in G) \/ (z[j].val \in G /\ z[k].val \in H) BY <1>4, <1>5, <2>3
    <3> QED BY <1>8, <3>1
  <2> QED BY <1>6, <2>1, <2>2, <2>3
<1>9. Apart(z, H \union G) BY <1>2, <1>7, <1>8 DEF Apart
<1> QED BY <1>9 DEF z

(* A list without a phandle                                                *)
LEMMA ApartNone ==
  ASSUME NEW x, IsList(x), \A k \in 1 .. Len(x) : ~IsPhandle(x[k])
  PROVE  Apart(x, {})
<1>1. PhandleProps(x) = {} BY PhandlePropsIs
<1> QED BY <1>1 DEF Apart

(* Properties that give one phandle, if any                                *)
Giving(y, v) ==
  IsList(y) /\ \A k \in 1 .. Len(y) : y[k].t = "prop" /\ (IsPhandle(y[k]) => y[k].val = v)

(* The beginning of a node with such properties                            *)
Headed(x, v) ==
  /\ IsList(x) /\ Len(x) >= 1 /\ x[1].t = "begin"
  /\ \A k \in 2 .. Len(x) : x[k].t = "prop" /\ (IsPhandle(x[k]) => x[k].val = v)

(* More properties of the same node                                        *)
LEMMA HeadJoined ==
  ASSUME NEW x, NEW y, NEW v, Headed(x, v), Giving(y, v)
  PROVE  Headed(x \o y, v)
<1> DEFINE z == x \o y  n == Len(x)
<1>1. /\ IsList(z) /\ n \in Nat /\ Len(y) \in Nat /\ Len(z) = n + Len(y)
      /\ \A k \in 1 .. n : z[k] = x[k]
      /\ \A k \in 1 .. Len(y) : z[k + n] = y[k]
  BY Joined DEF Headed, Giving
<1> HIDE DEF z, n
<1>2. n >= 1 /\ x[1].t = "begin" /\ \A k \in 2 .. n : x[k].t = "prop" /\ (IsPhandle(x[k]) => x[k].val = v)
  BY DEF Headed, n
<1>3. ASSUME NEW k \in 2 .. Len(z) PROVE z[k].t = "prop" /\ (IsPhandle(z[k]) => z[k].val = v)
  <2>1. CASE k <= n
    <3>1. k \in 2 .. n /\ k \in 1 .. n BY <1>1, <2>1
    <3> QED BY <1>1, <1>2, <3>1
  <2>2. CASE k > n
    <3>1. k - n \in 1 .. Len(y) /\ (k - n) + n = k BY <1>1, <2>2
    <3>2. z[k] = y[k - n] BY <1>1, <3>1
    <3> QED BY <3>1, <3>2 DEF Giving
  <2> QED BY <1>1, <2>1, <2>2
<1>4. z[1].t = "begin" /\ Len(z) >= 1
  <2>1. 1 \in 1 .. n BY <1>1, <1>2
  <2> QED BY <1>1, <1>2, <2>1
<1>5. Headed(z, v) BY <1>1, <1>3, <1>4 DEF Headed
<1> QED BY <1>5 DEF z

(* They belong to one node, so that a phandle given twice is no matter.    *)
LEMMA HeadApart ==
  ASSUME NEW x, NEW v, Headed(x, v)
  PROVE  Apart(x, {v})
<1>1. /\ IsList(x) /\ Len(x) >= 1 /\ x[1].t = "begin"
      /\ \A k \in 2 .. Len(x) : x[k].t = "prop" /\ (IsPhandle(x[k]) => x[k].val = v)
  BY DEF Headed
<1>2. Len(x) \in Nat /\ PhandleProps(x) = {k \in 1 .. Len(x) : IsPhandle(x[k])} BY <1>1, PhandlePropsIs
<1>3. ASSUME NEW k \in 1 .. Len(x) PROVE Level(x, k) = 1
  <2>1. Those(x, 1, k, "begin") = {1} /\ Those(x, 1, k, "end") = {}
    <3>1. \A j \in 1 .. k : j = 1 \/ j \in 2 .. Len(x) BY <1>2
    <3>2. 1 \in 1 .. k BY <1>2
    <3> QED BY <1>1, <3>1, <3>2 DEF Those
  <2>2. k \in Int BY <1>2
  <2>3. Count(x, 1, k, "begin") = 1 /\ Count(x, 1, k, "end") = 0
    BY <2>1, FS_EmptySet, FS_Singleton DEF Count
  <2> QED BY <2>2, <2>3, DepthIs DEF Level
<1>4. ASSUME NEW k \in 2 .. Len(x) PROVE Parent(x, k) = 1
  <2>1. /\ k \in Nat \ {0} /\ 1 \in 0 .. k - 1 /\ k - 1 \in 1 .. Len(x) /\ 1 - 1 = 0
        /\ \A j \in 1 .. k - 1 : j \in 1 .. Len(x)
    BY <1>2
  <2>2. Level(x, 1 - 1) = 0 BY LevelZero
  <2>3. Up(x, 1, k) BY <1>3, <2>1, <2>2 DEF Up
  <2> QED BY <2>1, <2>3, ParentIs
<1>5. \A k \in PhandleProps(x) : k \in 2 .. Len(x)
  <2>1. \A k \in 1 .. Len(x) : k = 1 \/ k \in 2 .. Len(x) BY <1>2
  <2>2. ~IsPhandle(x[1]) BY <1>1 DEF IsPhandle
  <2> QED BY <1>2, <2>1, <2>2
<1> QED BY <1>1, <1>2, <1>4, <1>5 DEF Apart

(* Of the tokens composed only those named so are phandles.                *)
LEMMA TokenPhandles ==
  /\ ~IsPhandle(End) /\ \A name : ~IsPhandle(Begin(name)) /\ \A text : ~IsPhandle(Pname(text))
  /\ \A id, val : ~IsPhandle(PartProp(id, val))
  /\ \A name, val : /\ IsPhandle(Prop(name, val)) <=> name \in PhandleNames
                    /\ Prop(name, val).val = val
<1> DEFINE none == ""
<1>1. \A a, b, c, d, e : Token(a, b, c, d, e).val = d BY DEF Token
<1>2. \A name, val : Prop(name, val) = Token("prop", name, 0, val, none) BY Zenon DEF Prop
<1> HIDE DEF none
<1>3. \A name, val : Prop(name, val).val = val BY <1>1, <1>2
<1>4. /\ End.t # "prop" /\ \A name : Begin(name).t # "prop" BY Tokens
<1>5. \A text : Pname(text).name = "pname" BY Tokens
<1>6. \A id, val : PartProp(id, val).name = "part-" BY Tokens
<1>7. \A name, val : Prop(name, val).t = "prop" /\ Prop(name, val).name = name BY Tokens
<1>8. "pname" \notin PhandleNames /\ "part-" \notin PhandleNames BY DEF PhandleNames
<1>9. ~IsPhandle(End) /\ \A name : ~IsPhandle(Begin(name)) BY <1>4 DEF IsPhandle
<1>10. \A text : ~IsPhandle(Pname(text)) BY <1>5, <1>8 DEF IsPhandle
<1>11. \A id, val : ~IsPhandle(PartProp(id, val)) BY <1>6, <1>8 DEF IsPhandle
<1>12. \A name, val : IsPhandle(Prop(name, val)) <=> name \in PhandleNames BY <1>7 DEF IsPhandle
<1> QED BY <1>3, <1>9, <1>10, <1>11, <1>12

(* A list with a phandle                                                   *)
Has(x) == \E k \in 1 .. Len(x) : IsPhandle(x[k])

(* Two lists end to end have a phandle if one of them has.                 *)
LEMMA HasJoined ==
  ASSUME NEW x, NEW y, IsList(x), IsList(y), Has(x) \/ Has(y)
  PROVE  Has(x \o y)
<1>1. /\ Len(x) \in Nat /\ Len(y) \in Nat /\ Len(x \o y) = Len(x) + Len(y)
      /\ \A k \in 1 .. Len(x) : (x \o y)[k] = x[k]
      /\ \A k \in 1 .. Len(y) : (x \o y)[k + Len(x)] = y[k]
  BY Joined
<1>2. CASE Has(x)
  <2>1. PICK k \in 1 .. Len(x) : IsPhandle(x[k]) BY <1>2 DEF Has
  <2>2. k \in 1 .. Len(x \o y) /\ (x \o y)[k] = x[k] BY <1>1
  <2> QED BY <2>1, <2>2 DEF Has
<1>3. CASE Has(y)
  <2>1. PICK k \in 1 .. Len(y) : IsPhandle(y[k]) BY <1>3 DEF Has
  <2>2. k + Len(x) \in 1 .. Len(x \o y) /\ (x \o y)[k + Len(x)] = y[k] BY <1>1
  <2> QED BY <2>1, <2>2 DEF Has
<1> QED BY <1>2, <1>3

(* The one or two properties that give a node its phandle                  *)
LEMMA WithLinuxGives ==
  ASSUME NEW v, NEW linux
  PROVE  Giving(WithLinux(v, linux), v) /\ Has(WithLinux(v, linux))
<1> DEFINE p == Prop("phandle", v)  l == Prop("linux,phandle", v)  x == WithLinux(v, linux)
<1>1. p.t = "prop" /\ l.t = "prop" /\ p.val = v /\ l.val = v /\ IsPhandle(p)
  <2>1. p.t = "prop" /\ l.t = "prop" BY PropTokens
  <2>2. "phandle" \in PhandleNames BY DEF PhandleNames
  <2> QED BY <2>1, <2>2, TokenPhandles
<1>2. x = << p, l >> \/ x = << p >> BY DEF WithLinux
<1> HIDE DEF p, l, x
<1>3. << p, l >> \in Seq({p, l}) /\ << p >> \in Seq({p, l}) OBVIOUS
<1>4. x \in Seq({p, l}) /\ Len(x) >= 1 /\ x[1] = p
  <2>1. CASE x = << p, l >>
    <3>1. Len(<< p, l >>) = 2 /\ << p, l >>[1] = p OBVIOUS
    <3> QED BY <1>3, <2>1, <3>1
  <2>2. CASE x = << p >>
    <3>1. Len(<< p >>) = 1 /\ << p >>[1] = p OBVIOUS
    <3> QED BY <1>3, <2>2, <3>1
  <2> QED BY <1>2, <2>1, <2>2
<1>5. IsList(x) /\ Len(x) \in Nat /\ \A k \in 1 .. Len(x) : x[k] \in {p, l}
  <2> DEFINE T == {p, l}
  <2>1. x \in Seq(T) BY <1>4
  <2> HIDE DEF T
  <2>2. IsList(x) /\ Len(x) \in Nat /\ \A k \in 1 .. Len(x) : x[k] \in T BY <2>1, ListIs
  <2> QED BY <2>2 DEF T
<1>6. Giving(x, v) BY <1>1, <1>5 DEF Giving
<1>7. 1 \in 1 .. Len(x) BY <1>4, <1>5
<1>8. Has(x) BY <1>1, <1>4, <1>7 DEF Has
<1> QED BY <1>6, <1>8 DEF x

(* The END_NODE of a node gives no phandle.                                *)
LEMMA EndAlone == IsList(<< End >>) /\ Apart(<< End >>, {})
<1> DEFINE e == << End >>
<1>1. e \in Seq({End}) /\ Len(e) = 1 /\ e[1] = End OBVIOUS
<1> HIDE DEF e
<1>2. IsList(e) BY <1>1, ListIs
<1>3. \A k \in 1 .. Len(e) : ~IsPhandle(e[k]) BY <1>1, TokenPhandles
<1>4. Apart(e, {}) BY <1>2, <1>3, ApartNone
<1> QED BY <1>2, <1>4 DEF e

(* Each child has the phandle given to it, and no other.                   *)
LEMMA ComposedPartApart ==
  ASSUME NEW part, NEW v, NEW linux
  PROVE  Apart(ComposedPart(part, v, linux), {v})
<1> DEFINE b == Begin(part.name)  p == Pname(part.name)  s == Prop("size", part.size)
           m == Prop("mask", part.mask)  x == << b, p, s, m >>  y == WithLinux(v, linux)
           e == << End >>
<1>1. /\ b.t = "begin" /\ p.t = "prop" /\ s.t = "prop" /\ m.t = "prop"
      /\ ~IsPhandle(p) /\ ~IsPhandle(s) /\ ~IsPhandle(m)
  <2>1. b.t = "begin" /\ p.t = "prop" /\ s.t = "prop" /\ m.t = "prop" BY Tokens
  <2>2. "size" \notin PhandleNames /\ "mask" \notin PhandleNames BY DEF PhandleNames
  <2> QED BY <2>1, <2>2, TokenPhandles
<1>2. ComposedPart(part, v, linux) = (x \o y) \o e BY DEF ComposedPart
<1>3. Giving(y, v) BY WithLinuxGives
<1>4. Apart(e, {}) BY EndAlone
<1> HIDE DEF b, p, s, m, y, e
<1>5. x \in Seq({b, p, s, m}) /\ Len(x) = 4 /\ x[1] = b /\ x[2] = p /\ x[3] = s /\ x[4] = m OBVIOUS
<1> HIDE DEF x
<1>6. IsList(x) BY <1>5, ListIs
<1>7. \A k \in 2 .. Len(x) : k = 2 \/ k = 3 \/ k = 4 BY <1>5
<1>8. Headed(x, v) BY <1>1, <1>5, <1>6, <1>7 DEF Headed
<1>9. Apart(x \o y, {v}) BY <1>3, <1>8, HeadJoined, HeadApart
<1>10. Apart((x \o y) \o e, {v} \union {})
  <2>1. {v} \intersect {} = {} OBVIOUS
  <2> QED BY <1>4, <1>9, <2>1, ApartJoined
<1>11. {v} \union {} = {v} OBVIOUS
<1> QED BY <1>2, <1>10, <1>11

(* Handles for n partitions and the node, no two the same                  *)
Distinct(handle, n) == \A i, j \in 1 .. n : handle[i] = handle[j] => i = j

Given(handle, n) == {handle[i] : i \in 1 .. n}

(* The children have those given to them, each its own.                    *)
LEMMA ChildrenApart ==
  ASSUME NEW parts, NEW handle, NEW linux, NEW f, Len(parts) \in Nat,
         EndToEnd(f, parts, handle, linux), Distinct(handle, Len(parts))
  PROVE  Apart(f[Len(parts)], Given(handle, Len(parts)))
<1> DEFINE n == Len(parts)
           T == {h \in 0 .. n : Apart(f[h], Given(handle, h))}
<1>1. 0 \in T
  <2> DEFINE none == <<>>
  <2>1. none \in Seq({}) /\ Len(none) = 0 OBVIOUS
  <2>2. f[0] = none BY DEF EndToEnd
  <2> HIDE DEF none
  <2>3. IsList(none) BY <2>1, ListIs
  <2>4. Apart(none, {}) BY <2>1, <2>3, ApartNone
  <2>5. Given(handle, 0) = {} BY DEF Given
  <2>6. Apart(f[0], Given(handle, 0)) BY <2>2, <2>4, <2>5
  <2> QED BY <2>6
<1>2. ASSUME NEW h \in 1 .. n, h - 1 \in T PROVE h \in T
  <2> DEFINE c == ComposedPart(parts[h], handle[h], linux)
  <2>1. Apart(f[h - 1], Given(handle, h - 1)) BY <1>2
  <2>2. Apart(c, {handle[h]}) BY ComposedPartApart
  <2>3. f[h] = f[h - 1] \o c BY DEF EndToEnd
  <2>4. Given(handle, h - 1) \intersect {handle[h]} = {}
    <3> SUFFICES ASSUME NEW i \in 1 .. h - 1, handle[i] = handle[h] PROVE FALSE BY DEF Given
    <3>1. i \in 1 .. n /\ h \in 1 .. n /\ i # h OBVIOUS
    <3> QED BY <3>1 DEF Distinct
  <2>5. Given(handle, h) = Given(handle, h - 1) \union {handle[h]}
    <3>1. \A i \in 1 .. h : i = h \/ i \in 1 .. h - 1 OBVIOUS
    <3>2. \A i \in 1 .. h - 1 : i \in 1 .. h OBVIOUS
    <3>3. h \in 1 .. h OBVIOUS
    <3>4. \A v \in Given(handle, h) : v \in Given(handle, h - 1) \union {handle[h]} BY <3>1 DEF Given
    <3>5. \A v \in Given(handle, h - 1) \union {handle[h]} : v \in Given(handle, h) BY <3>2, <3>3 DEF Given
    <3> QED BY <3>4, <3>5
  <2> HIDE DEF c
  <2>6. Apart(f[h - 1] \o c, Given(handle, h - 1) \union {handle[h]}) BY <2>1, <2>2, <2>4, ApartJoined
  <2>7. Apart(f[h], Given(handle, h)) BY <2>3, <2>5, <2>6
  <2> QED BY <2>7
<1>3. n \in Nat OBVIOUS
<1> HIDE DEF T, n
<1>4. \A h \in 0 .. n : h \in T BY <1>1, <1>2, <1>3, Induction
<1>5. n \in T BY <1>3, <1>4
<1> QED BY <1>5 DEF T, n

(* The new node, if no two of the phandles given to it are the same        *)
LEMMA ComposedApart ==
  ASSUME NEW parts, NEW handle, NEW linux, Len(parts) \in Nat, Distinct(handle, Len(parts) + 1)
  PROVE  /\ Apart(Composed(parts, handle, linux), Given(handle, Len(parts) + 1))
         /\ Has(Composed(parts, handle, linux))
<1> DEFINE n == Len(parts)
           v == handle[n + 1]
           b == Begin("partitions")
           p == Prop("parts", n)
           x == << b, p >>
           y == Record(handle, n)
           w == WithLinux(v, linux)
           e == << End >>
           all == Composed(parts, handle, linux)
<1>1. PICK f : /\ EndToEnd(f, parts, handle, linux) /\ Balanced(f[n])
               /\ Laid(all, parts, handle, linux, f[n])
  BY ChildrenLoop
<1> DEFINE z == f[n]
<1>2. all = (((x \o y) \o w) \o z) \o e BY <1>1 DEF Laid
<1>3. Apart(z, Given(handle, n))
  <2>1. Distinct(handle, n) BY DEF Distinct
  <2> QED BY <1>1, <2>1, ChildrenApart
<1>4. Giving(w, v) /\ Has(w) BY WithLinuxGives
<1>5. Apart(e, {}) /\ IsList(e) BY EndAlone
<1>6. Giving(y, v)
  <2> DEFINE T == {PartProp(k - 1, handle[k]) : k \in 1 .. n}
  <2>1. \A k \in 1 .. n : PartProp(k - 1, handle[k]).t = "prop" BY Tokens
  <2>2. \A k \in 1 .. n : ~IsPhandle(PartProp(k - 1, handle[k])) BY TokenPhandles
  <2>3. \A q \in T : q.t = "prop" /\ ~IsPhandle(q) BY <2>1, <2>2
  <2>4. y \in Seq(T) BY DEF Record
  <2> HIDE DEF T, y
  <2>5. IsList(y) /\ \A k \in 1 .. Len(y) : y[k] \in T BY <2>4, ListIs
  <2> QED BY <2>3, <2>5 DEF Giving
<1>7. b.t = "begin" /\ p.t = "prop" /\ ~IsPhandle(p)
  <2>1. b.t = "begin" /\ p.t = "prop" BY Tokens
  <2>2. "parts" \notin PhandleNames BY DEF PhandleNames
  <2> QED BY <2>1, <2>2, TokenPhandles
<1>8. n \in Nat OBVIOUS
<1> HIDE DEF b, p, y, w, e, z, all, v, n
<1>9. x \in Seq({b, p}) /\ Len(x) = 2 /\ x[1] = b /\ x[2] = p OBVIOUS
<1> HIDE DEF x
<1>10. IsList(x) BY <1>9, ListIs
<1>11. Headed(x, v)
  <2>1. \A k \in 2 .. Len(x) : k = 2 BY <1>9
  <2> QED BY <1>7, <1>9, <1>10, <2>1 DEF Headed
<1>12. Headed(x \o y, v) BY <1>6, <1>11, HeadJoined
<1>13. Headed((x \o y) \o w, v) BY <1>4, <1>12, HeadJoined
<1> DEFINE head == (x \o y) \o w
<1>14. Apart(head, {v}) BY <1>13, HeadApart
<1>15. Has(head)
  <2>1. IsList(x \o y) /\ IsList(w) BY <1>4, <1>12 DEF Headed, Giving
  <2> QED BY <1>4, <2>1, HasJoined
<1>16. all = (head \o z) \o e BY <1>2
<1> HIDE DEF head
<1>17. {v} \intersect Given(handle, n) = {}
  <2> SUFFICES ASSUME NEW i \in 1 .. n, handle[i] = v PROVE FALSE BY DEF Given
  <2>1. i \in 1 .. n + 1 /\ n + 1 \in 1 .. n + 1 /\ i # n + 1 BY <1>8
  <2>2. handle[i] = handle[n + 1] BY DEF v
  <2> QED BY <2>1, <2>2 DEF Distinct, n
<1>18. Apart(head \o z, {v} \union Given(handle, n)) BY <1>3, <1>14, <1>17, ApartJoined
<1> DEFINE H == {v} \union Given(handle, n)
<1>19. H = Given(handle, n + 1)
  <2>1. \A i \in 1 .. n + 1 : i = n + 1 \/ i \in 1 .. n BY <1>8
  <2>2. n + 1 \in 1 .. n + 1 /\ \A i \in 1 .. n : i \in 1 .. n + 1 BY <1>8
  <2>3. \A q \in Given(handle, n + 1) : q \in H BY <2>1 DEF Given, v
  <2>4. \A q \in H : q \in Given(handle, n + 1) BY <2>2 DEF Given, v
  <2> QED BY <2>3, <2>4
<1>20. IsList(head \o z) /\ Has(head \o z)
  <2>1. IsList(head) /\ IsList(z) BY <1>3, <1>14 DEF Apart
  <2> QED BY <1>15, <1>18, <2>1, HasJoined DEF Apart
<1> HIDE DEF H
<1>21. Apart(head \o z, H) BY <1>18 DEF H
<1>22. Apart((head \o z) \o e, H)
  <2>1. H \intersect {} = {} /\ H \union {} = H OBVIOUS
  <2>2. Apart((head \o z) \o e, H \union {}) BY <1>5, <1>21, <2>1, ApartJoined
  <2> QED BY <2>1, <2>2
<1>23. Has((head \o z) \o e) BY <1>5, <1>20, HasJoined
<1>24. Apart(all, H) /\ Has(all) BY <1>16, <1>22, <1>23
<1> QED BY <1>19, <1>24 DEF all, n

(* A tree whose phandles are legal, with a node in place of another, if    *)
(* the new one has phandles of its own that no other node has              *)
LEMMA ReplacedLegal ==
  ASSUME NEW s, IsList(s), PhandlesLegal(s), NEW u, IsList(u),
         NEW n, NEW e, NEW f, Replaced(s, u, n, e, f),
         NEW x, NEW H, Apart(x, H), Has(x) \/ PhandleProps(u) # {},
         f = n - 1 + Len(x), Shifted(x, u, 1, Len(x), n - 1),
         Misfit \notin H, 0 \notin H,
         \A k \in PhandleProps(s) : k < n \/ k > e => s[k].val \notin H,
         Root(u) # 0, EndOf(u, Root(u)) # 0
  PROVE  PhandlesLegal(u)
<1> DEFINE d == f - e  L == Len(x)  m == n - 1
           In(k) == k >= n /\ k <= f
           Back(k) == IF k < n THEN k ELSE k - d
<1>1. /\ n \in Nat \ {0} /\ e \in Nat /\ f \in Nat /\ n - 1 <= e /\ n - 1 <= f
      /\ Len(s) \in Nat /\ Len(u) \in Nat /\ e <= Len(s) /\ Len(u) = Len(s) + (f - e)
      /\ \A k \in 1 .. n - 1 : u[k] = s[k]
      /\ \A k \in e + 1 .. Len(s) : u[k + (f - e)] = s[k]
  BY DEF Replaced
<1>2. /\ PhandleProps(s) = {k \in 1 .. Len(s) : IsPhandle(s[k])}
      /\ PhandleProps(u) = {k \in 1 .. Len(u) : IsPhandle(u[k])}
      /\ PhandleProps(x) = {k \in 1 .. L : IsPhandle(x[k])}
      /\ L \in Nat
  BY PhandlePropsIs DEF Apart
<1>3. \A k \in 1 .. L : u[k + m] = x[k] BY DEF Shifted
<1>4. f = m + L /\ m \in Nat /\ m + 1 = n /\ d \in Int /\ Len(u) = Len(s) + d BY <1>1, <1>2
<1>5. Shifted(x, u, 1, L, m) OBVIOUS
<1> HIDE DEF L, m
<1>6. ASSUME NEW k \in PhandleProps(u), In(k)
      PROVE  k - m \in PhandleProps(x) /\ u[k].val = x[k - m].val /\ u[k].val \in H
               /\ Parent(u, k) = Parent(x, k - m) + m
  <2> DEFINE j == k - m
  <2>1. j \in 1 .. L /\ j + m = k
    <3>1. k \in Int /\ k >= n /\ k <= f BY <1>2, <1>6
    <3> HIDE DEF d, In
    <3> QED BY <1>1, <1>2, <1>4, <3>1
  <2>2. u[k] = x[j] BY <1>3, <2>1
  <2>3. j \in PhandleProps(x) BY <1>2, <1>6, <2>1, <2>2
  <2>4. x[j].val \in H /\ Parent(x, j) # 0 BY <2>3 DEF Apart
  <2> HIDE DEF j
  <2>5. Parent(u, j + m) = Parent(x, j) + m BY <1>2, <1>4, <1>5, <2>1, <2>4, ParentMoved
  <2> QED BY <2>1, <2>2, <2>3, <2>4, <2>5 DEF j
<1>7. ASSUME NEW k \in PhandleProps(u), ~In(k)
      PROVE  Back(k) \in PhandleProps(s) /\ u[k].val = s[Back(k)].val /\ u[k].val \notin H
               /\ Parent(u, k) = Moved(Parent(s, Back(k)), n, e, f)
  <2>1. k \in 1 .. Len(u) /\ (k < n \/ k > f) BY <1>1, <1>2, <1>7
  <2>2. /\ Back(k) \in 1 .. Len(s) /\ (Back(k) < n \/ Back(k) > e) /\ Moved(Back(k), n, e, f) = k
        /\ u[k] = s[Back(k)]
    <3>1. CASE k < n
      <4>1. Back(k) = k /\ k \in 1 .. n - 1 /\ k \in 1 .. Len(s) BY <1>1, <2>1, <3>1
      <4>2. Moved(k, n, e, f) = k BY <3>1 DEF Moved
      <4> QED BY <1>1, <3>1, <4>1, <4>2
    <3>2. CASE k > f
      <4>1. Back(k) = k - d
        <5>1. ~(k < n) BY <1>1, <2>1, <3>2
        <5> QED BY <5>1
      <4>2. /\ Back(k) = k - d /\ k - d \in e + 1 .. Len(s) /\ ~(k - d < n) /\ (k - d) + d = k
            /\ k - d \in 1 .. Len(s) /\ k - d > e
        <5>1. /\ d + e = f /\ d \in Int /\ e \in Nat /\ f \in Nat /\ n \in Nat /\ n - 1 <= e
              /\ Len(s) \in Nat /\ k \in Int /\ k <= Len(s) + d /\ k > f
          BY <1>1, <1>4, <2>1, <3>2
        <5> DEFINE c == k - d
        <5>2. c \in Int /\ c + d = k BY <5>1
        <5> HIDE DEF d, c
        <5>3. c \in e + 1 .. Len(s) /\ ~(c < n) /\ c \in 1 .. Len(s) /\ c > e BY <5>1, <5>2
        <5> QED BY <4>1, <5>2, <5>3 DEF c
      <4>3. Moved(k - d, n, e, f) = k BY <4>2 DEF Moved
      <4>4. u[(k - d) + d] = s[k - d] BY <1>1, <4>2
      <4> QED BY <4>2, <4>3, <4>4
    <3> QED BY <2>1, <3>1, <3>2
  <2> HIDE DEF Back, d
  <2>3. Back(k) \in PhandleProps(s) BY <1>2, <1>7, <2>2
  <2>4. s[Back(k)].val \notin H BY <2>2, <2>3
  <2>5. Parent(u, Moved(Back(k), n, e, f)) = Moved(Parent(s, Back(k)), n, e, f)
    BY <2>2, ReplacedParent
  <2> QED BY <2>2, <2>3, <2>4, <2>5
<1> HIDE DEF In, Back
<1>8. /\ \A k \in PhandleProps(s) : s[k].val # Misfit /\ s[k].val # 0
      /\ \A j, k \in PhandleProps(s) : s[j].val = s[k].val => Parent(s, j) = Parent(s, k)
  BY DEF PhandlesLegal
<1>9. \A j, k \in PhandleProps(x) : x[j].val = x[k].val => Parent(x, j) = Parent(x, k) BY DEF Apart
<1>10. PhandleProps(u) # {}
  <2> SUFFICES ASSUME Has(x) PROVE PhandleProps(u) # {} OBVIOUS
  <2>1. PICK k \in 1 .. L : IsPhandle(x[k]) BY DEF Has, L
  <2>2. f <= Len(u)
    <3> HIDE DEF d
    <3> QED BY <1>1
  <2>3. k + m \in 1 .. Len(u)
    <3>1. k + m \in Nat \ {0} /\ k + m <= f BY <1>2, <1>4
    <3> QED BY <1>1, <2>2, <3>1
  <2> QED BY <1>2, <1>3, <2>1, <2>3
<1>11. ASSUME NEW k \in PhandleProps(u) PROVE u[k].val # Misfit /\ u[k].val # 0
  <2>1. CASE In(k) BY <1>6, <2>1
  <2>2. CASE ~In(k) BY <1>7, <1>8, <2>2
  <2> QED BY <2>1, <2>2
<1>12. ASSUME NEW j \in PhandleProps(u), NEW k \in PhandleProps(u), u[j].val = u[k].val
       PROVE  Parent(u, j) = Parent(u, k)
  <2>1. CASE In(j) /\ In(k)
    <3>1. Parent(x, j - m) = Parent(x, k - m) BY <1>6, <1>9, <1>12, <2>1
    <3> QED BY <1>6, <2>1, <3>1
  <2>2. CASE ~In(j) /\ ~In(k)
    <3>1. Parent(s, Back(j)) = Parent(s, Back(k)) BY <1>7, <1>8, <1>12, <2>2
    <3> QED BY <1>7, <2>2, <3>1
  <2>3. CASE (In(j) /\ ~In(k)) \/ (~In(j) /\ In(k)) BY <1>6, <1>7, <1>12, <2>3
  <2> QED BY <2>1, <2>2, <2>3
<1> QED BY <1>10, <1>11, <1>12 DEF PhandlesLegal

(* A finite set of numbers has a lowest, a next, ...                       *)
LEMMA NthIs ==
  ASSUME NEW S \in SUBSET Nat, NEW m \in Nat, \A y \in S : y <= m, IsFiniteSet(S),
         NEW k \in 1 .. Cardinality(S)
  PROVE  Nth(S, k) \in S /\ Cardinality({y \in S : y < Nth(S, k)}) = k - 1
<1> DEFINE Below(x) == {y \in S : y < x}
           high == {x \in S : Cardinality(Below(x)) >= k - 1}
<1>1. \A x \in S : IsFiniteSet(Below(x)) /\ Cardinality(Below(x)) \in Nat
  BY FS_Subset, FS_CardinalityType
<1>2. Cardinality(S) \in Nat BY FS_CardinalityType
<1>3. S # {}
  <2>1. Cardinality(S) # 0 BY <1>2
  <2> QED BY <2>1, FS_EmptySet
<1>4. PICK top \in S : \A y \in S : y <= top BY <1>3, GreatestElement
<1>5. top \in high
  <2>1. Below(top) = S \ {top}
    <3>1. \A y \in Below(top) : y \in S \ {top} OBVIOUS
    <3>2. \A y \in S \ {top} : y \in Below(top) BY <1>4
    <3> QED BY <3>1, <3>2
  <2>2. Cardinality(S \ {top}) = Cardinality(S) - 1 BY <1>4, FS_RemoveElement
  <2> HIDE DEF Below
  <2> QED BY <1>2, <1>4, <2>1, <2>2
<1>6. PICK x \in high : \A y \in high : x <= y
  <2>1. high \in SUBSET Nat /\ high # {} BY <1>5
  <2> HIDE DEF high
  <2> QED BY <2>1, LeastElement
<1>7. x \in S /\ Cardinality(Below(x)) >= k - 1 OBVIOUS
<1>8. Cardinality(Below(x)) = k - 1
  <2> SUFFICES ASSUME Cardinality(Below(x)) > k - 1 PROVE FALSE
    BY <1>1, <1>2, <1>7
  <2> DEFINE B == Below(x)
  <2>1. IsFiniteSet(B) /\ Cardinality(B) \in Nat /\ B \in SUBSET Nat BY <1>1, <1>7
  <2>2. B # {}
    <3>1. Cardinality(B) # 0 BY <1>2, <2>1
    <3> QED BY <3>1, FS_EmptySet
  <2>3. PICK y \in B : \A z \in B : z <= y
    <3>1. x \in Nat /\ \A z \in B : z <= x BY <1>7
    <3> HIDE DEF B
    <3> QED BY <2>1, <2>2, <3>1, GreatestElement
  <2>4. y \in S /\ y < x /\ y \in Nat /\ x \in Nat BY <1>7
  <2>5. Below(y) = B \ {y}
    <3>1. \A z \in Below(y) : z \in B \ {y} BY <1>7, <2>4
    <3>2. \A z \in B \ {y} : z \in Below(y) BY <2>1, <2>3, <2>4
    <3> QED BY <3>1, <3>2
  <2>6. Cardinality(B \ {y}) = Cardinality(B) - 1 BY <2>1, <2>3, FS_RemoveElement
  <2>7. Cardinality(B) > k - 1 OBVIOUS
  <2> HIDE DEF B, Below
  <2>8. Cardinality(Below(y)) >= k - 1 BY <1>2, <2>1, <2>5, <2>6, <2>7
  <2>9. y \in high BY <2>4, <2>8
  <2>10. x <= y BY <1>6, <2>9
  <2> QED BY <2>4, <2>10
<1>9. \E w \in S : Cardinality({y \in S : y < w}) = k - 1 BY <1>7, <1>8
<1> QED BY <1>9 DEF Nth

(* The phandles assigned are free, and each is assigned once.              *)
LEMMA AssignedIs ==
  ASSUME NEW used, IsFiniteSet(used), NEW n \in Nat
  PROVE  /\ \A i \in 1 .. n : Assigned(used, n)[i] \in Nat \ {0} /\ Assigned(used, n)[i] \notin used
         /\ \A i \in 1 .. n : Assigned(used, n)[i] <= Cardinality(used) + n
         /\ Distinct(Assigned(used, n), n)
<1> DEFINE c == Cardinality(used)
           free == 1 .. (c + n) \ used
           handle == Assigned(used, n)
<1>1. c \in Nat BY FS_CardinalityType
<1>2. IsFiniteSet(1 .. c + n) /\ Cardinality(1 .. c + n) = c + n
  <2>1. c + n \in Int /\ 1 \in Int BY <1>1
  <2>2. Cardinality(1 .. c + n) = IF 1 > c + n THEN 0 ELSE (c + n) - 1 + 1 BY <2>1, FS_Interval
  <2>3. IsFiniteSet(1 .. c + n) BY <2>1, FS_Interval
  <2> HIDE DEF c
  <2> QED BY <1>1, <2>2, <2>3
<1>3. /\ IsFiniteSet(free)
      /\ Cardinality(free) = Cardinality(1 .. c + n) - Cardinality((1 .. c + n) \cap used)
  BY <1>2, FS_Difference
<1>4. Cardinality((1 .. c + n) \cap used) <= c /\ Cardinality((1 .. c + n) \cap used) \in Nat
  <2>1. IsFiniteSet((1 .. c + n) \cap used) BY <1>2, FS_Intersection
  <2>2. Cardinality((1 .. c + n) \cap used) <= Cardinality(used) BY FS_Intersection
  <2> QED BY <2>1, <2>2, FS_CardinalityType
<1>5. free \in SUBSET Nat /\ c + n \in Nat /\ \A y \in free : y <= c + n BY <1>1
<1>6. \A x \in free : x \in Nat \ {0} /\ x \notin used BY <1>1
<1>7. handle = [k \in 1 .. n |-> Nth(free, k)] BY DEF Assigned
<1> HIDE DEF c, free, handle
<1>8. Cardinality(free) >= n /\ Cardinality(free) \in Nat
  BY <1>1, <1>2, <1>3, <1>4, FS_CardinalityType
<1>9. ASSUME NEW i \in 1 .. n
      PROVE  handle[i] \in free /\ Cardinality({y \in free : y < handle[i]}) = i - 1
  <2>1. i \in 1 .. Cardinality(free) BY <1>8
  <2>2. Nth(free, i) \in free /\ Cardinality({y \in free : y < Nth(free, i)}) = i - 1
    BY <1>3, <1>5, <2>1, NthIs
  <2>3. handle[i] = Nth(free, i) BY <1>7
  <2> QED BY <2>2, <2>3
<1>10. ASSUME NEW i \in 1 .. n, NEW j \in 1 .. n, handle[i] = handle[j] PROVE i = j
  <2>1. Cardinality({y \in free : y < handle[i]}) = i - 1 BY <1>9
  <2>2. Cardinality({y \in free : y < handle[j]}) = j - 1 BY <1>9
  <2>3. i - 1 = j - 1 BY <1>10, <2>1, <2>2
  <2> QED BY <2>3
<1>11. Distinct(handle, n) BY <1>10 DEF Distinct
<1>12. \A i \in 1 .. n : handle[i] \in Nat \ {0} /\ handle[i] \notin used BY <1>6, <1>9
<1>13. \A i \in 1 .. n : handle[i] <= c + n BY <1>5, <1>9
<1> QED BY <1>11, <1>12, <1>13 DEF handle, c

(* The phandles of a list are finitely many.                               *)
LEMMA UsedFinite ==
  ASSUME NEW s, IsList(s)
  PROVE  IsFiniteSet(Used(s))
<1> DEFINE P == PhandleProps(s)
           T == {s[k].val : k \in P}
           f == [k \in P |-> s[k].val]
<1>1. IsFiniteSet(P)
  <2>1. P = {k \in 1 .. Len(s) : IsPhandle(s[k])} /\ Len(s) \in Int BY PhandlePropsIs
  <2>2. IsFiniteSet(1 .. Len(s)) BY <2>1, FS_Interval
  <2>3. P \in SUBSET (1 .. Len(s)) BY <2>1
  <2> HIDE DEF P
  <2> QED BY <2>2, <2>3, FS_Subset
<1> HIDE DEF P
<1>2. f \in Surjection(P, T)
  <2>1. f \in [P -> T] OBVIOUS
  <2>2. \A t \in T : \E k \in P : f[k] = t OBVIOUS
  <2> HIDE DEF f, T
  <2> QED BY <2>1, <2>2, Fun_IsSurj
<1> HIDE DEF T
<1>3. IsFiniteSet(T) BY <1>1, <1>2, FS_Surjection
<1> QED BY <1>3 DEF T, P, Used

(***************************************************************************)
(* One DTB                                                                 *)
(***************************************************************************)
IsDtb(d) ==
  d = [target |-> d.target, strings |-> d.strings, toks |-> d.toks] /\ IsList(d.toks)

(* d has the partitions of the list and no other, or no node for them.     *)
Meets(d, list) ==
  LET p == Partitions(d)
  IN IF list = <<>> THEN p.found = "none" ELSE p.found = "ok" /\ ToSimple(p.h.parts) = list

(* What comes of d is a DTB again, for the same target, with the same      *)
(* tokens but for those of /partitions.                                    *)
Alike(d, c) == IsDtb(c) /\ c.target = d.target /\ Others(c.toks) = Others(d.toks)

(* Nothing is read if there is no node.                                    *)
LEMMA FoundNone ==
  ASSUME NEW d, PartitionsAt(d.toks) = 0
  PROVE  Partitions(d).found = "none"
BY DEF Partitions, PartitionsFrom

(* A list that was put in can be read back, and nothing else has changed.  *)
LEMMA ImplementedKeeps ==
  ASSUME NEW d, IsDtb(d), NEW old, NEW parts, Len(parts) \in Nat, Implemented(d, old, parts).ok
  PROVE  /\ Alike(d, Implemented(d, old, parts).dtb)
         /\ Partitions(Implemented(d, old, parts).dtb).found = "ok"
         /\ ToSimple(Partitions(Implemented(d, old, parts).dtb).h.parts) = parts
<1> DEFINE s == d.toks  n == PartitionsAt(s)  node == NewNode(s, old, parts)
           new == WithNode(d, n, node)
           u == IF n # 0 THEN Spliced(s, n, EndOf(s, n) + 1, node)
                ELSE Spliced(s, BeforeEnd(s), BeforeEnd(s), node)
<1>1. Implemented(d, old, parts) = ImplementedAs(d, n, new, parts)
  BY DEF Implemented, ImplementedAt
<1>2. IsList(s) /\ d = [target |-> d.target, strings |-> d.strings, toks |-> d.toks] BY DEF IsDtb
<1>3. new = [target |-> d.target, strings |-> d.strings \union Essential, toks |-> u]
  <2>1. s = d.toks OBVIOUS
  <2> HIDE DEF n, node, s
  <2>2. new = [d EXCEPT !.strings = d.strings \union Essential, !.toks = u]
    BY <2>1 DEF WithNode
  <2> HIDE DEF new, u
  <2> QED BY <1>2, <2>2
<1>4. NodeList(node) /\ node[1].name = "partitions" BY ComposedNode DEF NewNode
<1> HIDE DEF n, node, new, u
<1>5. /\ CanTake(d, n) /\ Matches(Partitions(new), parts)
      /\ Implemented(d, old, parts) = [ok |-> TRUE, dtb |-> new]
  BY <1>1 DEF ImplementedAs, Outcome
<1>6. Implemented(d, old, parts).dtb = new BY <1>5
<1>7. Partitions(new).found = "ok" /\ ToSimple(Partitions(new).h.parts) = parts BY <1>5 DEF Matches
<1>8. new.toks = u /\ new.target = d.target BY <1>3
<1>9. PartitionsAt(u) # 0 BY <1>7, <1>8, FoundNone
<1>10. IsList(u) /\ Others(u) = Others(s)
  <2>1. CASE n # 0
    <3>1. u = Spliced(s, n, EndOf(s, n) + 1, node) BY <2>1 DEF u
    <3>2. IsList(node) /\ node # <<>>
      <4>1. IsList(node) /\ 1 < Len(node) BY <1>4 DEF NodeList, Node
      <4>2. Len(<<>>) = 0 OBVIOUS
      <4> QED BY <4>1, <4>2
    <3>3. n = PartitionsAt(s) BY DEF n
    <3> QED BY <1>2, <1>4, <2>1, <3>1, <3>2, <3>3, Exchanged
  <2>2. CASE n = 0
    <3>1. u = Spliced(s, BeforeEnd(s), BeforeEnd(s), node) BY <2>2 DEF u
    <3>2. PartitionsAt(s) = 0 BY <2>2 DEF n
    <3>3. Root(s) # 0 /\ EndOf(s, Root(s)) # 0 /\ s[Len(s)].t = "fin"
      BY <1>5, <2>2 DEF CanTake, PhandlesLegal
    <3>4. IsList(u) /\ Others(u) = s BY <1>2, <1>4, <1>9, <3>1, <3>2, <3>3, Inserted
    <3>5. Others(s) = s BY <3>2 DEF Others
    <3> QED BY <3>4, <3>5
  <2> QED BY <2>1, <2>2
<1>11. new = [target |-> new.target, strings |-> new.strings, toks |-> new.toks] BY <1>3
<1>12. Alike(d, new) BY <1>8, <1>10, <1>11 DEF Alike, IsDtb
<1> QED BY <1>6, <1>7, <1>12

(* What is left when the node was taken out                                *)
LEMMA RemovedIs ==
  ASSUME NEW d, IsDtb(d), Removed(d).ok
  PROVE  /\ IsDtb(Removed(d).dtb) /\ Removed(d).dtb.target = d.target
         /\ Removed(d).dtb.strings = d.strings
         /\ PartitionsAt(d.toks) = 0 => Removed(d).dtb = d
         /\ PartitionsAt(d.toks) # 0 => Removed(d).dtb.toks = Others(d.toks)
<1> DEFINE s == d.toks  n == PartitionsAt(s)  new == WithoutNode(d, n)
<1>1. Removed(d) = RemovedAt(d, n) BY DEF Removed
<1>2. IsList(s) /\ d = [target |-> d.target, strings |-> d.strings, toks |-> d.toks] BY DEF IsDtb
<1>3. new = [target |-> d.target, strings |-> d.strings, toks |-> Spliced(s, n, EndOf(s, n) + 1, <<>>)]
  BY <1>2 DEF WithoutNode
<1>4. CASE n = 0 BY <1>1, <1>4 DEF RemovedAt, Outcome
<1>5. CASE n # 0
  <2>1. new.toks = Others(s) /\ new.target = d.target /\ new.strings = d.strings
    BY <1>3, <1>5 DEF Others
  <2>2. new = [target |-> new.target, strings |-> new.strings, toks |-> new.toks] BY <1>3
  <2> HIDE DEF new
  <2>3. Removed(d) = RemovedAs(d, new, Partitions(new)) BY <1>1, <1>5 DEF RemovedAt, new
  <2>4. Removed(d).dtb = new BY <2>3 DEF RemovedAs, Outcome
  <2>5. IsList(new.toks)
    <3> DEFINE none == <<>>
    <3>1. IsList(none)
      <4>1. none \in Seq({}) OBVIOUS
      <4> HIDE DEF none
      <4> QED BY <4>1, ListIs
    <3>2. new.toks = Spliced(s, n, EndOf(s, n) + 1, none) BY <1>5, <2>1 DEF Others
    <3>3. none = <<>> OBVIOUS
    <3> HIDE DEF none, n
    <3>4. n = PartitionsAt(s) BY DEF n
    <3> QED BY <1>2, <1>5, <3>1, <3>2, <3>3, <3>4, Exchanged
  <2> QED BY <1>5, <2>1, <2>2, <2>4, <2>5 DEF IsDtb
<1> QED BY <1>4, <1>5

(* If there was one node only, none is left and nothing else has changed.  *)
LEMMA RemovedKeeps ==
  ASSUME NEW d, IsDtb(d), PartitionsAt(Others(d.toks)) = 0, Removed(d).ok
  PROVE  Alike(d, Removed(d).dtb) /\ Partitions(Removed(d).dtb).found = "none"
<1> DEFINE c == Removed(d).dtb
<1>1. /\ IsDtb(c) /\ c.target = d.target
      /\ PartitionsAt(d.toks) = 0 => c = d
      /\ PartitionsAt(d.toks) # 0 => c.toks = Others(d.toks)
  BY RemovedIs
<1>2. CASE PartitionsAt(d.toks) = 0
  <2>1. c = d BY <1>1, <1>2
  <2> HIDE DEF c
  <2>2. Alike(d, c) /\ Partitions(c).found = "none" BY <1>1, <1>2, <2>1, FoundNone DEF Alike
  <2> QED BY <2>2 DEF c
<1>3. CASE PartitionsAt(d.toks) # 0
  <2>1. Others(Others(d.toks)) = Others(d.toks) BY DEF Others
  <2>2. c.toks = Others(d.toks) BY <1>1, <1>3
  <2> HIDE DEF c
  <2>3. Alike(d, c) /\ Partitions(c).found = "none" BY <1>1, <2>1, <2>2, FoundNone DEF Alike
  <2> QED BY <2>3 DEF c
<1> QED BY <1>2, <1>3

(* What was read of a node without a mistake in it is in that order.       *)
LEMMA ReadByRecord ==
  ASSUME NEW d, IsDtb(d), Partitions(d).found = "ok"
  PROVE  ByRecord(Partitions(d).h)
<1> DEFINE s == d.toks  n == PartitionsAt(s)  end == EndOf(s, n)
<1>1. n # 0 BY FoundNone
<1>2. Partitions(d) = ReadUpTo(s, n, end, StopsAt(s, n, end))
  BY <1>1 DEF Partitions, PartitionsFrom, ReadNode
<1>3. Partitions(d).h = Sorted(Filled(s, n, end)) BY <1>2 DEF ReadUpTo
<1>4. n \in Int /\ end \in Int
  <2> DEFINE r == Root(s)  E == EndOf(s, r)
  <2>1. Len(s) \in Nat BY ListIs DEF IsDtb, IsList
  <2>2. Tree(s, r, E) BY <1>1, <2>1, PartitionsOfTree
  <2>3. n \in Candidates(s, r, E) BY <1>1, <2>2, PartitionsAtIs
  <2>4. n \in r + 1 .. E /\ s[n].t = "begin" BY <2>3 DEF Candidates
  <2>5. Node(s, n, end) BY <2>1, <2>2, <2>4, NodeInside DEF Tree
  <2> QED BY <2>5 DEF Node
<1> HIDE DEF n, end, s
<1> QED BY <1>3, <1>4, FilledIs, SortedIs

(***************************************************************************)
(* What of the old node is free for the new one                            *)
(***************************************************************************)
(* v is the phandle of a token from n to e, or none.                       *)
Inside(s, n, e, v) == v = 0 \/ \E j \in n .. e : IsPhandle(s[j]) /\ s[j].val = v

(* A phandle read of a node below is one of a token there.                 *)
LEMMA ValueInside ==
  ASSUME NEW s, NEW n \in Nat, NEW e \in Nat, NEW c \in n .. e
  PROVE  Inside(s, n, e, Value(s, c, e, "phandle", 0))
<1> DEFINE at == {k \in c + 1 .. e - 1 :
                    s[k].t = "prop" /\ s[k].name = "phandle" /\ s[k].id = 0 /\ Parent(s, k) = c}
<1>1. Value(s, c, e, "phandle", 0) = IF at = {} THEN 0 ELSE s[Max(at)].val BY DEF Value
<1>2. CASE at = {} BY <1>1, <1>2 DEF Inside
<1>3. CASE at # {}
  <2>1. at \in SUBSET Nat /\ \A k \in at : k <= e
    <3>1. c \in Nat OBVIOUS
    <3>2. \A k \in c + 1 .. e - 1 : k \in Nat /\ k <= e BY <3>1
    <3> QED BY <3>2
  <2>2. \A k \in at : k \in n .. e /\ IsPhandle(s[k])
    <3>1. \A k \in c + 1 .. e - 1 : k \in n .. e OBVIOUS
    <3> QED BY <3>1 DEF IsPhandle, PhandleNames
  <2> HIDE DEF at
  <2>3. PICK m \in at : \A k \in at : k <= m BY <1>3, <2>1, GreatestElement
  <2>4. Max(at) \in at BY <2>3 DEF Max
  <2> QED BY <1>1, <1>3, <2>2, <2>4 DEF Inside
<1> QED BY <1>2, <1>3

(* The helper of a node has phandles of tokens in it only.                 *)
LEMMA FilledInside ==
  ASSUME NEW s, NEW n, NEW e, Node(s, n, e)
  PROVE  LET h == Filled(s, n, e)
         IN /\ Inside(s, n, e, h.root)
            /\ \A k \in DOMAIN h.parts : Inside(s, n, e, h.parts[k].phandle)
<1> DEFINE begun == {k \in n + 1 .. e - 1 : s[k].t = "begin" /\ Parent(s, k) = n}
           child == Children(s, n, e)
           c == Cardinality(begun)
           h == Filled(s, n, e)
<1>1. n \in Nat \ {0} /\ e \in Nat /\ n < e BY DEF Node
<1>2. IsFiniteSet(begun) /\ begun \in SUBSET Nat /\ \A k \in begun : k <= e /\ k \in n .. e
  <2>1. begun \in SUBSET (n + 1 .. e - 1) OBVIOUS
  <2>2. IsFiniteSet(n + 1 .. e - 1)
    <3>1. n + 1 \in Int /\ e - 1 \in Int BY <1>1
    <3> QED BY <3>1, FS_Interval
  <2>3. begun \in SUBSET Nat /\ \A k \in begun : k <= e /\ k \in n .. e BY <1>1
  <2> HIDE DEF begun
  <2> QED BY <2>1, <2>2, <2>3, FS_Subset
<1>3. child = [k \in 1 .. c |-> Nth(begun, k)] BY DEF Children
<1>4. h = FilledWith(s, n, e, child) BY DEF Filled
<1>5. /\ DOMAIN h.parts = DOMAIN child /\ h.root = Value(s, n, e, "phandle", 0)
      /\ \A k \in DOMAIN child : h.parts[k].phandle = Value(s, child[k], e, "phandle", 0)
  BY <1>4 DEF FilledWith
<1> HIDE DEF h, child, begun
<1>6. ASSUME NEW k \in DOMAIN h.parts PROVE Inside(s, n, e, h.parts[k].phandle)
  <2>1. k \in 1 .. c /\ k \in DOMAIN child BY <1>3, <1>5
  <2>2. child[k] = Nth(begun, k) BY <1>3, <2>1
  <2>3. Nth(begun, k) \in begun BY <1>1, <1>2, <2>1, NthIs
  <2>4. child[k] \in n .. e BY <1>2, <2>2, <2>3
  <2>5. Inside(s, n, e, Value(s, child[k], e, "phandle", 0)) BY <1>1, <2>4, ValueInside
  <2> QED BY <1>5, <2>1, <2>5
<1>7. Inside(s, n, e, h.root)
  <2>1. n \in n .. e BY <1>1
  <2> QED BY <1>1, <1>5, <2>1, ValueInside
<1> QED BY <1>6, <1>7 DEF h

(* Sorting makes nothing up.                                               *)
LEMMA SortedFrom ==
  ASSUME NEW h, Len(h.parts) \in Nat, h.parts = [k \in 1 .. Len(h.parts) |-> h.parts[k]],
         h = [parts |-> h.parts, phandles |-> h.phandles, record |-> h.record, root |-> h.root]
  PROVE  /\ Sorted(h).root = h.root
         /\ \A k \in DOMAIN Sorted(h).parts : Sorted(h).parts[k] \in Range(h.parts)
<1> DEFINE n == Len(h.parts)
           R == Range(h.parts)
           g == Sorted(h)
<1>1. CASE h.record # n
  <2>1. g = h BY <1>1 DEF Sorted
  <2> QED BY <2>1 DEF Range
<1>2. CASE h.record = n
  <2>1. PICK f \in [0 .. n -> [1 .. n -> R]] : g = [h EXCEPT !.parts = f[n]] BY <1>2, SortRounds
  <2>2. n \in 0 .. n OBVIOUS
  <2> HIDE DEF n, R, g
  <2>3. g.parts = f[n] /\ g.root = h.root BY <2>1
  <2>4. f[n] \in [1 .. n -> R] BY <2>1, <2>2
  <2>5. \A k \in DOMAIN f[n] : f[n][k] \in R BY <2>4
  <2> QED BY <2>3, <2>5 DEF R, g
<1> QED BY <1>1, <1>2

(* What was read of a node without a mistake has its phandles.             *)
LEMMA ReadInside ==
  ASSUME NEW d, IsDtb(d), Partitions(d).found = "ok"
  PROVE  LET s == d.toks  n == PartitionsAt(s)  e == EndOf(s, n)  h == Partitions(d).h
         IN /\ Node(s, n, e) /\ Inside(s, n, e, h.root)
            /\ \A k \in DOMAIN h.parts : Inside(s, n, e, h.parts[k].phandle)
<1> DEFINE s == d.toks  n == PartitionsAt(s)  e == EndOf(s, n)  h == Filled(s, n, e)
<1>1. n # 0 BY FoundNone
<1>2. Partitions(d) = ReadUpTo(s, n, e, StopsAt(s, n, e))
  BY <1>1 DEF Partitions, PartitionsFrom, ReadNode
<1>3. Partitions(d).h = Sorted(h) BY <1>2 DEF ReadUpTo
<1>4. Node(s, n, e)
  <2> DEFINE r == Root(s)  E == EndOf(s, r)
  <2>1. Len(s) \in Nat BY ListIs DEF IsDtb, IsList
  <2>2. Tree(s, r, E) BY <1>1, <2>1, PartitionsOfTree
  <2>3. n \in Candidates(s, r, E) BY <1>1, <2>2, PartitionsAtIs
  <2>4. n \in r + 1 .. E /\ s[n].t = "begin" BY <2>3 DEF Candidates
  <2> QED BY <2>1, <2>2, <2>4, NodeInside DEF Tree
<1>5. n \in Int /\ e \in Int BY <1>4 DEF Node
<1> HIDE DEF n, e, s
<1>6. /\ h = [parts |-> h.parts, phandles |-> h.phandles, record |-> h.record, root |-> h.root]
      /\ Len(h.parts) \in Nat /\ h.parts = [k \in 1 .. Len(h.parts) |-> h.parts[k]]
  BY <1>5, FilledIs
<1>7. Inside(s, n, e, h.root) /\ \A k \in DOMAIN h.parts : Inside(s, n, e, h.parts[k].phandle)
  BY <1>4, FilledInside
<1> HIDE DEF h
<1>8. Sorted(h).root = h.root /\ \A k \in DOMAIN Sorted(h).parts : Sorted(h).parts[k] \in Range(h.parts)
  BY <1>6, SortedFrom
<1>9. ASSUME NEW k \in DOMAIN Sorted(h).parts PROVE Inside(s, n, e, Sorted(h).parts[k].phandle)
  <2>1. PICK l \in DOMAIN h.parts : Sorted(h).parts[k] = h.parts[l] BY <1>8 DEF Range
  <2> QED BY <1>7, <2>1
<1> QED BY <1>3, <1>4, <1>7, <1>8, <1>9 DEF n, e, s

(* The phandles of all other nodes stay in use.                            *)
LEMMA OthersUsed ==
  ASSUME NEW d, IsDtb(d), PhandlesLegal(d.toks), NEW k \in PhandleProps(d.toks),
         LET n == PartitionsAt(d.toks) IN n = 0 \/ k < n \/ k > EndOf(d.toks, n)
  PROVE  d.toks[k].val \in Free(d.toks, Partitions(d))
<1> DEFINE s == d.toks  n == PartitionsAt(s)  e == EndOf(s, n)  old == Partitions(d)  v == s[k].val
<1>1. v \in Used(s) BY DEF Used
<1>2. CASE old.found # "ok" BY <1>1, <1>2 DEF Free
<1>3. CASE old.found = "ok"
  <2>1. /\ Node(s, n, e) /\ Inside(s, n, e, old.h.root)
        /\ \A c \in DOMAIN old.h.parts : Inside(s, n, e, old.h.parts[c].phandle)
    BY <1>3, ReadInside
  <2>2. n # 0 BY <1>3, FoundNone
  <2>3. k < n \/ k > e BY <2>2
  <2>4. IsList(s) BY DEF IsDtb
  <2>5. PhandleProps(s) = {j \in 1 .. Len(s) : IsPhandle(s[j])} /\ Len(s) \in Nat BY <2>4, PhandlePropsIs
  <2>6. n \in Nat \ {0} /\ e \in Nat /\ n < e /\ e <= Len(s) BY <2>1 DEF Node
  <2>7. \A i, j \in PhandleProps(s) : s[i].val = s[j].val => Parent(s, i) = Parent(s, j)
    BY DEF PhandlesLegal
  <2>8. v # 0 BY DEF PhandlesLegal
  <2>9. s[n].t = "begin" BY <2>1 DEF Node
  <2> HIDE DEF n, e, v
  <2>10. ~Inside(s, n, e, v)
    <3> SUFFICES ASSUME NEW j \in n .. e, IsPhandle(s[j]), s[j].val = v PROVE FALSE BY <2>8 DEF Inside
    <3>1. j \in PhandleProps(s) /\ j # n BY <2>5, <2>6, <2>9 DEF IsPhandle
    <3>2. Parent(s, j) = Parent(s, k) BY <2>7, <3>1 DEF v
    <3>3. Parent(s, j) \in n .. e
      <4>1. j \in n + 1 .. e BY <2>6, <3>1
      <4> QED BY <2>1, <4>1, ParentInside
    <3>4. Parent(s, k) < n \/ Parent(s, k) > e
      <4>1. k \in Nat \ {0} BY <2>5
      <4> QED BY <2>1, <2>3, <4>1, ParentOutside
    <3> QED BY <2>6, <3>2, <3>3, <3>4
  <2>11. v \notin {old.h.parts[c].phandle : c \in DOMAIN old.h.parts} \union {old.h.root} BY <2>1, <2>10
  <2> QED BY <1>1, <1>3, <2>11 DEF Free, Dropped, v
<1> QED BY <1>2, <1>3

(* node has been put in the place of the old one, or where none was.       *)
Put(s, u, n, e, node) ==
  /\ IsList(u) /\ IsList(node) /\ Replaced(s, u, n, e, n - 1 + Len(node))
  /\ Shifted(node, u, 1, Len(node), n - 1)
  /\ PartitionsAt(s) = 0 \/ (PartitionsAt(s) = n /\ EndOf(s, n) = e /\ Node(s, n, e))

(* dtb_buffer_entry_implement_partitions puts the new node there.          *)
LEMMA ImplementedPuts ==
  ASSUME NEW d, IsDtb(d), NEW old, NEW parts, Len(parts) \in Nat, Implemented(d, old, parts).ok,
         NEW c, c = Implemented(d, old, parts).dtb
  PROVE  /\ PhandlesLegal(d.toks) /\ PartitionsAt(c.toks) # 0
         /\ \E n, e : Put(d.toks, c.toks, n, e, NewNode(d.toks, old, parts))
<1> DEFINE s == d.toks  n == PartitionsAt(s)
           node == NewNode(s, old, parts)
           new == WithNode(d, n, node)
           u == IF n # 0 THEN Spliced(s, n, EndOf(s, n) + 1, node)
                ELSE Spliced(s, BeforeEnd(s), BeforeEnd(s), node)
           at == IF n # 0 THEN n ELSE BeforeEnd(s)
           e == IF n # 0 THEN EndOf(s, n) ELSE BeforeEnd(s) - 1
           f == at - 1 + Len(node)
<1>1. Implemented(d, old, parts) = ImplementedAs(d, n, new, parts)
  BY DEF Implemented, ImplementedAt
<1>2. IsList(s) /\ d = [target |-> d.target, strings |-> d.strings, toks |-> d.toks] BY DEF IsDtb
<1>3. new.toks = u
  <2>1. s = d.toks OBVIOUS
  <2> HIDE DEF n, node, s
  <2>2. new = [d EXCEPT !.strings = d.strings \union Essential, !.toks = u]
    BY <2>1 DEF WithNode
  <2> HIDE DEF new, u
  <2> QED BY <1>2, <2>2
<1>4. NodeList(node) BY ComposedNode DEF NewNode
<1>5. CanTake(d, n) /\ Matches(Partitions(new), parts) /\ c = new
  <2> HIDE DEF new, n
  <2> QED BY <1>1 DEF ImplementedAs, Outcome
<1>6. PhandlesLegal(s) /\ (n # 0 \/ s[Len(s)].t = "fin") BY <1>5 DEF CanTake
<1> HIDE DEF node, new
<1>7. IsList(node) /\ Len(node) \in Nat /\ Len(s) \in Nat
  BY <1>2, <1>4, ListIs DEF NodeList, IsList
<1>8. PartitionsAt(u) # 0
  <2>1. Partitions(new).found = "ok" BY <1>5 DEF Matches
  <2> HIDE DEF u
  <2> QED BY <1>3, <2>1, FoundNone
<1>9. /\ at \in Nat \ {0} /\ e \in Nat /\ at - 1 <= e /\ e <= Len(s)
      /\ \/ n = 0 /\ e = at - 1
         \/ n = at /\ EndOf(s, n) = e /\ Node(s, at, e)
  <2>1. CASE n # 0
    <3> DEFINE r == Root(s)  E == EndOf(s, r)
    <3>1. Tree(s, r, E) BY <1>7, <2>1, PartitionsOfTree
    <3>2. n \in Candidates(s, r, E) BY <2>1, <3>1, PartitionsAtIs
    <3>3. n \in r + 1 .. E /\ s[n].t = "begin" BY <3>2 DEF Candidates
    <3>4. Node(s, n, EndOf(s, n)) BY <1>7, <3>1, <3>3, NodeInside DEF Tree
    <3>5. at = n /\ e = EndOf(s, n) BY <2>1
    <3> QED BY <3>4, <3>5 DEF Node
  <2>2. CASE n = 0
    <3> DEFINE r == Root(s)  E == EndOf(s, r)
    <3>1. r # 0 /\ E # 0 BY <1>6 DEF PhandlesLegal
    <3>2. Node(s, r, E) BY <1>7, <3>1, TreeFound DEF Tree
    <3>3. r \in Nat \ {0} /\ E \in Nat /\ r < E /\ E <= Len(s) /\ Walked(s, r, E) BY <3>2 DEF Node
    <3>4. E # Len(s)
      <4>1. s[E].t \in {"begin", "end", "prop", "nop"} BY <3>3 DEF Walked
      <4> QED BY <1>6, <2>2, <4>1
    <3>5. at = Len(s) - 1 /\ e = at - 1 BY <2>2 DEF BeforeEnd
    <3> HIDE DEF at, e, r, E, s, n
    <3> QED BY <1>7, <2>2, <3>3, <3>4, <3>5
  <2> QED BY <2>1, <2>2
<1>10. u = Spliced(s, at, e + 1, node)
  <2>1. CASE n # 0 BY <2>1
  <2>2. CASE n = 0
    <3>1. u = Spliced(s, at, at, node) /\ e = at - 1 BY <2>2
    <3> HIDE DEF u, at, e
    <3>2. e + 1 = at BY <1>9, <3>1
    <3> QED BY <3>1, <3>2
  <2> QED BY <2>1, <2>2
<1> HIDE DEF u, at, e, f, s, n
<1>11. IsList(u) /\ Replaced(s, u, at, e, at - 1 + Len(node))
  <2>1. e = at - 1 \/ Node(s, at, e) BY <1>9
  <2> QED BY <1>2, <1>4, <1>7, <1>9, <1>10, <2>1, SplicedReplaces
<1>12. Shifted(node, u, 1, Len(node), at - 1)
  <2>1. IsSplice(u, s, at, e + 1, node)
    <3>1. e + 1 \in Nat /\ at <= e + 1 /\ e + 1 <= Len(s) + 1 BY <1>7, <1>9
    <3> QED BY <1>2, <1>7, <1>9, <1>10, <3>1, SplicedIs
  <2> QED BY <2>1 DEF IsSplice, Shifted
<1>13. Put(s, u, at, e, node) BY <1>7, <1>9, <1>11, <1>12 DEF Put, n
<1>14. \E m, g : Put(s, u, m, g, node) BY <1>13
<1> QED BY <1>3, <1>5, <1>6, <1>8, <1>14 DEF s, node

(* The phandles of the new node                                            *)
Mine(s, old, parts) == Given(Assigned(Free(s, old), Len(parts) + 1), Len(parts) + 1)

(* They are the lowest that are free, and each belongs to one node.        *)
LEMMA MineIs ==
  ASSUME NEW s, IsList(s), NEW old, NEW parts, Len(parts) \in Nat
  PROVE  /\ Apart(NewNode(s, old, parts), Mine(s, old, parts)) /\ Has(NewNode(s, old, parts))
         /\ IsFiniteSet(Free(s, old))
         /\ \A v \in Mine(s, old, parts) :
              v \in Nat \ {0} /\ v \notin Free(s, old) /\ v <= Cardinality(Free(s, old)) + (Len(parts) + 1)
<1> DEFINE free == Free(s, old)  count == Len(parts) + 1  handle == Assigned(free, count)
           node == NewNode(s, old, parts)
<1>1. count \in Nat OBVIOUS
<1>2. IsFiniteSet(free)
  <2>1. IsFiniteSet(Used(s)) BY UsedFinite
  <2>2. free \in SUBSET Used(s) BY DEF Free, Dropped
  <2> HIDE DEF free
  <2> QED BY <2>1, <2>2, FS_Subset
<1>3. /\ Distinct(handle, count)
      /\ \A i \in 1 .. count :
           handle[i] \in Nat \ {0} /\ handle[i] \notin free /\ handle[i] <= Cardinality(free) + count
  <2> HIDE DEF free, count
  <2> QED BY <1>1, <1>2, AssignedIs
<1>4. Apart(node, Given(handle, count)) /\ Has(node)
  <2>1. node = Composed(parts, handle, HasLinux(s)) BY DEF NewNode
  <2> HIDE DEF node, handle
  <2> QED BY <1>3, <2>1, ComposedApart
<1>5. Mine(s, old, parts) = Given(handle, count) BY DEF Mine
<1> HIDE DEF handle
<1>6. \A v \in Given(handle, count) :
        v \in Nat \ {0} /\ v \notin free /\ v <= Cardinality(free) + count
  <2> HIDE DEF free, count
  <2> QED BY <1>3 DEF Given
<1> QED BY <1>2, <1>4, <1>5, <1>6

(* The new node takes phandles that no other node has, the old one's among *)
(* them.                                                                   *)
LEMMA ImplementedLegal ==
  ASSUME NEW d, IsDtb(d), NEW parts, Len(parts) \in Nat,
         Implemented(d, Partitions(d), parts).ok
  PROVE  PhandlesLegal(Implemented(d, Partitions(d), parts).dtb.toks)
<1> DEFINE s == d.toks  old == Partitions(d)  u == Implemented(d, old, parts).dtb.toks
           node == NewNode(s, old, parts)  H == Mine(s, old, parts)
<1>1. PhandlesLegal(s) /\ PartitionsAt(u) # 0 /\ \E m, g : Put(s, u, m, g, node) BY ImplementedPuts
<1>2. PICK n, e : Put(s, u, n, e, node) BY <1>1
<1>3. IsList(s) BY DEF IsDtb
<1>4. /\ Apart(node, H) /\ Has(node)
      /\ \A v \in H : v \in Nat \ {0} /\ v \notin Free(s, old)
  BY <1>3, MineIs
<1>5. ASSUME NEW k \in PhandleProps(s), k < n \/ k > e PROVE s[k].val \notin H
  <2>1. LET m == PartitionsAt(d.toks) IN m = 0 \/ k < m \/ k > EndOf(d.toks, m)
    BY <1>2, <1>5 DEF Put
  <2>2. s[k].val \in Free(s, old) BY <1>1, <2>1, OthersUsed
  <2> QED BY <1>4, <2>2
<1> HIDE DEF H, node, u, s, old
<1>6. Misfit \notin H /\ 0 \notin H
  <2>1. Misfit \notin Nat BY DEF Misfit
  <2> QED BY <1>4, <2>1
<1>7. /\ IsList(u) /\ Replaced(s, u, n, e, n - 1 + Len(node))
      /\ Shifted(node, u, 1, Len(node), n - 1)
  BY <1>2 DEF Put
<1>8. Root(u) # 0 /\ EndOf(u, Root(u)) # 0
  <2>1. Len(u) \in Nat BY <1>7, ListIs DEF IsList
  <2>2. Tree(u, Root(u), EndOf(u, Root(u))) BY <1>1, <2>1, PartitionsOfTree
  <2> QED BY <2>2 DEF Tree, Node
<1>9. PhandlesLegal(u)
  <2> DEFINE f == n - 1 + Len(node)
  <2>1. \A k \in PhandleProps(s) : k < n \/ k > e => s[k].val \notin H BY <1>5
  <2>2. f = n - 1 + Len(node) /\ Replaced(s, u, n, e, f) BY <1>7
  <2> HIDE DEF f
  <2> QED BY <1>1, <1>3, <1>4, <1>6, <1>7, <1>8, <2>1, <2>2, ReplacedLegal
<1> QED BY <1>9 DEF u, old

(* Every token of the result is one of the new node or one outside the old *)
(* one.                                                                    *)
LEMMA PutTokens ==
  ASSUME NEW s, NEW u, NEW n, NEW e, NEW node, Put(s, u, n, e, node), NEW k \in 1 .. Len(u)
  PROVE  \/ \E j \in 1 .. Len(node) : u[k] = node[j]
         \/ \E j \in 1 .. Len(s) : (j < n \/ j > e) /\ u[k] = s[j]
<1> DEFINE m == n - 1  L == Len(node)  f == m + L  d == f - e
<1>1. /\ n \in Nat \ {0} /\ e \in Nat /\ n - 1 <= e /\ L \in Nat
      /\ Len(s) \in Nat /\ Len(u) \in Nat /\ e <= Len(s) /\ Len(u) = Len(s) + d
      /\ \A j \in 1 .. n - 1 : u[j] = s[j]
      /\ \A j \in e + 1 .. Len(s) : u[j + d] = s[j]
      /\ \A j \in 1 .. L : u[j + m] = node[j]
  BY ListIs DEF Put, Replaced, Shifted, IsList
<1>2. m \in Nat /\ m = n - 1 /\ f \in Nat /\ f = m + L /\ d \in Int /\ d + e = f BY <1>1
<1> HIDE DEF m, L, f, d
<1>3. CASE k < n
  <2>1. k \in 1 .. n - 1 /\ k \in 1 .. Len(s) BY <1>1, <1>3
  <2> QED BY <1>1, <1>3, <2>1
<1>4. CASE k >= n /\ k <= f
  <2> DEFINE j == k - m
  <2>1. j \in 1 .. L /\ j + m = k BY <1>1, <1>2, <1>4
  <2> HIDE DEF j
  <2> QED BY <1>1, <2>1 DEF L
<1>5. CASE k > f
  <2> DEFINE j == k - d
  <2>1. j + d = k /\ j \in Int BY <1>2
  <2> HIDE DEF j
  <2>2. j \in e + 1 .. Len(s) /\ j > e /\ j \in 1 .. Len(s) BY <1>1, <1>2, <1>5, <2>1
  <2> QED BY <1>1, <2>1, <2>2
<1>6. k < n \/ (k >= n /\ k <= f) \/ k > f BY <1>1, <1>2
<1> QED BY <1>3, <1>4, <1>5, <1>6

(* What is left without the node is a list.                                *)
LEMMA OthersIs ==
  ASSUME NEW s, IsList(s)
  PROVE  IsList(Others(s))
<1> DEFINE n == PartitionsAt(s)  none == <<>>
<1>1. CASE n = 0 BY <1>1 DEF Others
<1>2. CASE n # 0
  <2>1. IsList(none)
    <3>1. none \in Seq({}) OBVIOUS
    <3> HIDE DEF none
    <3> QED BY <3>1, ListIs
  <2>2. Others(s) = Spliced(s, n, EndOf(s, n) + 1, none) BY <1>2 DEF Others
  <2>3. none = <<>> /\ n = PartitionsAt(s) OBVIOUS
  <2> HIDE DEF none, n
  <2> QED BY <1>2, <2>1, <2>2, <2>3, Exchanged
<1> QED BY <1>1, <1>2

(* A phandle outside the node is used by the others.                       *)
LEMMA OutsideUsed ==
  ASSUME NEW s, IsList(s), NEW n, NEW e, NEW k \in PhandleProps(s), k < n \/ k > e,
         PartitionsAt(s) = 0 \/ (PartitionsAt(s) = n /\ EndOf(s, n) = e /\ Node(s, n, e))
  PROVE  s[k].val \in Used(Others(s))
<1>1. CASE PartitionsAt(s) = 0 BY <1>1 DEF Others, Used
<1>2. CASE PartitionsAt(s) # 0
  <2> DEFINE none == <<>>  o == Others(s)
  <2>1. PartitionsAt(s) = n /\ EndOf(s, n) = e /\ Node(s, n, e) BY <1>2
  <2>2. n \in Nat \ {0} /\ e \in Nat /\ n < e /\ e <= Len(s) BY <2>1 DEF Node
  <2>3. none \in Seq({}) /\ Len(none) = 0 OBVIOUS
  <2>4. o = Spliced(s, n, e + 1, none) BY <1>2, <2>1 DEF Others
  <2>5. PhandleProps(s) = {j \in 1 .. Len(s) : IsPhandle(s[j])} /\ Len(s) \in Nat BY PhandlePropsIs
  <2> HIDE DEF none, o
  <2>6. IsList(none) BY <2>3, ListIs
  <2>7. e + 1 \in Nat /\ n <= e + 1 /\ e + 1 <= Len(s) + 1 BY <2>2, <2>5
  <2>8. IsSplice(o, s, n, e + 1, none) BY <2>2, <2>4, <2>6, <2>7, SplicedIs
  <2> DEFINE d == (n - 1 + Len(none)) - ((e + 1) - 1)
  <2>9. /\ IsList(o) /\ Len(o) = Len(s) + d
        /\ \A j \in 1 .. n - 1 : o[j] = s[j]
        /\ \A j \in e + 1 .. Len(s) : o[j + d] = s[j]
    BY <2>8 DEF IsSplice
  <2>10. d \in Int /\ d + e = n - 1 BY <2>2, <2>3
  <2> HIDE DEF d
  <2>11. PhandleProps(o) = {j \in 1 .. Len(o) : IsPhandle(o[j])} BY <2>9, PhandlePropsIs
  <2>12. \E j \in 1 .. Len(o) : o[j] = s[k]
    <3>1. CASE k < n
      <4>1. k \in 1 .. n - 1 /\ k \in 1 .. Len(o) BY <2>2, <2>5, <2>9, <2>10, <3>1
      <4> QED BY <2>9, <4>1
    <3>2. CASE k > e
      <4>1. k \in e + 1 .. Len(s) /\ k + d \in 1 .. Len(o) BY <2>2, <2>5, <2>9, <2>10, <3>2
      <4> QED BY <2>9, <4>1
    <3> QED BY <3>1, <3>2
  <2>13. PICK j \in 1 .. Len(o) : o[j] = s[k] BY <2>12
  <2>14. j \in PhandleProps(o) BY <2>5, <2>11, <2>13
  <2> QED BY <2>13, <2>14 DEF Used, o
<1> QED BY <1>1, <1>2

(* The new node takes the lowest phandles that the others leave.           *)
LEMMA ImplementedLowest ==
  ASSUME NEW d, IsDtb(d), NEW parts, Len(parts) \in Nat,
         Implemented(d, Partitions(d), parts).ok
  PROVE  Lowest(d, Partitions(d), Implemented(d, Partitions(d), parts).dtb, Len(parts))
<1> DEFINE s == d.toks  old == Partitions(d)  c == Implemented(d, old, parts).dtb  u == c.toks
           node == NewNode(s, old, parts)  H == Mine(s, old, parts)  free == Free(s, old)
           others == Used(Others(u))
           known == {old.h.parts[i].phandle : i \in DOMAIN old.h.parts} \union {old.h.root}
<1> SUFFICES ASSUME old.found \in {"ok", "none"}, Used(s) \ others \subseteq known,
                    NEW x \in Used(u) \ others
             PROVE  x <= Cardinality(others) + Len(parts) + 1
  BY DEF Lowest
<1>1. \E m, g : Put(s, u, m, g, node) BY ImplementedPuts
<1>2. PICK n, e : Put(s, u, n, e, node) BY <1>1
<1>3. IsList(s) BY DEF IsDtb
<1>4. /\ Apart(node, H) /\ IsFiniteSet(free)
      /\ \A v \in H : v \in Nat \ {0} /\ v <= Cardinality(free) + (Len(parts) + 1)
  BY <1>3, MineIs
<1>5. Others(u) = Others(s) BY ImplementedKeeps DEF Alike
<1>6. free \subseteq others
  <2>1. CASE old.found = "ok"
    <3>1. free = Used(s) \ known BY <2>1 DEF Free, Dropped
    <3> QED BY <3>1
  <2>2. CASE old.found = "none"
    <3>1. PartitionsAt(s) = 0 BY <2>2 DEF Partitions, PartitionsFrom, ReadNode, ReadUpTo
    <3>2. Others(s) = s BY <3>1 DEF Others
    <3>3. free = Used(s) BY <2>2 DEF Free
    <3> QED BY <1>5, <3>2, <3>3
  <2> QED BY <2>1, <2>2
<1> HIDE DEF H, node, known, free, c
<1>7. x \in H
  <2>1. PICK k \in PhandleProps(u) : x = u[k].val BY DEF Used
  <2>2. IsList(u) BY <1>2 DEF Put
  <2>3. k \in 1 .. Len(u) /\ IsPhandle(u[k]) BY <2>1, <2>2, PhandlePropsIs
  <2> HIDE DEF u, s
  <2>4. CASE \E j \in 1 .. Len(node) : u[k] = node[j]
    <3>1. PICK j \in 1 .. Len(node) : u[k] = node[j] BY <2>4
    <3>2. j \in PhandleProps(node) BY <1>4, <2>3, <3>1, PhandlePropsIs DEF Apart
    <3>3. node[j].val \in H BY <1>4, <3>2 DEF Apart
    <3> QED BY <2>1, <3>1, <3>3
  <2>5. CASE \E j \in 1 .. Len(s) : (j < n \/ j > e) /\ u[k] = s[j]
    <3>1. PICK j \in 1 .. Len(s) : (j < n \/ j > e) /\ u[k] = s[j] BY <2>5
    <3>2. j \in PhandleProps(s) BY <1>3, <2>3, <3>1, PhandlePropsIs
    <3>3. s[j].val \in Used(Others(s))
      <4>1. PartitionsAt(s) = 0 \/ (PartitionsAt(s) = n /\ EndOf(s, n) = e /\ Node(s, n, e))
        BY <1>2 DEF Put
      <4> QED BY <1>3, <3>1, <3>2, <4>1, OutsideUsed
    <3> QED BY <1>5, <2>1, <3>1, <3>3
  <2>6. \/ \E j \in 1 .. Len(node) : u[k] = node[j]
        \/ \E j \in 1 .. Len(s) : (j < n \/ j > e) /\ u[k] = s[j]
    BY <1>2, <2>3, PutTokens
  <2> QED BY <2>4, <2>5, <2>6
<1>8. IsFiniteSet(others) /\ Cardinality(free) <= Cardinality(others)
  <2>1. IsFiniteSet(others) BY <1>3, <1>5, OthersIs, UsedFinite
  <2> HIDE DEF others
  <2> QED BY <1>6, <2>1, FS_Subset
<1>9. Cardinality(free) \in Nat /\ Cardinality(others) \in Nat BY <1>4, <1>8, FS_CardinalityType
<1>10. x \in Nat /\ x <= Cardinality(free) + (Len(parts) + 1) BY <1>4, <1>7
<1> HIDE DEF others
<1> QED BY <1>8, <1>9, <1>10

(***************************************************************************)
(* What every step keeps                                                   *)
(***************************************************************************)
(* An image with as many DTBs as were found                                *)
Shaped(i) ==
  /\ i = [form |-> i.form, zipped |-> i.zipped, header |-> i.header, dtbs |-> i.dtbs]
  /\ i.form \in {"plain", "multi"} /\ (i.form = "plain" => Len(i.dtbs) = 1)
  /\ Len(i.dtbs) \in Nat /\ Len(i.dtbs) = Len(found.dtbs) /\ DOMAIN i.dtbs = 1 .. Len(found.dtbs)

TInv == TypeOK /\ Shaped(image) /\ Shaped(made) /\ found \in Images

(* The images found are so.                                                *)
LEMMA ImagesShaped ==
  ASSUME NEW i \in Images
  PROVE  /\ i = [form |-> i.form, zipped |-> i.zipped, header |-> i.header, dtbs |-> i.dtbs]
         /\ i.form \in {"plain", "multi"} /\ (i.form = "plain" => Len(i.dtbs) = 1)
         /\ Len(i.dtbs) \in Nat /\ DOMAIN i.dtbs = 1 .. Len(i.dtbs)
         /\ \A k \in 1 .. Len(i.dtbs) : IsDtb(i.dtbs[k])
<1>1. /\ i = [form |-> i.form, zipped |-> i.zipped, header |-> i.header, dtbs |-> i.dtbs]
      /\ i.form \in {"plain", "multi"}
      /\ i.dtbs \in Seq(Range(i.dtbs)) /\ (i.form = "plain" => Len(i.dtbs) = 1)
      /\ \A d \in Range(i.dtbs) :
           /\ d = [target |-> d.target, strings |-> d.strings, toks |-> d.toks]
           /\ d.toks \in Seq(Range(d.toks))
  BY DtbRewriteAssumption
<1>2. Len(i.dtbs) \in Nat /\ DOMAIN i.dtbs = 1 .. Len(i.dtbs) BY <1>1
<1>3. \A k \in 1 .. Len(i.dtbs) : i.dtbs[k] \in Range(i.dtbs) BY <1>2 DEF Range
<1>4. \A d \in Range(i.dtbs) : IsDtb(d) BY <1>1 DEF IsDtb, IsList
<1> QED BY <1>1, <1>2, <1>3, <1>4

(* A partition as it is asked for                                          *)
Plausible(part) ==
  /\ part = [name |-> part.name, size |-> part.size, mask |-> part.mask]
  /\ part.size \in Nat /\ part.mask \in Nat

Asked(parts) ==
  /\ Len(parts) \in Nat /\ Len(parts) <= MaxParts /\ parts = [k \in 1 .. Len(parts) |-> parts[k]]
  /\ \A k \in 1 .. Len(parts) : Plausible(parts[k])

(* The lists are made of such.                                             *)
LEMMA ListsAre ==
  ASSUME NEW list \in Lists
  PROVE  Asked(list) /\ Len(list) \in Nat
<1> DEFINE S == [name : STRING, size : Nat, mask : Nat]
<1>1. list \in Seq(S) /\ Len(list) <= MaxParts BY DtbRewriteAssumption
<1>2. \A part \in S : Plausible(part) BY DEF Plausible
<1> HIDE DEF S
<1>3. Len(list) \in Nat /\ list = [k \in 1 .. Len(list) |-> list[k]] BY <1>1
<1>4. \A k \in 1 .. Len(list) : list[k] \in S BY <1>1
<1> QED BY <1>1, <1>2, <1>3, <1>4 DEF Asked

(* What Combined makes of as many DTBs                                     *)
LEMMA CombinedIs ==
  ASSUME NEW n \in Nat, NEW dtbs, dtbs = [k \in 1 .. n |-> dtbs[k]]
  PROVE  LET i == Combined(dtbs)
         IN /\ i = [form |-> i.form, zipped |-> i.zipped, header |-> i.header, dtbs |-> i.dtbs]
            /\ i.form \in {"plain", "multi"} /\ (i.form = "plain" => Len(i.dtbs) = 1)
            /\ i.dtbs = dtbs /\ Len(dtbs) = n /\ DOMAIN dtbs = 1 .. n
            /\ Readable(i)
<1> DEFINE i == Combined(dtbs)
           header == [k \in DOMAIN dtbs |-> dtbs[k].target]
           written == IF Len(dtbs) = 1 THEN <<>> ELSE header
           form == IF Len(dtbs) = 1 THEN "plain" ELSE "multi"
<1>1. Len(dtbs) = n /\ DOMAIN dtbs = 1 .. n BY FunctionList
<1>2. header = [k \in 1 .. n |-> header[k]] BY <1>1
<1>3. Len(header) = n /\ \A k \in 1 .. n : header[k] = dtbs[k].target
  <2>1. \A k \in 1 .. n : header[k] = dtbs[k].target BY <1>1
  <2> HIDE DEF header
  <2> QED BY <1>2, <2>1, FunctionList
<1> HIDE DEF header
<1>4. i = [form |-> form, zipped |-> FALSE, header |-> written, dtbs |-> dtbs]
  BY DEF Combined, header
<1> HIDE DEF i, written
<1>5. i.form = form /\ i.header = written /\ i.dtbs = dtbs /\ i.zipped = FALSE BY <1>4
<1>6. Readable(i)
  <2>1. i.form = "multi" => written = header BY <1>5 DEF written
  <2> QED BY <1>1, <1>3, <1>5, <2>1 DEF Readable
<1>7. i = [form |-> i.form, zipped |-> i.zipped, header |-> i.header, dtbs |-> i.dtbs]
  BY <1>4, <1>5
<1> QED BY <1>1, <1>5, <1>6, <1>7 DEF i

(* What Compose makes: all the DTBs changed, or nothing.                   *)
LEMMA ComposeMakes ==
  ASSUME NEW list, Compose(list), Shaped(image), pc' = "made"
  PROVE  LET n == Len(found.dtbs)
             dtbs == [k \in 1 .. n |-> Change(k, list).dtb]
         IN made' = Combined(dtbs) /\ \A k \in 1 .. n : Change(k, list).ok
<1> DEFINE change == [k \in DOMAIN image.dtbs |-> Change(k, list)]
           n == Len(found.dtbs)
<1>1. /\ made' = Combined([k \in DOMAIN change |-> change[k].dtb])
      /\ \A k \in DOMAIN change : change[k].ok
  BY DEF Compose
<1>2. DOMAIN image.dtbs = 1 .. n BY DEF Shaped
<1>3. DOMAIN change = 1 .. n /\ \A k \in 1 .. n : change[k] = Change(k, list) BY <1>2
<1> HIDE DEF change
<1>4. [k \in DOMAIN change |-> change[k].dtb] = [k \in 1 .. n |-> Change(k, list).dtb] BY <1>3
<1> QED BY <1>1, <1>3, <1>4

(* What Compose makes is an image of as many DTBs, and readable.           *)
LEMMA ShapedBy ==
  ASSUME Shaped(image), NEW list, Compose(list), pc' = "made"
  PROVE  Shaped(made') /\ made'.dtbs = [k \in 1 .. Len(found.dtbs) |-> Change(k, list).dtb]
           /\ Readable(made')
<1> DEFINE n == Len(found.dtbs)  dtbs == [k \in 1 .. n |-> Change(k, list).dtb]
<1>1. made' = Combined(dtbs) BY ComposeMakes
<1>2. n \in Nat BY DEF Shaped
<1>3. dtbs = [k \in 1 .. n |-> dtbs[k]] OBVIOUS
<1> HIDE DEF dtbs
<1> DEFINE i == Combined(dtbs)
<1>4. /\ i = [form |-> i.form, zipped |-> i.zipped, header |-> i.header, dtbs |-> i.dtbs]
      /\ i.form \in {"plain", "multi"} /\ (i.form = "plain" => Len(i.dtbs) = 1)
      /\ i.dtbs = dtbs /\ Len(dtbs) = n /\ DOMAIN dtbs = 1 .. n
      /\ Readable(i)
  BY <1>2, <1>3, CombinedIs
<1> HIDE DEF i
<1>5. Shaped(i) BY <1>2, <1>4 DEF Shaped
<1> QED BY <1>1, <1>4, <1>5 DEF i, dtbs

(* What every step keeps holds in the beginning ...                        *)
LEMMA TInit == Init => TInv
<1> SUFFICES ASSUME Init PROVE TInv OBVIOUS
<1>1. /\ found \in Images /\ image = found /\ made = found
      /\ helper = <<>> /\ wanted = <<>> /\ pc = "idle" /\ runs = 0
  BY DEF Init
<1>2. Shaped(found) BY <1>1, ImagesShaped DEF Shaped
<1>3. TypeOK BY <1>1, <1>2, DtbRewriteAssumption DEF TypeOK, Shaped
<1> QED BY <1>1, <1>2, <1>3 DEF TInv

(* ... is kept by every step ...                                           *)
LEMMA TNext == TInv /\ [Next]_vars => TInv'
<1> SUFFICES ASSUME TInv, [Next]_vars PROVE TInv' OBVIOUS
<1>1. /\ TypeOK /\ Shaped(image) /\ Shaped(made) /\ found \in Images BY DEF TInv
<1>2. ASSUME UNCHANGED found, Shaped(image)', Shaped(made)',
             pc' \in {"idle", "read", "made", "written", "failed", "toolarge"},
             helper' # <<>> => DOMAIN helper' = DOMAIN image'.dtbs,
             wanted' \in Lists \union {<<>>}, runs' \in 0 .. MaxRuns
      PROVE  TInv'
  BY <1>1, <1>2 DEF TInv, TypeOK, Shaped
<1>3. CASE Read
  <2>1. /\ UNCHANGED <<image, found, wanted, made>> /\ pc' = "read"
        /\ runs < MaxRuns /\ runs' = runs + 1
        /\ helper' = IF Readable(image)
                       THEN [k \in DOMAIN image.dtbs |-> Partitions(image.dtbs[k])] ELSE <<>>
    BY <1>3 DEF Read
  <2>2. runs' \in 0 .. MaxRuns BY <1>1, <2>1, DtbRewriteAssumption DEF TypeOK
  <2>3. helper' # <<>> => DOMAIN helper' = DOMAIN image'.dtbs BY <2>1
  <2>4. Shaped(image)' /\ Shaped(made)' BY <1>1, <2>1 DEF Shaped
  <2> QED BY <1>1, <1>2, <2>1, <2>2, <2>3, <2>4 DEF TypeOK
<1>4. CASE Die \/ Finish
  <2>1. UNCHANGED <<image, found, wanted, made, runs>> /\ pc' = "idle" /\ helper' = <<>>
    BY <1>4 DEF Die, Finish
  <2>2. Shaped(image)' /\ Shaped(made)' BY <1>1, <2>1 DEF Shaped
  <2> QED BY <1>1, <1>2, <2>1, <2>2 DEF TypeOK
<1>5. ASSUME NEW list \in Lists, Compose(list) PROVE TInv'
  <2>1. /\ UNCHANGED <<image, found, helper, runs>> /\ wanted' = list
        /\ pc' = "made" \/ (pc' = "failed" /\ UNCHANGED made)
    BY <1>5 DEF Compose
  <2>2. pc' = "made" => Shaped(made') BY <1>1, <1>5, ShapedBy
  <2>3. Shaped(made)' /\ Shaped(image)' BY <1>1, <2>1, <2>2 DEF Shaped
  <2> QED BY <1>1, <1>2, <2>1, <2>3 DEF TypeOK
<1>6. CASE Write
  <2>1. /\ UNCHANGED <<found, helper, wanted, made, runs>> /\ pc' \in {"written", "toolarge"}
        /\ image' = made \/ image' = [made EXCEPT !.zipped = TRUE] \/ image' = image
    BY <1>6 DEF Write
  <2>2. Shaped(image)' /\ DOMAIN image'.dtbs = DOMAIN image.dtbs
    <3>1. CASE image' = made \/ image' = image BY <1>1, <2>1, <3>1 DEF Shaped
    <3>2. CASE image' = [made EXCEPT !.zipped = TRUE]
      <4>1. image' = [form |-> made.form, zipped |-> TRUE, header |-> made.header, dtbs |-> made.dtbs]
        BY <1>1, <3>2 DEF Shaped
      <4>2. /\ image'.form = made.form /\ image'.dtbs = made.dtbs
            /\ image' = [form |-> image'.form, zipped |-> image'.zipped, header |-> image'.header,
                         dtbs |-> image'.dtbs]
        BY <4>1
      <4> QED BY <1>1, <2>1, <4>2 DEF Shaped
    <3> QED BY <2>1, <3>1, <3>2
  <2>3. Shaped(made)' BY <1>1, <2>1 DEF Shaped
  <2> QED BY <1>1, <1>2, <2>1, <2>2, <2>3 DEF TypeOK
<1>7. CASE UNCHANGED vars
  <2>1. UNCHANGED <<image, found, helper, wanted, made, pc, runs>> BY <1>7 DEF vars
  <2>2. Shaped(image)' /\ Shaped(made)' BY <1>1, <2>1 DEF Shaped
  <2> QED BY <1>1, <1>2, <2>1, <2>2 DEF TypeOK
<1> QED BY <1>3, <1>4, <1>5, <1>6, <1>7 DEF Next

(* ... and so holds always.                                                *)
LEMMA TInvariance == Spec => []TInv
BY TInit, TNext, PTL DEF Spec

(* Every run leaves as many DTBs as it found, and the helper belongs to    *)
(* the image it was made of (src/dtb.c).                                   *)
THEOREM TypeCorrect == Spec => []TypeOK
<1>1. TInv => TypeOK BY DEF TInv
<1> QED BY <1>1, TInvariance, PTL

(* The DTBs of an image are device trees.                                  *)
Trees(i) == \A k \in 1 .. Len(found.dtbs) : IsDtb(i.dtbs[k])

(* What is in the helper was read of a device tree, and before anything is *)
(* made of it, of the one on the target.                                   *)
HelperRead ==
  /\ \A k \in DOMAIN helper : \E d : IsDtb(d) /\ helper[k] = Partitions(d)
  /\ (pc = "read" /\ helper # <<>>) =>
       \A k \in 1 .. Len(found.dtbs) : helper[k] = Partitions(image.dtbs[k])

SInv == TInv /\ Trees(image) /\ Trees(made) /\ HelperRead

(* Every image found is made of device trees ...                           *)
LEMMA SInit == Init => SInv
<1> SUFFICES ASSUME Init PROVE SInv OBVIOUS
<1>1. found \in Images /\ image = found /\ made = found /\ helper = <<>> /\ pc = "idle" BY DEF Init
<1>2. Trees(found) BY <1>1, ImagesShaped DEF Trees
<1> QED BY <1>1, <1>2, TInit DEF SInv, Trees, HelperRead

(* A DTB that is changed stays a device tree.                              *)
LEMMA ChangeTree ==
  ASSUME SInv, NEW list \in Lists, NEW k \in 1 .. Len(found.dtbs), Change(k, list).ok
  PROVE  IsDtb(Change(k, list).dtb)
<1> DEFINE d == image.dtbs[k]
<1>1. IsDtb(d) BY DEF SInv, Trees
<1> HIDE DEF d
<1>2. CASE list = <<>>
  <2>1. Change(k, list) = Removed(d) BY <1>2 DEF Change, d
  <2> QED BY <1>1, <2>1, RemovedIs
<1>3. CASE list # <<>>
  <2>1. Change(k, list) = Implemented(d, helper[k], list) BY <1>3 DEF Change, d
  <2>2. Len(list) \in Nat BY ListsAre
  <2>3. Alike(d, Implemented(d, helper[k], list).dtb) BY <1>1, <2>1, <2>2, ImplementedKeeps
  <2> QED BY <2>1, <2>3 DEF Alike
<1> QED BY <1>2, <1>3

(* ... and every step leaves device trees ...                              *)
LEMMA SNext == SInv /\ [Next]_vars => SInv'
<1> SUFFICES ASSUME SInv, [Next]_vars PROVE SInv' OBVIOUS
<1>1. TInv /\ Trees(image) /\ Trees(made) /\ HelperRead BY DEF SInv
<1>2. TInv' BY <1>1, TNext
<1>3. CASE Read
  <2>1. /\ UNCHANGED <<image, found, made>>
        /\ helper' = IF Readable(image)
                       THEN [k \in DOMAIN image.dtbs |-> Partitions(image.dtbs[k])] ELSE <<>>
    BY <1>3 DEF Read
  <2>2. DOMAIN image.dtbs = 1 .. Len(found.dtbs) BY <1>1 DEF TInv, Shaped
  <2>3. CASE ~Readable(image)
    <3>1. helper' = <<>> BY <2>1, <2>3
    <3> QED BY <1>1, <1>2, <2>1, <3>1 DEF SInv, Trees, HelperRead
  <2>4. CASE Readable(image)
    <3>1. DOMAIN helper' = 1 .. Len(found.dtbs)
            /\ \A k \in 1 .. Len(found.dtbs) : helper'[k] = Partitions(image.dtbs[k])
      BY <2>1, <2>2, <2>4
    <3> QED BY <1>1, <1>2, <2>1, <3>1 DEF SInv, Trees, HelperRead
  <2> QED BY <2>3, <2>4
<1>4. CASE Die \/ Finish
  <2>1. UNCHANGED <<image, found, made>> /\ helper' = <<>> BY <1>4 DEF Die, Finish
  <2> QED BY <1>1, <1>2, <2>1 DEF SInv, Trees, HelperRead
<1>5. ASSUME NEW list \in Lists, Compose(list) PROVE SInv'
  <2>1. /\ UNCHANGED <<image, found, helper>> /\ pc' # "read"
        /\ pc' = "made" \/ (pc' = "failed" /\ UNCHANGED made)
    BY <1>5 DEF Compose
  <2>2. ASSUME pc' = "made" PROVE \A k \in 1 .. Len(found.dtbs) : IsDtb(made'.dtbs[k])
    <3> DEFINE n == Len(found.dtbs)
    <3>1. made'.dtbs = [k \in 1 .. n |-> Change(k, list).dtb]
      BY <1>1, <1>5, <2>2, ShapedBy DEF TInv
    <3>2. \A k \in 1 .. n : Change(k, list).ok BY <1>1, <1>5, <2>2, ComposeMakes DEF TInv
    <3>3. \A k \in 1 .. n : IsDtb(Change(k, list).dtb) BY <3>2, ChangeTree
    <3>4. \A k \in 1 .. n : made'.dtbs[k] = Change(k, list).dtb BY <3>1
    <3> QED BY <3>3, <3>4
  <2>3. Trees(made)' BY <1>1, <2>1, <2>2 DEF Trees
  <2> QED BY <1>1, <1>2, <2>1, <2>3 DEF SInv, Trees, HelperRead
<1>6. CASE Write
  <2>1. /\ UNCHANGED <<found, helper, made>> /\ pc' # "read"
        /\ image' = made \/ image' = [made EXCEPT !.zipped = TRUE] \/ image' = image
    BY <1>6 DEF Write
  <2>2. image' = [made EXCEPT !.zipped = TRUE] => image'.dtbs = made.dtbs
    <3>1. made = [form |-> made.form, zipped |-> made.zipped, header |-> made.header, dtbs |-> made.dtbs]
      BY <1>1 DEF TInv, Shaped
    <3> QED BY <3>1
  <2>3. image'.dtbs = made.dtbs \/ image'.dtbs = image.dtbs BY <2>1, <2>2
  <2> QED BY <1>1, <1>2, <2>1, <2>3 DEF SInv, Trees, HelperRead
<1>7. CASE UNCHANGED vars
  <2>1. UNCHANGED <<image, found, helper, made, pc>> BY <1>7 DEF vars
  <2> QED BY <1>1, <1>2, <2>1 DEF SInv, Trees, HelperRead
<1> QED BY <1>3, <1>4, <1>5, <1>6, <1>7 DEF Next

(* ... for ever.                                                           *)
LEMMA SInvariance == Spec => []SInv
BY SInit, SNext, PTL DEF Spec

(* The partitions of a node that was read without a mistake are in the     *)
(* order of part-0, part-1, ..., whenever these say one: the swaps of      *)
(* dts_sort_partitions never undo what an earlier one has put right.       *)
THEOREM SortedAsRecorded == Spec => []SortedByRecord
<1>1. SInv => SortedByRecord
  <2> SUFFICES ASSUME SInv, NEW k \in DOMAIN helper, helper[k].found = "ok"
               PROVE  ByRecord(helper[k].h)
    BY DEF SortedByRecord, ByRecord, Recorded, Handles, InOrder
  <2>1. PICK d : IsDtb(d) /\ helper[k] = Partitions(d) BY DEF SInv, HelperRead
  <2> QED BY <2>1, ReadByRecord
<1> QED BY <1>1, SInvariance, PTL

(* The device trees found have at most one node named partitions: what is  *)
(* left of them without the one that is found has none.                    *)
OnePartitions == \A i \in Images : \A k \in DOMAIN i.dtbs : PartitionsAt(Others(i.dtbs[k].toks)) = 0

(* The DTBs of an image are those found, but for /partitions.              *)
Kept(i) == \A k \in 1 .. Len(found.dtbs) : Alike(found.dtbs[k], i.dtbs[k])

(* They have the partitions asked for, and can be read.                    *)
Good(i) == Readable(i) /\ \A k \in 1 .. Len(found.dtbs) : Meets(i.dtbs[k], wanted)

KInv ==
  /\ TInv /\ Kept(image) /\ Kept(made)
  /\ pc = "made" => Good(made)
  /\ pc = "written" => Good(image) /\ (image.zipped \/ Size(image) <= DataMax)

(* In the beginning nothing has changed ...                                *)
LEMMA KInit == Init => KInv
<1> SUFFICES ASSUME Init PROVE KInv OBVIOUS
<1>1. found \in Images /\ image = found /\ made = found /\ pc = "idle" BY DEF Init
<1>2. Kept(found) BY <1>1, ImagesShaped DEF Kept, Alike
<1> QED BY <1>1, <1>2, TInit DEF KInv, Kept

(* One DTB of the image, given the list or stripped of its partitions      *)
LEMMA ChangeKeeps ==
  ASSUME OnePartitions, KInv, NEW list \in Lists, NEW k \in 1 .. Len(found.dtbs), Change(k, list).ok
  PROVE  Alike(found.dtbs[k], Change(k, list).dtb) /\ Meets(Change(k, list).dtb, list)
<1> DEFINE d == image.dtbs[k]
<1>1. Alike(found.dtbs[k], d) BY DEF KInv, Kept
<1>2. IsDtb(d) /\ Others(d.toks) = Others(found.dtbs[k].toks) /\ d.target = found.dtbs[k].target
  BY <1>1 DEF Alike
<1> HIDE DEF d
<1>3. ASSUME NEW c, Alike(d, c) PROVE Alike(found.dtbs[k], c) BY <1>2, <1>3 DEF Alike
<1>4. CASE list = <<>>
  <2>1. Change(k, list) = Removed(d) BY <1>4 DEF Change, d
  <2>2. PartitionsAt(Others(d.toks)) = 0
    <3>1. found \in Images /\ k \in DOMAIN found.dtbs BY ImagesShaped DEF KInv, TInv
    <3> QED BY <1>2, <3>1 DEF OnePartitions
  <2>3. Alike(d, Removed(d).dtb) /\ Partitions(Removed(d).dtb).found = "none"
    BY <1>2, <2>1, <2>2, RemovedKeeps
  <2> QED BY <1>3, <1>4, <2>1, <2>3 DEF Meets
<1>5. CASE list # <<>>
  <2>1. Change(k, list) = Implemented(d, helper[k], list) BY <1>5 DEF Change, d
  <2>2. Len(list) \in Nat BY ListsAre
  <2> DEFINE c == Implemented(d, helper[k], list).dtb
  <2>3. Alike(d, c) /\ Partitions(c).found = "ok" /\ ToSimple(Partitions(c).h.parts) = list
    BY <1>2, <2>1, <2>2, ImplementedKeeps
  <2>4. Change(k, list).dtb = c BY <2>1
  <2> HIDE DEF c
  <2>5. Meets(c, list) BY <1>5, <2>3 DEF Meets
  <2> QED BY <1>3, <2>3, <2>4, <2>5
<1> QED BY <1>4, <1>5

(* ... and every step changes nothing but /partitions ...                  *)
LEMMA KNext ==
  ASSUME OnePartitions, KInv, [Next]_vars
  PROVE  KInv'
<1>1. TInv /\ Kept(image) /\ Kept(made) BY DEF KInv
<1>2. TInv' BY <1>1, TNext
<1>3. CASE Read \/ Die \/ Finish
  <2>1. UNCHANGED <<image, found, made>> /\ pc' \in {"idle", "read"} BY <1>3 DEF Read, Die, Finish
  <2> QED BY <1>1, <1>2, <2>1 DEF KInv, Kept
<1>4. ASSUME NEW list \in Lists, Compose(list) PROVE KInv'
  <2>1. /\ UNCHANGED <<image, found>> /\ wanted' = list
        /\ pc' = "made" \/ (pc' = "failed" /\ UNCHANGED made)
    BY <1>4 DEF Compose
  <2>2. CASE pc' = "made"
    <3> DEFINE n == Len(found.dtbs)
    <3>1. made'.dtbs = [k \in 1 .. n |-> Change(k, list).dtb] /\ Readable(made')
      BY <1>1, <1>4, <2>2, ShapedBy DEF TInv
    <3>2. \A k \in 1 .. n : Change(k, list).ok BY <1>1, <1>4, <2>2, ComposeMakes DEF TInv
    <3>3. \A k \in 1 .. n : Alike(found.dtbs[k], Change(k, list).dtb) /\ Meets(Change(k, list).dtb, list)
      BY <3>2, ChangeKeeps
    <3>4. \A k \in 1 .. n : made'.dtbs[k] = Change(k, list).dtb BY <3>1
    <3>5. Kept(made)' /\ Kept(image)' BY <1>1, <2>1, <3>3, <3>4 DEF Kept
    <3>6. Good(made)' BY <2>1, <3>1, <3>3, <3>4 DEF Good
    <3> QED BY <1>2, <2>2, <3>5, <3>6 DEF KInv
  <2>3. CASE pc' = "failed" /\ UNCHANGED made BY <1>1, <1>2, <2>1, <2>3 DEF KInv, Kept
  <2> QED BY <2>1, <2>2, <2>3
<1>5. CASE Write
  <2>1. /\ UNCHANGED <<found, wanted, made>> /\ Good(made)
        /\ \/ image' = made /\ Fits /\ pc' = "written"
           \/ image' = [made EXCEPT !.zipped = TRUE] /\ pc' = "written"
           \/ image' = image /\ pc' = "toolarge"
    BY <1>5 DEF Write, KInv
  <2>2. CASE image' = made /\ Fits /\ pc' = "written"
    <3>1. Kept(image)' /\ Kept(made)' /\ Good(image)' BY <1>1, <2>1, <2>2 DEF Kept, Good
    <3>2. Size(image') <= DataMax BY <2>2 DEF Fits
    <3> QED BY <1>2, <2>2, <3>1, <3>2 DEF KInv
  <2>3. CASE image' = [made EXCEPT !.zipped = TRUE] /\ pc' = "written"
    <3>1. made = [form |-> made.form, zipped |-> made.zipped, header |-> made.header, dtbs |-> made.dtbs]
      BY <1>1 DEF TInv, Shaped
    <3>2. image' = [form |-> made.form, zipped |-> TRUE, header |-> made.header, dtbs |-> made.dtbs]
      BY <2>3, <3>1
    <3>3. image'.form = made.form /\ image'.zipped /\ image'.header = made.header /\ image'.dtbs = made.dtbs
      BY <3>2
    <3>4. Readable(image') BY <2>1, <3>3 DEF Good, Readable
    <3>5. Kept(image)' /\ Kept(made)' /\ Good(image)' BY <1>1, <2>1, <3>3, <3>4 DEF Kept, Good
    <3> QED BY <1>2, <2>3, <3>3, <3>5 DEF KInv
  <2>4. CASE image' = image /\ pc' = "toolarge" BY <1>1, <1>2, <2>1, <2>4 DEF KInv, Kept
  <2> QED BY <2>1, <2>2, <2>3, <2>4
<1>6. CASE UNCHANGED vars
  <2>1. UNCHANGED <<image, found, wanted, made, pc>> BY <1>6 DEF vars
  <2> QED BY <1>2, <2>1 DEF KInv, Kept, Good
<1> QED BY <1>3, <1>4, <1>5, <1>6 DEF Next

(* ... for ever.                                                           *)
LEMMA KInvariance ==
  ASSUME OnePartitions
  PROVE  Spec => []KInv
<1>1. Init => KInv BY KInit
<1>2. KInv /\ [Next]_vars => KInv' BY KNext
<1> QED BY <1>1, <1>2, PTL DEF Spec

(* However often the image is rewritten, in whatever order partitions are  *)
(* put in and taken out, no token outside /partitions changes in any DTB,  *)
(* and no DTB takes the place of another: dtb_buffer_entry_implement_      *)
(* partitions and dtb_buffer_entry_remove_partitions cut exactly the node. *)
THEOREM OthersStay ==
  ASSUME OnePartitions
  PROVE  Spec => []OthersUntouched
<1>1. KInv => OthersUntouched
  <2> SUFFICES ASSUME KInv PROVE OthersUntouched OBVIOUS
  <2>1. DOMAIN image.dtbs = 1 .. Len(found.dtbs) BY DEF KInv, TInv, Shaped
  <2> QED BY <2>1 DEF KInv, Kept, Alike, OthersUntouched
<1> QED BY <1>1, KInvariance, PTL

(* What is written fits or is zipped, its header agrees with its DTBs, and *)
(* each of them, read again, has just the partitions asked for (dtb_       *)
(* compose, dtb_combine_multi_dtb).                                        *)
THEOREM WrittenReadsBack ==
  ASSUME OnePartitions
  PROVE  Spec => []ReadsBack
<1>1. KInv => ReadsBack
  <2> SUFFICES ASSUME KInv, pc = "written"
               PROVE  /\ Readable(image)
                      /\ image.zipped \/ Size(image) <= DataMax
                      /\ \A k \in DOMAIN image.dtbs : Meets(image.dtbs[k], wanted)
    BY DEF ReadsBack, Meets
  <2>1. DOMAIN image.dtbs = 1 .. Len(found.dtbs) BY DEF KInv, TInv, Shaped
  <2> QED BY <2>1 DEF KInv, Good
<1> QED BY <1>1, KInvariance, PTL

(* The DTBs of an image have legal phandles, and new ones only where there *)
(* was none free below.                                                    *)
Legal(i) == \A k \in 1 .. Len(found.dtbs) : PhandlesLegal(i.dtbs[k].toks)
Reuses(i) ==
  \A k \in 1 .. Len(found.dtbs) : Lowest(before.dtbs[k], helper[k], i.dtbs[k], Len(wanted))

LInv ==
  /\ SInv
  /\ pc = "read" => before = image
  /\ (pc = "made" /\ wanted # <<>>) => Legal(made) /\ Reuses(made)
  /\ (pc = "written" /\ wanted # <<>>) => Legal(image) /\ Reuses(image)

(* Every step keeps that.                                                  *)
LEMMA LNext == LInv /\ [Next]_vars => LInv'
<1> SUFFICES ASSUME LInv, [Next]_vars PROVE LInv' OBVIOUS
<1>1. SInv /\ TInv /\ HelperRead BY DEF LInv, SInv
<1>2. SInv' BY <1>1, SNext
<1>3. CASE Read \/ Die \/ Finish
  <2>1. pc' = "idle" \/ (pc' = "read" /\ before' = image /\ image' = image) BY <1>3 DEF Read, Die, Finish
  <2> QED BY <1>2, <2>1 DEF LInv
<1>4. ASSUME NEW list \in Lists, Compose(list) PROVE LInv'
  <2>1. /\ UNCHANGED <<image, found, helper, before>> /\ wanted' = list /\ pc = "read"
        /\ (pc' = "made" /\ helper # <<>>) \/ pc' = "failed"
    BY <1>4 DEF Compose
  <2>2. ASSUME pc' = "made", list # <<>>, NEW k \in 1 .. Len(found.dtbs)
        PROVE  /\ PhandlesLegal(made'.dtbs[k].toks)
               /\ Lowest(before.dtbs[k], helper[k], made'.dtbs[k], Len(list))
    <3> DEFINE n == Len(found.dtbs)  d == image.dtbs[k]
    <3>1. made'.dtbs = [i \in 1 .. n |-> Change(i, list).dtb] BY <1>1, <1>4, <2>2, ShapedBy DEF TInv
    <3>2. Change(k, list).ok BY <1>1, <1>4, <2>2, ComposeMakes DEF TInv
    <3>3. helper[k] = Partitions(d) BY <1>1, <2>1, <2>2 DEF HelperRead
    <3>4. Change(k, list) = Implemented(d, Partitions(d), list) BY <2>2, <3>3 DEF Change
    <3>5. IsDtb(d) BY <1>1 DEF SInv, Trees
    <3>6. Len(list) \in Nat BY ListsAre
    <3>7. made'.dtbs[k] = Change(k, list).dtb BY <3>1
    <3>8. before.dtbs[k] = d BY <2>1 DEF LInv
    <3> HIDE DEF d, n
    <3>9. PhandlesLegal(Implemented(d, Partitions(d), list).dtb.toks)
      BY <3>2, <3>4, <3>5, <3>6, ImplementedLegal
    <3>10. Lowest(d, Partitions(d), Implemented(d, Partitions(d), list).dtb, Len(list))
      BY <3>2, <3>4, <3>5, <3>6, ImplementedLowest
    <3> QED BY <3>3, <3>4, <3>7, <3>8, <3>9, <3>10
  <2>3. (pc' = "made" /\ wanted' # <<>>) => Legal(made)' /\ Reuses(made)' BY <2>1, <2>2 DEF Legal, Reuses
  <2>4. pc' # "written" /\ pc' # "read" BY <2>1
  <2> QED BY <1>2, <2>3, <2>4 DEF LInv
<1>5. CASE Write
  <2>1. /\ UNCHANGED <<found, helper, wanted, made, before>> /\ pc = "made" /\ pc' \notin {"made", "read"}
        /\ pc' = "written" => image' = made \/ image' = [made EXCEPT !.zipped = TRUE]
    BY <1>5 DEF Write
  <2>2. image' = [made EXCEPT !.zipped = TRUE] => image'.dtbs = made.dtbs
    <3>1. made = [form |-> made.form, zipped |-> made.zipped, header |-> made.header, dtbs |-> made.dtbs]
      BY <1>1 DEF TInv, Shaped
    <3> QED BY <3>1
  <2>3. (pc' = "written" /\ wanted' # <<>>) => Legal(image)' /\ Reuses(image)'
    BY <2>1, <2>2 DEF LInv, Legal, Reuses
  <2> QED BY <1>2, <2>1, <2>3 DEF LInv
<1>6. CASE UNCHANGED vars
  <2>1. UNCHANGED <<image, found, helper, wanted, made, pc, before>> BY <1>6 DEF vars
  <2> QED BY <1>2, <2>1 DEF LInv, Legal, Reuses
<1> QED BY <1>3, <1>4, <1>5, <1>6 DEF Next

(* So it holds always.                                                     *)
LEMMA LInvariance == Spec => []LInv
<1>1. Init => LInv
  <2>1. Init => pc = "idle" BY DEF Init
  <2> QED BY <2>1, SInit DEF LInv
<1> QED BY <1>1, LNext, PTL DEF Spec

(* In what is written no phandle belongs to two nodes: those dts_assign_   *)
(* available_phandle gives to the new partitions are none that another     *)
(* node has, and dts_drop_partitions_phandles frees only what goes with    *)
(* the old node.                                                           *)
THEOREM PhandlesDistinct == Spec => []PhandlesUnique
<1>1. LInv => PhandlesUnique
  <2> SUFFICES ASSUME LInv PROVE PhandlesUnique OBVIOUS
  <2>1. DOMAIN image.dtbs = 1 .. Len(found.dtbs) BY DEF LInv, SInv, TInv, Shaped
  <2> QED BY <2>1 DEF LInv, Legal, PhandlesUnique
<1> QED BY <1>1, LInvariance, PTL

(* Phandles do not grow from rewrite to rewrite: the new partitions take   *)
(* the lowest that the other nodes leave (dts_assign_available_phandle),   *)
(* if those of the old ones were all known and dropped before.             *)
THEOREM PhandlesLow == Spec => []PhandlesReused
<1>1. LInv => PhandlesReused
  <2> SUFFICES ASSUME LInv PROVE PhandlesReused OBVIOUS
  <2>1. DOMAIN image.dtbs = 1 .. Len(found.dtbs) BY DEF LInv, SInv, TInv, Shaped
  <2> QED BY <2>1 DEF LInv, Reuses, PhandlesReused
<1> QED BY <1>1, LInvariance, PTL

(***************************************************************************)
(* The new node, read again                                                *)
(***************************************************************************)
(* What is in the tokens the composer writes                               *)
LEMMA TokenFields ==
  /\ \A name : Begin(name).t = "begin" /\ Begin(name).name = name
  /\ End.t = "end"
  /\ \A name, val : LET q == Prop(name, val) IN q.t = "prop" /\ q.name = name /\ q.id = 0 /\ q.val = val
  /\ \A id, val : LET q == PartProp(id, val)
                  IN q.t = "prop" /\ q.name = "part-" /\ q.id = id /\ q.val = val
  /\ \A text : LET q == Pname(text)
               IN q.t = "prop" /\ q.name = "pname" /\ q.id = 0 /\ q.val = 0 /\ q.text = text
<1> DEFINE none == ""
<1>1. \A a, b, c, d, e : LET q == Token(a, b, c, d, e)
                         IN q.t = a /\ q.name = b /\ q.id = c /\ q.val = d /\ q.text = e
  BY DEF Token
<1>2. /\ \A name, val : Prop(name, val) = Token("prop", name, 0, val, none)
      /\ \A id, val : PartProp(id, val) = Token("prop", "part-", id, val, none)
      /\ \A text : Pname(text) = Token("prop", "pname", 0, 0, text)
  BY Zenon DEF Prop, PartProp, Pname
<1> HIDE DEF none
<1>3. \A name, val : LET q == Prop(name, val) IN q.t = "prop" /\ q.name = name /\ q.id = 0 /\ q.val = val
  BY <1>1, <1>2
<1>4. \A id, val : LET q == PartProp(id, val)
                   IN q.t = "prop" /\ q.name = "part-" /\ q.id = id /\ q.val = val
  BY <1>1, <1>2
<1>5. \A text : LET q == Pname(text)
                IN q.t = "prop" /\ q.name = "pname" /\ q.id = 0 /\ q.val = 0 /\ q.text = text
  BY <1>1, <1>2
<1> QED BY <1>3, <1>4, <1>5, Tokens

(* Properties leave the level as it is.                                    *)
LEMMA PropsLevel ==
  ASSUME NEW s, NEW c \in Nat \ {0}, NEW d \in Nat, c <= d, \A k \in c + 1 .. d : s[k].t = "prop"
  PROVE  \A k \in c .. d : Level(s, k) = Level(s, c)
<1> SUFFICES ASSUME NEW k \in c .. d PROVE Level(s, k) = Level(s, c) OBVIOUS
<1>1. /\ k \in Nat /\ c + 1 \in Nat \ {0} /\ c + 1 <= k + 1 /\ (c + 1) - 1 = c
      /\ c + 1 \in Int /\ k \in Int /\ \A j \in c + 1 .. k : j \in c + 1 .. d
  OBVIOUS
<1>2. Depth(s, c + 1, k) = Level(s, k) - Level(s, c) /\ Level(s, k) \in Int /\ Level(s, c) \in Int
  BY <1>1, LevelDepth
<1>3. Those(s, c + 1, k, "begin") = {} /\ Those(s, c + 1, k, "end") = {}
  BY <1>1 DEF Those
<1>4. Depth(s, c + 1, k) = 0
  BY <1>1, <1>3, DepthIs, FS_EmptySet DEF Count
<1> QED BY <1>2, <1>4

(* The tokens from which a value is taken                                  *)
Named(s, n, upto, name, id) ==
  {k \in n + 1 .. upto - 1 :
     s[k].t = "prop" /\ s[k].name = name /\ s[k].id = id /\ Parent(s, k) = n}

(* The value of a property that is not there                               *)
LEMMA ValueNone ==
  ASSUME NEW s, NEW n, NEW upto, NEW name, NEW id, Named(s, n, upto, name, id) = {}
  PROVE  Value(s, n, upto, name, id) = 0
<1> DEFINE at == Named(s, n, upto, name, id)
<1>1. Value(s, n, upto, name, id) = IF at = {} THEN 0 ELSE s[Max(at)].val BY DEF Value, Named
<1> QED BY <1>1

(* One that is there once ...                                              *)
Once(s, n, upto, name, id, k) == k \in Nat /\ Named(s, n, upto, name, id) = {k}

(* ... has the value it was given.                                         *)
LEMMA ValueOnce ==
  ASSUME NEW s, NEW n, NEW upto, NEW name, NEW id, NEW k, Once(s, n, upto, name, id, k)
  PROVE  Value(s, n, upto, name, id) = s[k].val
<1> DEFINE at == Named(s, n, upto, name, id)
<1>1. Value(s, n, upto, name, id) = IF at = {} THEN 0 ELSE s[Max(at)].val BY DEF Value, Named
<1>2. at = {k} /\ k <= k BY DEF Once
<1> HIDE DEF at
<1>3. Max(at) = k BY <1>2 DEF Max
<1> QED BY <1>1, <1>2, <1>3

(* The name of the second phandle                                          *)
Linux == "linux,phandle"

(* It is none of the others.                                               *)
LEMMA LinuxDiffers ==
  /\ Linux # "parts" /\ Linux # "part-" /\ Linux # "phandle"
  /\ Linux # "pname" /\ Linux # "size" /\ Linux # "mask"
BY Zenon DEF Linux

(* How many phandles a node is given, and how many tokens a child has      *)
Extra(linux) == IF linux THEN 2 ELSE 1
Width(linux) == 5 + Extra(linux)

PhandlesAt(u, k, v, linux) ==
  u[k] = Prop("phandle", v) /\ (linux => u[k + 1] = Prop(Linux, v))

(* The tokens of a child that begins at c                                  *)
PartAt(u, c, part, v, linux) ==
  /\ u[c] = Begin(part.name) /\ u[c + 1] = Pname(part.name)
  /\ u[c + 2] = Prop("size", part.size) /\ u[c + 3] = Prop("mask", part.mask)
  /\ PhandlesAt(u, c + 4, v, linux) /\ u[c + (Width(linux) - 1)] = End

(* They are numbers.                                                       *)
LEMMA WidthNat ==
  ASSUME NEW linux
  PROVE  Extra(linux) \in 1 .. 2 /\ Width(linux) \in 6 .. 7 /\ Width(linux) = 5 + Extra(linux)
           /\ Extra(linux) = IF linux THEN 2 ELSE 1
BY DEF Extra, Width

(* The phandles of a node                                                  *)
LEMMA WithLinuxIs ==
  ASSUME NEW v, NEW linux, NEW y, y = WithLinux(v, linux)
  PROVE  IsList(y) /\ Len(y) = Extra(linux) /\ PhandlesAt(y, 1, v, linux)
<1> DEFINE p == Prop("phandle", v)  l == Prop(Linux, v)
<1>1. y = IF linux THEN << p, l >> ELSE << p >> BY DEF WithLinux, Linux
<1>2. IsList(y) BY WithLinuxBalanced DEF Balanced
<1>3. Len(y) = Extra(linux) /\ y[1] = p /\ (linux => y[2] = l)
  <2> HIDE DEF p, l
  <2>1. CASE linux BY <1>1, <2>1 DEF Extra
  <2>2. CASE ~linux BY <1>1, <2>2 DEF Extra
  <2> QED BY <2>1, <2>2
<1>4. 1 + 1 = 2 OBVIOUS
<1> HIDE DEF p, l
<1>5. y[1] = p /\ (linux => y[1 + 1] = l) BY <1>3, <1>4
<1> QED BY <1>2, <1>3, <1>5 DEF PhandlesAt, p, l

(* A list of one token                                                     *)
LEMMA Alone ==
  ASSUME NEW token, NEW e, e = << token >>
  PROVE  IsList(e) /\ Len(e) = 1 /\ e[1] = token
<1>1. e \in Seq({token}) /\ Len(e) = 1 /\ e[1] = token OBVIOUS
<1>2. IsList(e)
  <2> DEFINE T == {token}
  <2>1. e \in Seq(T) BY <1>1
  <2> HIDE DEF T
  <2> QED BY <2>1, ListIs
<1> QED BY <1>1, <1>2

(* What dts_compose_partitions_node writes for a child                     *)
LEMMA PartTokens ==
  ASSUME NEW part, NEW v, NEW linux, NEW x, x = ComposedPart(part, v, linux)
  PROVE  IsList(x) /\ Len(x) = Width(linux) /\ PartAt(x, 1, part, v, linux)
<1> DEFINE b == Begin(part.name)  p == Pname(part.name)  s == Prop("size", part.size)
           m == Prop("mask", part.mask)  w == << b, p, s, m >>  y == WithLinux(v, linux)
           e == << End >>  z == w \o y  four == 4
<1>1. x = z \o e BY DEF ComposedPart
<1>2. IsList(y) /\ Len(y) = Extra(linux) /\ PhandlesAt(y, 1, v, linux) BY WithLinuxIs
<1>3. IsList(e) /\ Len(e) = 1 /\ e[1] = End BY Alone
<1>4. IsList(w) /\ Len(w) = 4 /\ w[1] = b /\ w[2] = p /\ w[3] = s /\ w[4] = m
  <2> DEFINE T == {b, p, s, m}
  <2> HIDE DEF b, p, s, m
  <2>1. w \in Seq(T) /\ Len(w) = 4 /\ w[1] = b /\ w[2] = p /\ w[3] = s /\ w[4] = m OBVIOUS
  <2> HIDE DEF w, T
  <2> QED BY <2>1, ListIs
<1> HIDE DEF b, p, s, m, w, y, e
<1>5. /\ IsList(z) /\ Len(z) = 4 + Extra(linux)
      /\ \A k \in 1 .. 4 : z[k] = w[k]
      /\ \A k \in 1 .. Extra(linux) : z[k + 4] = y[k]
  <2>1. /\ IsList(w \o y) /\ Len(w \o y) = Len(w) + Len(y)
        /\ \A k \in 1 .. Len(w) : (w \o y)[k] = w[k]
        /\ \A k \in 1 .. Len(y) : (w \o y)[k + Len(w)] = y[k]
    <3>1. IsList(w) /\ IsList(y) BY <1>2, <1>4
    <3> QED BY <3>1, Joined
  <2> QED BY <1>2, <1>4, <2>1
<1> HIDE DEF z
<1>6. Extra(linux) \in 1 .. 2 /\ Width(linux) = 5 + Extra(linux) /\ (linux => Extra(linux) = 2)
  BY WidthNat
<1>7. /\ IsList(x) /\ Len(x) = Width(linux)
      /\ \A k \in 1 .. 4 + Extra(linux) : x[k] = z[k]
      /\ x[1 + (4 + Extra(linux))] = e[1]
  <2>1. /\ IsList(z \o e) /\ Len(z \o e) = Len(z) + Len(e)
        /\ \A k \in 1 .. Len(z) : (z \o e)[k] = z[k]
        /\ \A k \in 1 .. Len(e) : (z \o e)[k + Len(z)] = e[k]
    <3>1. IsList(z) /\ IsList(e) BY <1>3, <1>5
    <3> QED BY <3>1, Joined
  <2>2. 1 \in 1 .. Len(e) /\ Width(linux) = Len(z) + Len(e) BY <1>3, <1>5, <1>6
  <2>3. (z \o e)[1 + Len(z)] = e[1] BY <2>1, <2>2
  <2> QED BY <1>1, <1>5, <2>1, <2>2, <2>3
<1>8. x[1] = b /\ x[2] = p /\ x[3] = s /\ x[4] = m
  <2>1. 1 \in 1 .. 4 /\ 2 \in 1 .. 4 /\ 3 \in 1 .. 4 /\ 4 \in 1 .. 4 OBVIOUS
  <2>2. \A k \in 1 .. 4 : k \in 1 .. 4 + Extra(linux) BY <1>6
  <2>3. \A k \in 1 .. 4 : x[k] = w[k] BY <1>5, <1>7, <2>2
  <2> QED BY <1>4, <2>1, <2>3
<1>9. PhandlesAt(x, 5, v, linux)
  <2>1. 1 \in 1 .. Extra(linux) /\ 1 + 4 = 5 /\ 5 \in 1 .. 4 + Extra(linux) BY <1>6
  <2>2. x[5] = y[1]
    <3>1. z[1 + 4] = y[1] BY <1>5, <2>1
    <3> QED BY <1>7, <2>1, <3>1
  <2>3. ASSUME linux PROVE x[6] = y[2]
    <3>1. Extra(linux) = 2 BY <1>6, <2>3
    <3>2. 2 \in 1 .. Extra(linux) /\ 2 + 4 = 6 /\ 6 \in 1 .. 4 + Extra(linux) BY <3>1
    <3>3. z[2 + 4] = y[2] BY <1>5, <3>2
    <3> QED BY <1>7, <3>2, <3>3
  <2>4. 1 + 1 = 2 /\ 5 + 1 = 6 OBVIOUS
  <2> QED BY <1>2, <2>2, <2>3, <2>4 DEF PhandlesAt
<1>10. x[1 + (Width(linux) - 1)] = End
  <2>1. 1 + (Width(linux) - 1) = 1 + (4 + Extra(linux)) BY <1>6
  <2> QED BY <1>3, <1>7, <2>1
<1>11. 1 + 1 = 2 /\ 1 + 2 = 3 /\ 1 + 3 = 4 /\ 1 + 4 = 5 OBVIOUS
<1> QED BY <1>7, <1>8, <1>9, <1>10, <1>11 DEF PartAt, b, p, s, m

(* The same tokens further on                                              *)
LEMMA PartMoved ==
  ASSUME NEW x, NEW b \in Nat, NEW part, NEW v, NEW linux, PartAt(x, b, part, v, linux),
         NEW u, NEW d \in Nat, Shifted(x, u, b, b + (Width(linux) - 1), d), NEW c, c = b + d
  PROVE  PartAt(u, c, part, v, linux)
<1> DEFINE w == Width(linux) - 1
<1>1. w \in 5 .. 6 BY WidthNat
<1>2. \A k \in b .. b + w : u[k + d] = x[k] BY DEF Shifted
<1> HIDE DEF w
<1>3. /\ b \in b .. b + w /\ b + d = c
      /\ b + 1 \in b .. b + w /\ (b + 1) + d = c + 1
      /\ b + 2 \in b .. b + w /\ (b + 2) + d = c + 2
      /\ b + 3 \in b .. b + w /\ (b + 3) + d = c + 3
      /\ b + 4 \in b .. b + w /\ (b + 4) + d = c + 4
      /\ (b + 4) + 1 \in b .. b + w /\ ((b + 4) + 1) + d = (c + 4) + 1
      /\ b + w \in b .. b + w /\ (b + w) + d = c + w
  BY <1>1
<1>4. u[c] = x[b] /\ u[c + 1] = x[b + 1] BY <1>2, <1>3
<1>5. u[c + 2] = x[b + 2] /\ u[c + 3] = x[b + 3] BY <1>2, <1>3
<1>6. u[c + 4] = x[b + 4] /\ u[(c + 4) + 1] = x[(b + 4) + 1] BY <1>2, <1>3
<1>7. u[c + w] = x[b + w] BY <1>2, <1>3
<1> QED BY <1>4, <1>5, <1>6, <1>7 DEF PartAt, PhandlesAt, w

(* After each round one child more: each begins where the one before ends. *)
ChildrenAt(f, m, parts, handle, linux) ==
  /\ IsList(f[m]) /\ Len(f[0]) = 0 /\ \A i \in 0 .. m : Len(f[i]) \in Nat
  /\ \A i \in 1 .. m : /\ Len(f[i]) = Len(f[i - 1]) + Width(linux)
                      /\ PartAt(f[m], Len(f[i - 1]) + 1, parts[i], handle[i], linux)

(* So are the children laid end to end.                                    *)
LEMMA ChildrenLaid ==
  ASSUME NEW parts, NEW handle, NEW linux, NEW f, NEW m \in Nat, m = Len(parts),
         EndToEnd(f, parts, handle, linux)
  PROVE  ChildrenAt(f, m, parts, handle, linux)
<1> DEFINE W == Width(linux)
           Child(h, i) == /\ Len(f[i - 1]) \in Nat /\ Len(f[i]) = Len(f[i - 1]) + W /\ Len(f[i]) <= Len(f[h])
                          /\ PartAt(f[h], Len(f[i - 1]) + 1, parts[i], handle[i], linux)
           Fine(h) == IsList(f[h]) /\ Len(f[h]) \in Nat /\ \A i \in 1 .. h : Child(h, i)
           T == {h \in 0 .. m : Fine(h)}
<1>1. W \in 6 .. 7 BY WidthNat
<1>2. IsList(f[0]) /\ Len(f[0]) = 0
  <2> DEFINE none == f[0]
  <2>1. none \in Seq({}) /\ Len(none) = 0 BY DEF EndToEnd
  <2> HIDE DEF none
  <2>2. IsList(none) BY <2>1, ListIs
  <2> QED BY <2>1, <2>2 DEF none
<1>3. 0 \in T BY <1>2
<1>4. ASSUME NEW h \in 1 .. m, h - 1 \in T PROVE h \in T
  <2> DEFINE c == ComposedPart(parts[h], handle[h], linux)  p == f[h - 1]  x == f[h]
  <2>1. x = p \o c BY DEF EndToEnd
  <2>2. IsList(p) /\ Len(p) \in Nat /\ \A i \in 1 .. h - 1 : Child(h - 1, i) BY <1>4
  <2>3. IsList(c) /\ Len(c) = W /\ PartAt(c, 1, parts[h], handle[h], linux) BY PartTokens
  <2> HIDE DEF c, p, x, W
  <2>4. /\ IsList(x) /\ Len(x) = Len(p) + W
        /\ \A k \in 1 .. Len(p) : x[k] = p[k]
        /\ \A j \in 1 .. W : x[j + Len(p)] = c[j]
    <3>1. /\ IsList(p \o c) /\ Len(p \o c) = Len(p) + Len(c)
          /\ \A k \in 1 .. Len(p) : (p \o c)[k] = p[k]
          /\ \A k \in 1 .. Len(c) : (p \o c)[k + Len(p)] = c[k]
      BY <2>2, <2>3, Joined
    <3>2. \A j \in 1 .. W : x[j + Len(p)] = c[j] BY <2>1, <2>3, <3>1
    <3> QED BY <2>1, <2>3, <3>1, <3>2
  <2>5. Len(x) \in Nat BY <1>1, <2>2, <2>4
  <2>6. ASSUME NEW i \in 1 .. h - 1 PROVE Child(h, i)
    <3> DEFINE b == Len(f[i - 1]) + 1  z == 0
    <3>1. /\ Len(f[i - 1]) \in Nat /\ Len(f[i]) = Len(f[i - 1]) + W /\ Len(f[i]) <= Len(p)
          /\ PartAt(p, b, parts[i], handle[i], linux)
      BY <2>2, <2>6 DEF p
    <3>2. b \in Nat /\ b + (W - 1) <= Len(p) /\ z \in Nat /\ b = b + z /\ 1 <= b BY <1>1, <3>1
    <3> HIDE DEF b
    <3>3. Shifted(p, x, b, b + (W - 1), z)
      <4>1. \A k \in b .. b + (W - 1) : k \in 1 .. Len(p) /\ k + z = k BY <1>1, <2>2, <3>2
      <4> HIDE DEF z
      <4> QED BY <2>4, <4>1 DEF Shifted
    <3> HIDE DEF z
    <3>4. PartAt(x, b, parts[i], handle[i], linux) BY <3>1, <3>2, <3>3, PartMoved DEF W
    <3>5. Len(f[i]) <= Len(x) BY <1>1, <2>2, <2>4, <3>1
    <3> QED BY <3>1, <3>4, <3>5 DEF b, x
  <2>7. Child(h, h)
    <3> DEFINE one == 1  b == Len(p) + 1
    <3>1. one \in Nat /\ b = one + Len(p) /\ one + (W - 1) = W BY <1>1, <2>2
    <3>2. Shifted(c, x, one, one + (W - 1), Len(p)) BY <2>4, <3>1 DEF Shifted
    <3>3. PartAt(c, one, parts[h], handle[h], linux) BY <2>3
    <3> HIDE DEF one, b
    <3>4. PartAt(x, b, parts[h], handle[h], linux) BY <2>2, <3>1, <3>2, <3>3, PartMoved DEF W
    <3>5. Len(f[h - 1]) \in Nat /\ Len(f[h]) = Len(f[h - 1]) + W /\ Len(f[h]) <= Len(f[h])
      BY <2>2, <2>4, <2>5 DEF p, x
    <3> QED BY <3>4, <3>5 DEF p, x, b
  <2>8. \A i \in 1 .. h : Child(h, i)
    <3>1. \A i \in 1 .. h : i = h \/ i \in 1 .. h - 1 OBVIOUS
    <3> HIDE DEF Child
    <3> QED BY <2>6, <2>7, <3>1
  <2>9. Fine(h) BY <2>4, <2>5, <2>8 DEF x
  <2> QED BY <2>9
<1>5. \A h \in 0 .. m : h \in T
  <2> HIDE DEF T
  <2> QED BY <1>3, <1>4, Induction
<1>6. Fine(m)
  <2>1. m \in 0 .. m OBVIOUS
  <2> QED BY <1>5, <2>1
<1>7. \A i \in 0 .. m : Len(f[i]) \in Nat BY <1>5
<1> QED BY <1>2, <1>6, <1>7 DEF ChildrenAt

(* Where the children begin, and after the last of them the end            *)
Starts(a, m, linux, first) ==
  /\ a \in [1 .. m + 1 -> Nat \ {0}] /\ a[1] = first
  /\ \A i \in 1 .. m : a[i + 1] = a[i] + Width(linux)

(* The beginning of a node at n, up to the first child                     *)
HeadAt(u, n, m, handle, linux) ==
  /\ u[n] = Begin("partitions") /\ u[n + 1] = Prop("parts", m)
  /\ \A i \in 1 .. m : u[n + 1 + i] = PartProp(i - 1, handle[i])
  /\ PhandlesAt(u, n + m + 2, handle[m + 1], linux)

(* The tokens of a new node at n                                           *)
NodeAt(u, n, parts, handle, linux, a) ==
  LET m == Len(parts)
  IN /\ HeadAt(u, n, m, handle, linux) /\ Starts(a, m, linux, n + m + 2 + Extra(linux))
     /\ \A i \in 1 .. m : PartAt(u, a[i], parts[i], handle[i], linux)
     /\ u[a[m + 1]] = End

(* What dts_compose_partitions_node writes, token by token                 *)
LEMMA ComposedTokens ==
  ASSUME NEW parts, NEW handle, NEW linux, Len(parts) \in Nat,
         NEW x, x = Composed(parts, handle, linux)
  PROVE  \E a : NodeAt(x, 1, parts, handle, linux, a) /\ a[Len(parts) + 1] = Len(x)
<1> DEFINE m == Len(parts)  X == Extra(linux)  W == Width(linux)
           b == Begin("partitions")  p == Prop("parts", m)  r == Record(handle, m)
           y == WithLinux(handle[m + 1], linux)  e == << End >>  bp == << b, p >>
<1>1. PICK f : EndToEnd(f, parts, handle, linux) /\ Laid(x, parts, handle, linux, f[m])
  BY ChildrenLoop
<1> DEFINE L(h) == Len(f[h])  z == f[m]  h1 == bp \o r  h2 == h1 \o y  h3 == h2 \o z  C == m + 2 + X
           a == [i \in 1 .. m + 1 |-> C + 1 + L(i - 1)]
<1>2. m \in Nat /\ X \in 1 .. 2 /\ W \in 6 .. 7 /\ (linux => X = 2) BY WidthNat
<1>3. x = h3 \o e BY <1>1 DEF Laid
<1>4. IsList(bp) /\ Len(bp) = 2 /\ bp[1] = b /\ bp[2] = p
  <2> DEFINE S == {b, p}
  <2> HIDE DEF b, p
  <2>1. bp \in Seq(S) /\ Len(bp) = 2 /\ bp[1] = b /\ bp[2] = p OBVIOUS
  <2> HIDE DEF bp, S
  <2> QED BY <2>1, ListIs
<1>5. IsList(r) /\ Len(r) = m /\ \A i \in 1 .. m : r[i] = PartProp(i - 1, handle[i])
  <2>1. r = [i \in 1 .. m |-> r[i]] /\ \A i \in 1 .. m : r[i] = PartProp(i - 1, handle[i]) BY DEF Record
  <2> HIDE DEF r
  <2> QED BY <1>2, <2>1, FunctionList
<1>6. IsList(y) /\ Len(y) = X /\ PhandlesAt(y, 1, handle[m + 1], linux) BY WithLinuxIs
<1>7. /\ IsList(z) /\ L(0) = 0 /\ \A i \in 0 .. m : L(i) \in Nat
      /\ \A i \in 1 .. m : L(i) = L(i - 1) + W
      /\ \A i \in 1 .. m : PartAt(z, L(i - 1) + 1, parts[i], handle[i], linux)
  <2>1. m = Len(parts) /\ m \in Nat BY <1>2
  <2> HIDE DEF m
  <2>2. ChildrenAt(f, m, parts, handle, linux) BY <1>1, <2>1, ChildrenLaid
  <2> QED BY <2>2 DEF ChildrenAt
<1>8. IsList(e) /\ Len(e) = 1 /\ e[1] = End BY Alone
<1> HIDE DEF m, X, W, b, p, r, y, e, bp, z, L
<1>9. IsList(h1) /\ Len(h1) = 2 + m
  /\ (\A k \in 1 .. 2 : h1[k] = bp[k]) /\ (\A k \in 1 .. m : h1[k + 2] = r[k])
  <2>1. IsList(bp) /\ IsList(r) BY <1>4, <1>5
  <2>2. /\ IsList(bp \o r) /\ Len(bp \o r) = Len(bp) + Len(r)
        /\ \A k \in 1 .. Len(bp) : (bp \o r)[k] = bp[k]
        /\ \A k \in 1 .. Len(r) : (bp \o r)[k + Len(bp)] = r[k]
    BY <2>1, Joined
  <2> QED BY <1>4, <1>5, <2>2
<1> HIDE DEF h1
<1>10. IsList(h2) /\ Len(h2) = C /\ C \in Nat
  /\ (\A k \in 1 .. 2 + m : h2[k] = h1[k]) /\ (\A k \in 1 .. X : h2[k + (2 + m)] = y[k])
  <2>1. IsList(h1) /\ IsList(y) BY <1>6, <1>9
  <2>2. /\ IsList(h1 \o y) /\ Len(h1 \o y) = Len(h1) + Len(y)
        /\ \A k \in 1 .. Len(h1) : (h1 \o y)[k] = h1[k]
        /\ \A k \in 1 .. Len(y) : (h1 \o y)[k + Len(h1)] = y[k]
    BY <2>1, Joined
  <2> QED BY <1>2, <1>6, <1>9, <2>2
<1> HIDE DEF h2
<1>11. IsList(h3) /\ Len(z) \in Nat /\ Len(h3) = C + Len(z)
  /\ (\A k \in 1 .. C : h3[k] = h2[k]) /\ (\A k \in 1 .. Len(z) : h3[k + C] = z[k])
  <2>1. IsList(h2) /\ IsList(z) BY <1>7, <1>10
  <2>2. /\ IsList(h2 \o z) /\ Len(h2 \o z) = Len(h2) + Len(z) /\ Len(z) \in Nat
        /\ \A k \in 1 .. Len(h2) : (h2 \o z)[k] = h2[k]
        /\ \A k \in 1 .. Len(z) : (h2 \o z)[k + Len(h2)] = z[k]
    BY <2>1, Joined
  <2> QED BY <1>10, <2>2
<1> HIDE DEF h3
<1>C. C \in Nat /\ Len(z) \in Nat BY <1>10, <1>11
<1>12. IsList(x) /\ Len(x) = Len(h3) + 1
  /\ (\A k \in 1 .. Len(h3) : x[k] = h3[k]) /\ x[1 + Len(h3)] = End
  <2>1. IsList(h3) /\ IsList(e) BY <1>8, <1>11
  <2>2. /\ IsList(h3 \o e) /\ Len(h3 \o e) = Len(h3) + Len(e)
        /\ \A k \in 1 .. Len(h3) : (h3 \o e)[k] = h3[k]
        /\ \A k \in 1 .. Len(e) : (h3 \o e)[k + Len(h3)] = e[k]
    BY <2>1, Joined
  <2>3. 1 \in 1 .. Len(e) BY <1>8
  <2>4. (h3 \o e)[1 + Len(h3)] = e[1] BY <2>2, <2>3
  <2> QED BY <1>3, <1>8, <2>2, <2>4
<1>13. \A k \in 1 .. C : x[k] = h2[k]
  <2>1. \A k \in 1 .. C : k \in 1 .. Len(h3) BY <1>10, <1>11
  <2> QED BY <1>11, <1>12, <2>1
<1>14. \A k \in 1 .. 2 + m : x[k] = h1[k]
  <2>1. \A k \in 1 .. 2 + m : k \in 1 .. C BY <1>2, <1>10
  <2> QED BY <1>10, <1>13, <2>1
<1>15. HeadAt(x, 1, m, handle, linux)
  <2>1. x[1] = b /\ x[1 + 1] = p
    <3>1. 1 \in 1 .. 2 /\ 2 \in 1 .. 2 /\ 1 \in 1 .. 2 + m /\ 2 \in 1 .. 2 + m /\ 1 + 1 = 2 BY <1>2
    <3> QED BY <1>4, <1>9, <1>14, <3>1
  <2>2. ASSUME NEW i \in 1 .. m PROVE x[1 + 1 + i] = PartProp(i - 1, handle[i])
    <3>1. 1 + 1 + i = i + 2 /\ i + 2 \in 1 .. 2 + m BY <1>2
    <3>2. x[i + 2] = h1[i + 2] BY <1>14, <3>1
    <3>3. h1[i + 2] = r[i] BY <1>9
    <3> QED BY <1>5, <3>1, <3>2, <3>3
  <2>3. PhandlesAt(x, 1 + m + 2, handle[m + 1], linux)
    <3> DEFINE q == 2 + m
    <3>1. \A k \in 1 .. X : k + q \in 1 .. C BY <1>2, <1>10
    <3>2. \A k \in 1 .. X : x[k + q] = y[k] BY <1>10, <1>13, <3>1
    <3>3. 1 + m + 2 = 1 + q /\ (1 + m + 2) + 1 = 2 + q /\ 1 \in 1 .. X /\ 1 + 1 = 2 BY <1>2
    <3> HIDE DEF q
    <3>4. x[1 + m + 2] = y[1] BY <3>2, <3>3
    <3>5. ASSUME linux PROVE x[(1 + m + 2) + 1] = y[2]
      <4>1. X = 2 BY <1>2, <3>5
      <4>2. 2 \in 1 .. X BY <4>1
      <4> QED BY <3>2, <3>3, <4>2
    <3> QED BY <1>6, <3>3, <3>4, <3>5 DEF PhandlesAt
  <2> QED BY <2>1, <2>2, <2>3 DEF HeadAt, b, p
<1>16. \A i \in 1 .. m : i \in 1 .. m + 1 /\ i + 1 \in 1 .. m + 1 /\ i - 1 \in 0 .. m /\ i \in 0 .. m
         /\ (i + 1) - 1 = i
  BY <1>2
<1>17. /\ \A i \in 1 .. m + 1 : a[i] = C + 1 + L(i - 1) /\ i - 1 \in 0 .. m
       /\ a \in [1 .. m + 1 -> Nat \ {0}]
  <2>1. \A i \in 1 .. m + 1 : i - 1 \in 0 .. m BY <1>2
  <2>2. \A i \in 1 .. m + 1 : C + 1 + L(i - 1) \in Nat \ {0}
    <3> SUFFICES ASSUME NEW i \in 1 .. m + 1 PROVE C + 1 + L(i - 1) \in Nat \ {0} OBVIOUS
    <3>1. L(i - 1) \in Nat BY <1>7, <2>1
    <3> HIDE DEF C
    <3> QED BY <1>C, <3>1
  <2> HIDE DEF C
  <2> QED BY <2>1, <2>2
<1>18. Starts(a, m, linux, 1 + m + 2 + X)
  <2>1. a[1] = 1 + m + 2 + X
    <3>1. 1 \in 1 .. m + 1 /\ 1 - 1 = 0 BY <1>2
    <3>2. a[1] = C + 1 + 0 BY <1>7, <1>17, <3>1
    <3> HIDE DEF a
    <3> QED BY <1>2, <3>2
  <2>2. ASSUME NEW i \in 1 .. m PROVE a[i + 1] = a[i] + W
    <3>1. a[i + 1] = C + 1 + L(i) /\ a[i] = C + 1 + L(i - 1) BY <1>16, <1>17
    <3>2. L(i) = L(i - 1) + W /\ L(i - 1) \in Nat BY <1>7, <1>16
    <3> HIDE DEF a, C
    <3> QED BY <1>2, <1>C, <3>1, <3>2
  <2> HIDE DEF a
  <2> QED BY <1>17, <2>1, <2>2 DEF Starts, W
<1> HIDE DEF a
<1>19. ASSUME NEW i \in 1 .. m PROVE PartAt(x, a[i], parts[i], handle[i], linux)
  <2> DEFINE c == L(i - 1) + 1
  <2>1. /\ L(i - 1) \in Nat /\ L(i) = L(i - 1) + W /\ a[i] = C + 1 + L(i - 1)
        /\ PartAt(z, c, parts[i], handle[i], linux)
    BY <1>7, <1>16, <1>17
  <2>2. L(i) <= Len(z)
    <3> DEFINE T == {h \in 0 .. m : h >= i => L(i) <= L(h)}
    <3>1. 0 \in T BY <1>2
    <3>2. ASSUME NEW h \in 1 .. m, h - 1 \in T PROVE h \in T
      <4>1. L(h) = L(h - 1) + W /\ L(h - 1) \in Nat /\ L(h) \in Nat
              /\ L(i) \in Nat
        BY <1>7, <1>16
      <4>2. CASE h > i BY <1>2, <3>2, <4>1, <4>2
      <4>3. CASE h <= i BY <4>1, <4>3
      <4> QED BY <4>2, <4>3
    <3>3. \A h \in 0 .. m : h \in T
      <4> HIDE DEF T
      <4> QED BY <1>2, <3>1, <3>2, Induction
    <3>4. m \in 0 .. m /\ m >= i BY <1>2
    <3> QED BY <3>3, <3>4 DEF z, L
  <2>3. c \in Nat /\ 1 <= c /\ c + (W - 1) <= Len(z) /\ a[i] = c + C
    <3> HIDE DEF C
    <3> QED BY <1>2, <1>C, <2>1, <2>2
  <2> HIDE DEF c
  <2>4. Shifted(z, x, c, c + (W - 1), C)
    <3>1. ASSUME NEW k \in c .. c + (W - 1) PROVE x[k + C] = z[k]
      <4> HIDE DEF C
      <4>1. k \in 1 .. Len(z) /\ k + C \in 1 .. Len(h3) BY <1>2, <1>10, <1>11, <2>3
      <4> QED BY <1>11, <1>12, <4>1
    <3> QED BY <3>1 DEF Shifted
  <2>5. C \in Nat BY <1>10
  <2> HIDE DEF C
  <2> QED BY <2>1, <2>3, <2>4, <2>5, PartMoved DEF W
<1>20. a[m + 1] = Len(x) /\ x[Len(x)] = End
  <2>1. m + 1 \in 1 .. m + 1 /\ (m + 1) - 1 = m BY <1>2
  <2>2. a[m + 1] = C + 1 + Len(z) BY <1>17, <2>1 DEF z, L
  <2> HIDE DEF C
  <2> QED BY <1>10, <1>11, <1>12, <2>2
<1>21. NodeAt(x, 1, parts, handle, linux, a) BY <1>15, <1>18, <1>19, <1>20 DEF NodeAt, m, X
<1> QED BY <1>20, <1>21 DEF m

(* What Starts says, one by one                                            *)
LEMMA StartsAre ==
  ASSUME NEW m \in Nat, NEW linux, NEW a, NEW first, Starts(a, m, linux, first)
  PROVE  /\ \A i \in 1 .. m + 1 : a[i] \in Nat \ {0}
         /\ a[1] = first /\ \A i \in 1 .. m : a[i + 1] = a[i] + Width(linux)
BY DEF Starts

(* Each child ends before the next begins ...                              *)
LEMMA StartsOrder ==
  ASSUME NEW m \in Nat, NEW linux, NEW a, NEW first, Starts(a, m, linux, first)
  PROVE  \A i \in 1 .. m : \A j \in i + 1 .. m + 1 : a[i] + Width(linux) <= a[j]
<1> DEFINE W == Width(linux)
           T == {j \in 0 .. m : \A i \in 1 .. j : a[i] + W <= a[j + 1]}
<1>1. W \in 6 .. 7 BY WidthNat
<1>2. /\ \A i \in 1 .. m + 1 : a[i] \in Nat
      /\ \A i \in 1 .. m : a[i + 1] = a[i] + W
  BY StartsAre
<1> HIDE DEF W
<1>3. 0 \in T OBVIOUS
<1>4. ASSUME NEW j \in 1 .. m, j - 1 \in T PROVE j \in T
  <2>1. \A i \in 1 .. j - 1 : a[i] + W <= a[j]
    <3>1. (j - 1) + 1 = j OBVIOUS
    <3> QED BY <1>4, <3>1
  <2>2. /\ a[j + 1] = a[j] + W /\ a[j] \in Nat /\ j \in 1 .. m + 1
        /\ \A i \in 1 .. j : a[i] \in Nat
    BY <1>2
  <2>3. ASSUME NEW i \in 1 .. j PROVE a[i] + W <= a[j + 1]
    <3>1. i = j \/ i \in 1 .. j - 1 OBVIOUS
    <3> QED BY <1>1, <2>1, <2>2, <3>1
  <2> QED BY <2>3
<1>5. \A j \in 0 .. m : j \in T
  <2> HIDE DEF T
  <2> QED BY <1>3, <1>4, Induction
<1> SUFFICES ASSUME NEW i \in 1 .. m, NEW j \in i + 1 .. m + 1 PROVE a[i] + W <= a[j] BY DEF W
<1>6. j - 1 \in 0 .. m /\ i \in 1 .. j - 1 /\ (j - 1) + 1 = j OBVIOUS
<1>7. j - 1 \in T BY <1>5, <1>6
<1> QED BY <1>6, <1>7

(* ... and there is nothing between them.                                  *)
LEMMA StartsCover ==
  ASSUME NEW m \in Nat, NEW linux, NEW a, NEW first, Starts(a, m, linux, first), first \in Nat,
         NEW k \in Nat, first <= k, k < a[m + 1]
  PROVE  \E i \in 1 .. m : k \in a[i] .. a[i] + (Width(linux) - 1)
<1> DEFINE W == Width(linux)
           T == {j \in 0 .. m : k < a[j + 1] => \E i \in 1 .. j : k \in a[i] .. a[i] + (W - 1)}
<1>1. W \in 6 .. 7 BY WidthNat
<1>2. /\ \A i \in 1 .. m + 1 : a[i] \in Nat
      /\ \A i \in 1 .. m : a[i + 1] = a[i] + W
      /\ a[1] = first
  BY StartsAre
<1> HIDE DEF W
<1>3. 0 \in T
  <2>1. ~(k < a[0 + 1]) BY <1>2
  <2> QED BY <2>1
<1>4. ASSUME NEW j \in 1 .. m, j - 1 \in T PROVE j \in T
  <2>1. (j - 1) + 1 = j /\ j \in 1 .. m + 1 /\ a[j] \in Nat /\ a[j + 1] = a[j] + W BY <1>2
  <2>2. k < a[j] => \E i \in 1 .. j - 1 : k \in a[i] .. a[i] + (W - 1) BY <1>4, <2>1
  <2> SUFFICES ASSUME k < a[j + 1] PROVE \E i \in 1 .. j : k \in a[i] .. a[i] + (W - 1) OBVIOUS
  <2>3. CASE k < a[j]
    <3>1. PICK i \in 1 .. j - 1 : k \in a[i] .. a[i] + (W - 1) BY <2>2, <2>3
    <3>2. i \in 1 .. j OBVIOUS
    <3> QED BY <3>1, <3>2
  <2>4. CASE k >= a[j]
    <3>1. k \in a[j] .. a[j] + (W - 1) BY <1>1, <2>1, <2>4
    <3>2. j \in 1 .. j OBVIOUS
    <3> QED BY <3>1, <3>2
  <2> QED BY <2>1, <2>3, <2>4
<1>5. \A j \in 0 .. m : j \in T
  <2> HIDE DEF T
  <2> QED BY <1>3, <1>4, Induction
<1>6. m \in 0 .. m OBVIOUS
<1>7. m \in T BY <1>5, <1>6
<1> QED BY <1>7 DEF W

(* The tokens of a node that stands further on in another list             *)
LEMMA NodeMoved ==
  ASSUME NEW x, NEW parts, NEW handle, NEW linux, Len(parts) \in Nat, NEW a,
         NodeAt(x, 1, parts, handle, linux, a), NEW L \in Nat, a[Len(parts) + 1] = L,
         NEW u, NEW d \in Nat, Shifted(x, u, 1, L, d), NEW n, n = d + 1
  PROVE  \E b : NodeAt(u, n, parts, handle, linux, b) /\ b[Len(parts) + 1] = L + d
<1> DEFINE m == Len(parts)  X == Extra(linux)  W == Width(linux)
           b == [i \in 1 .. m + 1 |-> a[i] + d]  one == 1
<1>1. /\ HeadAt(x, one, m, handle, linux) /\ Starts(a, m, linux, one + m + 2 + X)
      /\ \A i \in 1 .. m : PartAt(x, a[i], parts[i], handle[i], linux)
      /\ x[a[m + 1]] = End
  BY DEF NodeAt
<1>2. m \in Nat /\ X \in 1 .. 2 /\ W \in 6 .. 7 /\ (linux => X = 2) BY WidthNat
<1>3. \A k \in 1 .. L : u[k + d] = x[k] BY DEF Shifted
<1>4. a[m + 1] = L OBVIOUS
<1> HIDE DEF m
<1>5. /\ \A i \in 1 .. m + 1 : a[i] \in Nat \ {0}
      /\ a[1] = one + m + 2 + X /\ \A i \in 1 .. m : a[i + 1] = a[i] + W
  BY <1>1, <1>2, StartsAre
<1>6. \A i \in 1 .. m : a[i] + W <= L
  <2>1. \A i \in 1 .. m : m + 1 \in i + 1 .. m + 1 BY <1>2
  <2>2. \A i \in 1 .. m : a[i] + W <= a[m + 1] BY <1>1, <1>2, <2>1, StartsOrder
  <2> QED BY <1>4, <2>2
<1> HIDE DEF X, W
<1>7. m + 3 + X <= L
  <2>1. CASE m = 0
    <3>1. m + 1 = 1 BY <2>1
    <3> QED BY <1>2, <1>4, <1>5, <3>1
  <2>2. CASE m # 0
    <3>1. 1 \in 1 .. m /\ 1 \in 1 .. m + 1 BY <1>2, <2>2
    <3>2. a[1] + W <= L /\ a[1] \in Nat BY <1>5, <1>6, <3>1
    <3> QED BY <1>2, <1>5, <3>2
  <2> QED BY <2>1, <2>2
<1>8. HeadAt(u, n, m, handle, linux)
  <2>1. /\ x[1] = Begin("partitions") /\ x[2] = Prop("parts", m)
        /\ \A i \in 1 .. m : x[i + 2] = PartProp(i - 1, handle[i])
        /\ x[m + 3] = Prop("phandle", handle[m + 1])
        /\ (linux => x[m + 4] = Prop(Linux, handle[m + 1]))
    <3>1. one + 1 = 2 /\ one + m + 2 = m + 3 /\ (one + m + 2) + 1 = m + 4 BY <1>2
    <3>2. \A i \in 1 .. m : one + 1 + i = i + 2 OBVIOUS
    <3> QED BY <1>1, <3>1, <3>2 DEF HeadAt, PhandlesAt
  <2>2. u[n] = x[1] /\ u[n + 1] = x[2] /\ u[n + m + 2] = x[m + 3]
    <3>1. /\ 1 \in 1 .. L /\ 1 + d = n /\ 2 \in 1 .. L /\ 2 + d = n + 1
          /\ m + 3 \in 1 .. L /\ (m + 3) + d = n + m + 2
      BY <1>2, <1>7
    <3>2. u[1 + d] = x[1] /\ u[2 + d] = x[2] BY <1>3, <3>1
    <3>3. u[(m + 3) + d] = x[m + 3] BY <1>3, <3>1
    <3> QED BY <3>1, <3>2, <3>3
  <2>3. ASSUME linux PROVE u[(n + m + 2) + 1] = x[m + 4]
    <3>1. X = 2 BY <1>2, <2>3
    <3>2. m + 4 \in 1 .. L /\ (m + 4) + d = (n + m + 2) + 1 BY <1>2, <1>7, <3>1
    <3>3. u[(m + 4) + d] = x[m + 4] BY <1>3, <3>2
    <3> QED BY <3>2, <3>3
  <2>4. ASSUME NEW i \in 1 .. m PROVE u[n + 1 + i] = x[i + 2]
    <3>1. i + 2 \in 1 .. L /\ (i + 2) + d = n + 1 + i BY <1>2, <1>7
    <3>2. u[(i + 2) + d] = x[i + 2] BY <1>3, <3>1
    <3> QED BY <3>1, <3>2
  <2> QED BY <2>1, <2>2, <2>3, <2>4 DEF HeadAt, PhandlesAt
<1>9. \A i \in 1 .. m + 1 : b[i] = a[i] + d /\ b[i] \in Nat \ {0} BY <1>5
<1>10. Starts(b, m, linux, n + m + 2 + X)
  <2>1. b \in [1 .. m + 1 -> Nat \ {0}] BY <1>5
  <2> HIDE DEF b
  <2>2. b[1] = n + m + 2 + X
    <3>1. 1 \in 1 .. m + 1 BY <1>2
    <3> QED BY <1>2, <1>5, <1>9, <3>1
  <2>3. ASSUME NEW i \in 1 .. m PROVE b[i + 1] = b[i] + W
    <3>1. i \in 1 .. m + 1 /\ i + 1 \in 1 .. m + 1 BY <1>2
    <3>2. b[i + 1] = a[i + 1] + d /\ b[i] = a[i] + d /\ a[i + 1] = a[i] + W /\ a[i] \in Nat
      BY <1>5, <1>9, <3>1
    <3> QED BY <1>2, <3>2
  <2> QED BY <2>1, <2>2, <2>3 DEF Starts, W
<1> HIDE DEF b
<1>11. ASSUME NEW i \in 1 .. m PROVE PartAt(u, b[i], parts[i], handle[i], linux)
  <2> DEFINE c == a[i]
  <2>1. c \in Nat \ {0} /\ c + W <= L /\ b[i] = c + d
    <3>1. i \in 1 .. m + 1 BY <1>2
    <3> QED BY <1>5, <1>6, <1>9, <3>1
  <2>2. PartAt(x, c, parts[i], handle[i], linux) BY <1>1
  <2> HIDE DEF c
  <2>3. Shifted(x, u, c, c + (W - 1), d)
    <3>1. \A k \in c .. c + (W - 1) : k \in 1 .. L BY <1>2, <2>1
    <3> QED BY <1>3, <3>1 DEF Shifted
  <2> QED BY <2>1, <2>2, <2>3, PartMoved DEF W
<1>12. b[m + 1] = L + d /\ u[b[m + 1]] = End
  <2>1. m + 1 \in 1 .. m + 1 /\ L \in 1 .. L BY <1>2, <1>7
  <2>2. b[m + 1] = L + d BY <1>4, <1>9, <2>1
  <2> QED BY <1>1, <1>3, <1>4, <2>1, <2>2
<1>13. NodeAt(u, n, parts, handle, linux, b) BY <1>8, <1>10, <1>11, <1>12 DEF NodeAt, m, X
<1> QED BY <1>12, <1>13 DEF m

(* What is in the token j after the one a child begins with                *)
Field(token, j, part, v, linux) ==
  /\ token.t = "prop"
  /\ \/ j = 1 /\ token.name = "pname" /\ token.val = 0 /\ token.text = part.name
     \/ j = 2 /\ token.name = "size" /\ token.id = 0 /\ token.val = part.size
     \/ j = 3 /\ token.name = "mask" /\ token.id = 0 /\ token.val = part.mask
     \/ j = 4 /\ token.name = "phandle" /\ token.id = 0 /\ token.val = v
     \/ j = 5 /\ linux /\ token.name = Linux /\ token.id = 0 /\ token.val = v

(* The tokens of a child are a BEGIN_NODE, properties and an END_NODE.     *)
LEMMA PartFields ==
  ASSUME NEW u, NEW c \in Nat, NEW part, NEW v, NEW linux, PartAt(u, c, part, v, linux)
  PROVE  /\ u[c].t = "begin" /\ u[c].name = part.name
         /\ u[c + (Width(linux) - 1)].t = "end"
         /\ \A j \in 1 .. Width(linux) - 2 : Field(u[c + j], j, part, v, linux)
<1>1. u[c].t = "begin" /\ u[c].name = part.name BY TokenFields DEF PartAt
<1>2. u[c + (Width(linux) - 1)].t = "end" BY TokenFields DEF PartAt
<1>3. Field(u[c + 1], 1, part, v, linux)
  <2>1. u[c + 1] = Pname(part.name) BY DEF PartAt
  <2> QED BY <2>1, TokenFields DEF Field
<1>4. Field(u[c + 2], 2, part, v, linux)
  <2>1. u[c + 2] = Prop("size", part.size) BY DEF PartAt
  <2> QED BY <2>1, TokenFields DEF Field
<1>5. Field(u[c + 3], 3, part, v, linux)
  <2>1. u[c + 3] = Prop("mask", part.mask) BY DEF PartAt
  <2> QED BY <2>1, TokenFields DEF Field
<1>6. Field(u[c + 4], 4, part, v, linux)
  <2>1. u[c + 4] = Prop("phandle", v) BY DEF PartAt, PhandlesAt
  <2> QED BY <2>1, TokenFields DEF Field
<1>7. linux => Field(u[c + 5], 5, part, v, linux)
  <2> SUFFICES ASSUME linux PROVE Field(u[c + 5], 5, part, v, linux) OBVIOUS
  <2>1. u[(c + 4) + 1] = Prop(Linux, v) BY DEF PartAt, PhandlesAt
  <2>2. (c + 4) + 1 = c + 5 OBVIOUS
  <2> DEFINE q == Prop(Linux, v)
  <2>3. u[c + 5] = q BY <2>1, <2>2
  <2>4. q.t = "prop" /\ q.name = Linux /\ q.id = 0 /\ q.val = v BY TokenFields
  <2> HIDE DEF q
  <2>5. u[c + 5].t = "prop" /\ u[c + 5].name = Linux /\ u[c + 5].id = 0 /\ u[c + 5].val = v
    BY <2>3, <2>4
  <2> QED BY <2>5 DEF Field
<1>8. ASSUME NEW j \in 1 .. Width(linux) - 2 PROVE j = 1 \/ j = 2 \/ j = 3 \/ j = 4 \/ (j = 5 /\ linux)
  <2>1. Width(linux) = 5 + Extra(linux) /\ Extra(linux) \in 1 .. 2 BY WidthNat
  <2>2. j \in 1 .. 5 BY <2>1
  <2>3. ASSUME j = 5 PROVE linux
    <3>1. Extra(linux) # 1 BY <2>1, <2>3
    <3> QED BY <3>1 DEF Extra
  <2> QED BY <2>2, <2>3
<1>9. ASSUME NEW j \in 1 .. Width(linux) - 2 PROVE Field(u[c + j], j, part, v, linux)
  <2>1. j = 1 \/ j = 2 \/ j = 3 \/ j = 4 \/ (j = 5 /\ linux) BY <1>8
  <2> QED BY <1>3, <1>4, <1>5, <1>6, <1>7, <2>1
<1> QED BY <1>1, <1>2, <1>9

(* They are a node.                                                        *)
LEMMA PartNode ==
  ASSUME NEW u, Len(u) \in Nat, NEW c \in Nat \ {0}, NEW part, NEW v, NEW linux,
         PartAt(u, c, part, v, linux), NEW d, d = c + (Width(linux) - 1), d <= Len(u)
  PROVE  Node(u, c, d) /\ \A k \in c .. d - 1 : Level(u, k) = Level(u, c)
<1> DEFINE W == Width(linux)
<1>1. W \in 6 .. 7 BY WidthNat
<1>2. /\ u[c].t = "begin" /\ u[d].t = "end"
      /\ \A j \in 1 .. W - 2 : Field(u[c + j], j, part, v, linux)
  <2>1. /\ u[c].t = "begin" /\ u[c + (W - 1)].t = "end"
        /\ \A j \in 1 .. W - 2 : Field(u[c + j], j, part, v, linux)
    BY PartFields
  <2>2. d = c + (W - 1) OBVIOUS
  <2> HIDE DEF W
  <2> QED BY <2>1, <2>2
<1> HIDE DEF W
<1>3. d \in Nat /\ d = c + (W - 1) /\ c < d BY <1>1 DEF W
<1>4. ASSUME NEW k \in c + 1 .. d - 1 PROVE u[k].t = "prop"
  <2>1. k - c \in 1 .. W - 2 /\ c + (k - c) = k BY <1>1, <1>3
  <2> QED BY <1>2, <2>1 DEF Field
<1>5. \A k \in c .. d - 1 : Level(u, k) = Level(u, c)
  <2> DEFINE b == d - 1
  <2>1. b \in Nat /\ c <= b /\ \A k \in c + 1 .. b : u[k].t = "prop" BY <1>3, <1>4
  <2> HIDE DEF b
  <2>2. \A k \in c .. b : Level(u, k) = Level(u, c) BY <2>1, PropsLevel
  <2> QED BY <2>2 DEF b
<1>6. Level(u, c) = Level(u, c - 1) + 1 /\ Level(u, c - 1) \in Int /\ Level(u, c) \in Int
  BY <1>2, LevelStep
<1>7. Level(u, d) = Level(u, d - 1) - 1
  <2>1. d \in Nat \ {0} /\ Level(u, d - 1) \in Int BY <1>3, LevelStep
  <2> QED BY <1>2, <2>1, LevelStep
<1>8. d - 1 \in c .. d - 1 BY <1>3
<1>9. Level(u, d) = Level(u, c - 1) BY <1>5, <1>6, <1>7, <1>8
<1>10. \A k \in c .. d - 1 : Level(u, k) > Level(u, c - 1) BY <1>5, <1>6
<1>11. Walked(u, c, d)
  <2>1. \A k \in c .. d : k = c \/ k = d \/ k \in c + 1 .. d - 1 BY <1>3
  <2> QED BY <1>2, <1>4, <2>1 DEF Walked
<1> QED BY <1>2, <1>3, <1>5, <1>9, <1>10, <1>11 DEF Node

(* What is in the token j after the one the node begins with               *)
HeadField(token, j, m, handle, linux) ==
  /\ token.t = "prop"
  /\ \/ j = 1 /\ token.name = "parts" /\ token.id = 0 /\ token.val = m
     \/ \E i \in 1 .. m : /\ j = i + 1 /\ token.name = "part-"
                         /\ token.id = i - 1 /\ token.val = handle[i]
     \/ j = m + 2 /\ token.name = "phandle" /\ token.id = 0 /\ token.val = handle[m + 1]
     \/ j = m + 3 /\ linux /\ token.name = Linux /\ token.id = 0 /\ token.val = handle[m + 1]

(* The node begins with properties.                                        *)
LEMMA HeadFields ==
  ASSUME NEW u, NEW n \in Nat, NEW m \in Nat, NEW handle, NEW linux, HeadAt(u, n, m, handle, linux)
  PROVE  \A j \in 1 .. m + 1 + Extra(linux) : HeadField(u[n + j], j, m, handle, linux)
<1>1. Extra(linux) \in 1 .. 2 BY WidthNat
<1> SUFFICES ASSUME NEW j \in 1 .. m + 1 + Extra(linux)
             PROVE  HeadField(u[n + j], j, m, handle, linux)
  OBVIOUS
<1>2. CASE j = 1
  <2>1. u[n + 1] = Prop("parts", m) BY DEF HeadAt
  <2>2. u[n + 1].t = "prop" /\ u[n + 1].name = "parts" /\ u[n + 1].id = 0 /\ u[n + 1].val = m
    BY <2>1, TokenFields
  <2> QED BY <1>2, <2>2 DEF HeadField
<1>3. CASE j \in 2 .. m + 1
  <2> DEFINE i == j - 1
  <2>1. i \in 1 .. m /\ n + 1 + i = n + j /\ j = i + 1 BY <1>3
  <2> HIDE DEF i
  <2>2. u[n + j] = PartProp(i - 1, handle[i]) BY <2>1 DEF HeadAt
  <2>3. /\ u[n + j].t = "prop" /\ u[n + j].name = "part-"
        /\ u[n + j].id = i - 1 /\ u[n + j].val = handle[i]
    BY <2>2, TokenFields
  <2> QED BY <2>1, <2>3 DEF HeadField
<1>4. CASE j = m + 2
  <2>1. u[n + m + 2] = Prop("phandle", handle[m + 1]) /\ n + m + 2 = n + j
    BY <1>4 DEF HeadAt, PhandlesAt
  <2>2. /\ u[n + j].t = "prop" /\ u[n + j].name = "phandle"
        /\ u[n + j].id = 0 /\ u[n + j].val = handle[m + 1]
    BY <2>1, TokenFields
  <2> QED BY <1>4, <2>2 DEF HeadField
<1>5. CASE j = m + 3
  <2>1. linux
    <3>1. Extra(linux) # 1 BY <1>1, <1>5
    <3> QED BY <3>1 DEF Extra
  <2>2. u[(n + m + 2) + 1] = Prop(Linux, handle[m + 1])
    BY <2>1 DEF HeadAt, PhandlesAt
  <2>3. (n + m + 2) + 1 = n + j BY <1>5
  <2>4. /\ u[n + j].t = "prop" /\ u[n + j].name = Linux
        /\ u[n + j].id = 0 /\ u[n + j].val = handle[m + 1]
    BY <2>2, <2>3, TokenFields
  <2> QED BY <1>5, <2>1, <2>4 DEF HeadField
<1>6. j = 1 \/ j \in 2 .. m + 1 \/ j = m + 2 \/ j = m + 3 BY <1>1
<1> QED BY <1>2, <1>3, <1>4, <1>5, <1>6

(* A list with a new node from n to e                                      *)
Placed(u, n, e, parts, handle, linux, a) ==
  /\ Len(u) \in Nat /\ n \in Nat \ {0} /\ e \in Nat /\ Node(u, n, e) /\ Asked(parts)
  /\ NodeAt(u, n, parts, handle, linux, a) /\ a[Len(parts) + 1] = e
  /\ \A i \in 1 .. Len(parts) + 1 : handle[i] \in Nat \ {0}

(* Whose the tokens of a new node are                                      *)
Parents(u, n, m, linux, a) ==
  /\ \A k \in n + 1 .. a[1] - 1 : Parent(u, k) = n
  /\ \A i \in 1 .. m : /\ Parent(u, a[i]) = n
                       /\ \A k \in a[i] + 1 .. a[i] + (Width(linux) - 1) : Parent(u, k) = a[i]

(* The positions in it, in order                                           *)
Ordered(n, e, m, linux, a) ==
  /\ m \in Nat /\ \A i \in 1 .. m + 1 : a[i] \in Nat \ {0}
  /\ a[1] = n + m + 2 + Extra(linux) /\ a[m + 1] = e
  /\ \A i \in 1 .. m : a[i + 1] = a[i] + Width(linux)
  /\ \A i \in 1 .. m : \A j \in i + 1 .. m + 1 : a[i] + Width(linux) <= a[j]
  /\ \A i \in 1 .. m + 1 : a[1] <= a[i] /\ a[i] <= e
  /\ \A k \in a[1] .. e - 1 : \E i \in 1 .. m : k \in a[i] .. a[i] + (Width(linux) - 1)

(* So they are.                                                            *)
LEMMA PlacedOrdered ==
  ASSUME NEW u, NEW n, NEW e, NEW parts, NEW handle, NEW linux, NEW a,
         Placed(u, n, e, parts, handle, linux, a)
  PROVE  Ordered(n, e, Len(parts), linux, a)
<1> DEFINE m == Len(parts)  first == n + m + 2 + Extra(linux)
<1>1. m \in Nat /\ n \in Nat /\ e \in Nat /\ Starts(a, m, linux, first) /\ a[m + 1] = e
  BY DEF Placed, Asked, NodeAt
<1>2. Extra(linux) \in 1 .. 2 /\ Width(linux) \in 6 .. 7 BY WidthNat
<1>3. first \in Nat BY <1>1, <1>2
<1> HIDE DEF m, first
<1>4. /\ \A i \in 1 .. m + 1 : a[i] \in Nat \ {0}
      /\ a[1] = first /\ \A i \in 1 .. m : a[i + 1] = a[i] + Width(linux)
  BY <1>1, StartsAre
<1>5. \A i \in 1 .. m : \A j \in i + 1 .. m + 1 : a[i] + Width(linux) <= a[j] BY <1>1, StartsOrder
<1>6. ASSUME NEW i \in 1 .. m + 1 PROVE a[1] <= a[i] /\ a[i] <= e
  <2>1. a[1] <= a[i]
    <3>1. CASE i = 1 BY <1>4, <3>1
    <3>2. CASE i # 1
      <4>1. 1 \in 1 .. m /\ i \in 1 + 1 .. m + 1 /\ 1 \in 1 .. m + 1 BY <1>1, <3>2
      <4>2. a[1] + Width(linux) <= a[i] /\ a[1] \in Nat /\ a[i] \in Nat BY <1>4, <1>5, <4>1
      <4> QED BY <1>2, <4>2
    <3> QED BY <3>1, <3>2
  <2>2. a[i] <= e
    <3>1. CASE i = m + 1 BY <1>1, <3>1
    <3>2. CASE i # m + 1
      <4>1. i \in 1 .. m /\ m + 1 \in i + 1 .. m + 1 BY <1>1, <3>2
      <4>2. a[i] + Width(linux) <= a[m + 1] /\ a[i] \in Nat BY <1>4, <1>5, <4>1
      <4> QED BY <1>1, <1>2, <4>2
    <3> QED BY <3>1, <3>2
  <2> QED BY <2>1, <2>2
<1>7. ASSUME NEW k \in a[1] .. e - 1 PROVE \E i \in 1 .. m : k \in a[i] .. a[i] + (Width(linux) - 1)
  <2>1. k \in Nat /\ first <= k /\ k < a[m + 1] BY <1>1, <1>3, <1>4
  <2> QED BY <1>1, <1>3, <2>1, StartsCover
<1> QED BY <1>1, <1>4, <1>5, <1>6, <1>7 DEF Ordered, m, first

(* The children are those of the node, and their properties are theirs.    *)
LEMMA PlacedParents ==
  ASSUME NEW u, NEW n, NEW e, NEW parts, NEW handle, NEW linux, NEW a,
         Placed(u, n, e, parts, handle, linux, a)
  PROVE  Parents(u, n, Len(parts), linux, a)
<1> DEFINE m == Len(parts)  X == Extra(linux)  W == Width(linux)
<1>1. /\ Len(u) \in Nat /\ n \in Nat \ {0} /\ e \in Nat /\ Node(u, n, e) /\ e <= Len(u)
      /\ HeadAt(u, n, m, handle, linux)
      /\ \A i \in 1 .. m : PartAt(u, a[i], parts[i], handle[i], linux)
  BY DEF Placed, NodeAt, Node
<1>2. X \in 1 .. 2 /\ W \in 6 .. 7 /\ (linux => X = 2) /\ (~linux => X = 1) BY WidthNat
<1>3. /\ m \in Nat /\ \A i \in 1 .. m + 1 : a[i] \in Nat \ {0}
      /\ a[1] = n + m + 2 + X /\ a[m + 1] = e
      /\ \A i \in 1 .. m : a[i + 1] = a[i] + W
      /\ \A i \in 1 .. m : \A j \in i + 1 .. m + 1 : a[i] + W <= a[j]
      /\ \A i \in 1 .. m + 1 : a[1] <= a[i] /\ a[i] <= e
  BY PlacedOrdered DEF Ordered
<1> HIDE DEF m, W
<1>4. ASSUME NEW k \in n + 1 .. a[1] - 1 PROVE u[k].t = "prop"
  <2> DEFINE j == k - n
  <2>1. j \in 1 .. m + 1 + X /\ n + j = k
    <3> HIDE DEF X
    <3> QED BY <1>1, <1>2, <1>3
  <2> HIDE DEF j
  <2>2. n \in Nat BY <1>1
  <2>3. HeadField(u[n + j], j, m, handle, linux) BY <1>1, <1>3, <2>1, <2>2, HeadFields
  <2> QED BY <2>1, <2>3 DEF HeadField
<1> HIDE DEF X
<1>5. \A k \in n .. a[1] - 1 : Level(u, k) = Level(u, n)
  <2> DEFINE b == a[1] - 1
  <2>1. b \in Nat /\ n <= b /\ \A k \in n + 1 .. b : u[k].t = "prop" BY <1>1, <1>2, <1>3, <1>4
  <2> HIDE DEF b
  <2>2. \A k \in n .. b : Level(u, k) = Level(u, n) BY <1>1, <2>1, PropsLevel
  <2> QED BY <2>2 DEF b
<1>6. ASSUME NEW i \in 1 .. m
      PROVE  /\ Node(u, a[i], a[i] + (W - 1)) /\ a[i] \in n + 1 .. e /\ a[i] + W <= e
             /\ \A k \in a[i] .. (a[i] + (W - 1)) - 1 : Level(u, k) = Level(u, a[i])
  <2> DEFINE c == a[i]  d == c + (W - 1)
  <2>1. c \in Nat \ {0} /\ a[1] <= c /\ a[1] \in Nat /\ c + W <= e
    <3>1. i \in 1 .. m + 1 /\ m + 1 \in i + 1 .. m + 1 /\ 1 \in 1 .. m + 1 BY <1>3
    <3> QED BY <1>3, <3>1
  <2>2. PartAt(u, c, parts[i], handle[i], linux) BY <1>1
  <2> HIDE DEF c
  <2>3. d <= Len(u) /\ c \in n + 1 .. e BY <1>1, <1>2, <1>3, <2>1
  <2>4. Node(u, c, d) /\ \A k \in c .. d - 1 : Level(u, k) = Level(u, c)
    <3> HIDE DEF d
    <3>1. d = c + (Width(linux) - 1) BY DEF d, W
    <3>2. Len(u) \in Nat BY <1>1
    <3> QED BY <2>1, <2>2, <2>3, <3>1, <3>2, PartNode
  <2> QED BY <2>1, <2>3, <2>4 DEF c
<1>7. \A i \in 1 .. m : Level(u, a[i] - 1) = Level(u, n)
  <2> DEFINE T == {i \in 0 .. m : Level(u, a[i + 1] - 1) = Level(u, n)}
  <2>1. 0 \in T
    <3>1. 0 + 1 = 1 /\ a[1] - 1 \in n .. a[1] - 1 BY <1>1, <1>2, <1>3
    <3> QED BY <1>3, <1>5, <3>1
  <2>2. ASSUME NEW i \in 1 .. m, i - 1 \in T PROVE i \in T
    <3>1. (i - 1) + 1 = i /\ a[i] \in Nat /\ a[i + 1] = a[i] + W BY <1>3
    <3>2. Level(u, a[i] - 1) = Level(u, n) BY <2>2, <3>1
    <3>3. Level(u, a[i] + (W - 1)) = Level(u, a[i] - 1) BY <1>6 DEF Node
    <3>4. a[i + 1] - 1 = a[i] + (W - 1) BY <1>2, <3>1
    <3> QED BY <3>2, <3>3, <3>4
  <2>3. \A i \in 0 .. m : i \in T
    <3> HIDE DEF T
    <3> QED BY <1>3, <2>1, <2>2, Induction
  <2> SUFFICES ASSUME NEW i \in 1 .. m PROVE Level(u, a[i] - 1) = Level(u, n) OBVIOUS
  <2>4. i - 1 \in 0 .. m /\ (i - 1) + 1 = i BY <1>3
  <2>5. i - 1 \in T BY <2>3, <2>4
  <2> QED BY <2>4, <2>5
<1>8. ASSUME NEW k \in n + 1 .. a[1] - 1 PROVE Parent(u, k) = n
  <2>1. k \in n + 1 .. e /\ k - 1 \in n .. a[1] - 1
    <3>1. 1 \in 1 .. m + 1 /\ a[1] <= e /\ a[1] \in Nat BY <1>3
    <3> QED BY <1>1, <3>1
  <2> QED BY <1>1, <1>5, <2>1, ChildLevel
<1>9. ASSUME NEW i \in 1 .. m PROVE Parent(u, a[i]) = n BY <1>1, <1>6, <1>7, ChildLevel
<1>10. ASSUME NEW i \in 1 .. m, NEW k \in a[i] + 1 .. a[i] + (W - 1) PROVE Parent(u, k) = a[i]
  <2>1. k - 1 \in a[i] .. (a[i] + (W - 1)) - 1
    <3>1. a[i] \in Nat
      <4>1. i \in 1 .. m + 1 BY <1>3
      <4> QED BY <1>3, <4>1
    <3> QED BY <1>2, <3>1
  <2>2. Level(u, k - 1) = Level(u, a[i]) /\ Node(u, a[i], a[i] + (W - 1)) BY <1>6, <2>1
  <2> QED BY <2>2, ChildLevel
<1> QED BY <1>8, <1>9, <1>10 DEF Parents, m, W

(* The tokens of the new node: those at its beginning, and of each child   *)
(* the first, the properties and the last                                  *)
Written(u, n, e, parts, handle, linux, a) ==
  LET m == Len(parts)
  IN /\ \A k \in n + 1 .. a[1] - 1 : HeadField(u[k], k - n, m, handle, linux) /\ Parent(u, k) = n
     /\ \A i \in 1 .. m :
          /\ u[a[i]].t = "begin" /\ u[a[i]].name = parts[i].name /\ Parent(u, a[i]) = n
          /\ a[i] \in n + 1 .. e - 1 /\ a[i] + (Width(linux) - 1) \in n + 1 .. e - 1
          /\ \A j \in 1 .. Width(linux) - 2 :
               Field(u[a[i] + j], j, parts[i], handle[i], linux) /\ Parent(u, a[i] + j) = a[i]
          /\ u[a[i] + (Width(linux) - 1)].t = "end" /\ Parent(u, a[i] + (Width(linux) - 1)) = a[i]

(* Where k is among them                                                   *)
Where(k, n, m, linux, a) ==
  \/ k \in n + 1 .. a[1] - 1
  \/ \E i \in 1 .. m : k = a[i]
  \/ \E i \in 1 .. m : \E j \in 1 .. Width(linux) - 2 : k = a[i] + j
  \/ \E i \in 1 .. m : k = a[i] + (Width(linux) - 1)

(* They are all there is.                                                  *)
LEMMA PlacedWritten ==
  ASSUME NEW u, NEW n, NEW e, NEW parts, NEW handle, NEW linux, NEW a,
         Placed(u, n, e, parts, handle, linux, a)
  PROVE  /\ Written(u, n, e, parts, handle, linux, a)
         /\ \A k \in n + 1 .. e - 1 : Where(k, n, Len(parts), linux, a)
<1> DEFINE m == Len(parts)  X == Extra(linux)  W == Width(linux)
<1>1. /\ n \in Nat \ {0} /\ e \in Nat /\ HeadAt(u, n, m, handle, linux)
      /\ \A i \in 1 .. m : PartAt(u, a[i], parts[i], handle[i], linux)
  BY DEF Placed, NodeAt
<1>2. X \in 1 .. 2 /\ W \in 6 .. 7 BY WidthNat
<1>3. /\ m \in Nat /\ \A i \in 1 .. m + 1 : a[i] \in Nat \ {0}
      /\ a[1] = n + m + 2 + X
      /\ \A i \in 1 .. m : \A j \in i + 1 .. m + 1 : a[i] + W <= a[j]
      /\ \A i \in 1 .. m + 1 : a[1] <= a[i] /\ a[i] <= e
      /\ \A k \in a[1] .. e - 1 : \E i \in 1 .. m : k \in a[i] .. a[i] + (W - 1)
      /\ a[m + 1] = e
  BY PlacedOrdered DEF Ordered
<1>4. /\ \A k \in n + 1 .. a[1] - 1 : Parent(u, k) = n
      /\ \A i \in 1 .. m : /\ Parent(u, a[i]) = n
                           /\ \A k \in a[i] + 1 .. a[i] + (W - 1) : Parent(u, k) = a[i]
  BY PlacedParents DEF Parents
<1> HIDE DEF m, W
<1>5. ASSUME NEW k \in n + 1 .. a[1] - 1 PROVE HeadField(u[k], k - n, m, handle, linux)
  <2> DEFINE j == k - n
  <2>1. j \in 1 .. m + 1 + X /\ n + j = k
    <3> HIDE DEF X
    <3> QED BY <1>1, <1>2, <1>3
  <2> HIDE DEF j
  <2>2. n \in Nat BY <1>1
  <2>3. HeadField(u[n + j], j, m, handle, linux) BY <1>1, <1>3, <2>1, <2>2, HeadFields
  <2> QED BY <2>1, <2>3 DEF j
<1> HIDE DEF X
<1>6. ASSUME NEW i \in 1 .. m
      PROVE  /\ u[a[i]].t = "begin" /\ u[a[i]].name = parts[i].name
             /\ u[a[i] + (W - 1)].t = "end"
             /\ \A j \in 1 .. W - 2 : Field(u[a[i] + j], j, parts[i], handle[i], linux)
             /\ a[i] \in n + 1 .. e - 1 /\ a[i] + (W - 1) \in n + 1 .. e - 1
             /\ \A j \in 1 .. W - 1 : Parent(u, a[i] + j) = a[i]
  <2> DEFINE c == a[i]
  <2>1. c \in Nat \ {0} /\ a[1] <= c /\ a[1] \in Nat /\ c + W <= e
    <3>1. i \in 1 .. m + 1 /\ m + 1 \in i + 1 .. m + 1 /\ 1 \in 1 .. m + 1 BY <1>3
    <3> QED BY <1>3, <3>1
  <2>2. PartAt(u, c, parts[i], handle[i], linux) /\ c \in Nat BY <1>1, <2>1
  <2>3. \A k \in c + 1 .. c + (W - 1) : Parent(u, k) = c BY <1>4
  <2> HIDE DEF c
  <2>4. /\ u[c].t = "begin" /\ u[c].name = parts[i].name
        /\ u[c + (W - 1)].t = "end"
        /\ \A j \in 1 .. W - 2 : Field(u[c + j], j, parts[i], handle[i], linux)
    BY <2>2, PartFields DEF W
  <2>5. c \in n + 1 .. e - 1 /\ c + (W - 1) \in n + 1 .. e - 1 BY <1>1, <1>2, <1>3, <2>1
  <2>6. ASSUME NEW j \in 1 .. W - 1 PROVE Parent(u, c + j) = c
    <3>1. c + j \in c + 1 .. c + (W - 1) BY <1>2, <2>1
    <3> QED BY <2>3, <3>1
  <2> QED BY <2>4, <2>5, <2>6 DEF c
<1>7. Written(u, n, e, parts, handle, linux, a)
  <2>1. (\A j \in 1 .. W - 2 : j \in 1 .. W - 1) /\ W - 1 \in 1 .. W - 1 BY <1>2
  <2>2. ASSUME NEW i \in 1 .. m
        PROVE  /\ \A j \in 1 .. W - 2 : Parent(u, a[i] + j) = a[i]
               /\ Parent(u, a[i] + (W - 1)) = a[i]
    BY <1>6, <2>1
  <2> QED BY <1>4, <1>5, <1>6, <2>2 DEF Written, m, W
<1>8. ASSUME NEW k \in n + 1 .. e - 1 PROVE Where(k, n, m, linux, a)
  <2>1. CASE k < a[1]
    <3>1. k \in n + 1 .. a[1] - 1 BY <1>1, <1>2, <1>3, <2>1
    <3> QED BY <3>1 DEF Where
  <2>2. CASE k >= a[1]
    <3>1. k \in a[1] .. e - 1 BY <1>1, <1>2, <1>3, <2>2
    <3>2. PICK i \in 1 .. m : k \in a[i] .. a[i] + (W - 1) BY <1>3, <3>1
    <3> DEFINE j == k - a[i]
    <3>0. a[i] \in Nat
      <4>1. i \in 1 .. m + 1 BY <1>3
      <4> QED BY <1>3, <4>1
    <3>3. j \in 0 .. W - 1 /\ k = a[i] + j BY <1>2, <3>0, <3>2
    <3> HIDE DEF j
    <3>4. j = 0 \/ j \in 1 .. W - 2 \/ j = W - 1 BY <1>2, <3>3
    <3>5. CASE j = 0
      <4>1. k = a[i] BY <3>0, <3>3, <3>5
      <4> QED BY <4>1 DEF Where
    <3> QED BY <3>3, <3>4, <3>5 DEF Where, W
  <2> QED BY <1>1, <1>2, <1>3, <2>1, <2>2
<1> QED BY <1>7, <1>8 DEF m

(* What dts_get_partitions_from_node takes for wrong, and not              *)
LEMMA NotWrong ==
  ASSUME NEW s, NEW n, NEW k
  PROVE  /\ s[k].t = "end" => ~WrongIn(s, n, k)
         /\ (/\ s[k].t = "begin" /\ Parent(s, k) = n
             /\ ~(Cardinality({c \in n + 1 .. k : s[c].t = "begin"}) > MaxParts)) => ~WrongIn(s, n, k)
         /\ (/\ s[k].t = "prop" /\ Parent(s, k) = n /\ s[k].val # Misfit
             /\ \/ s[k].name \in {"parts", "phandle", Linux}
                \/ s[k].name = "part-" /\ ~(s[k].id > MaxParts - 1)) => ~WrongIn(s, n, k)
         /\ (/\ s[k].t = "prop" /\ Parent(s, k) # n /\ s[k].val # Misfit
             /\ \/ s[k].name \in {"size", "mask", "phandle", Linux}
                \/ s[k].name = "pname" /\ s[k].text = s[Parent(s, k)].name) => ~WrongIn(s, n, k)
<1> DEFINE tok == s[k]
           parent == Parent(s, k)
           A == \/ parent # n
                \/ Cardinality({c \in n + 1 .. k : s[c].t = "begin"}) > MaxParts
           B == \/ tok.val = Misfit
                \/ tok.name \notin {"parts", "phandle", Linux, "part-"}
                \/ tok.name = "part-" /\ tok.id > MaxParts - 1
           C == \/ tok.val = Misfit
                \/ tok.name \notin {"pname", "size", "mask", "phandle", Linux}
                \/ tok.name = "pname" /\ tok.text # s[parent].name
<1>1. WrongIn(s, n, k) = CASE tok.t = "begin" -> A
                           [] tok.t = "prop" /\ parent = n -> B
                           [] tok.t = "prop" /\ parent # n -> C
                           [] OTHER -> FALSE
  BY DEF WrongIn, Linux
<1> HIDE DEF tok, parent, A, B, C
<1>2. /\ tok.t = "end" => ~WrongIn(s, n, k)
      /\ (tok.t = "begin" /\ ~A) => ~WrongIn(s, n, k)
      /\ (tok.t = "prop" /\ parent = n /\ ~B) => ~WrongIn(s, n, k)
      /\ (tok.t = "prop" /\ parent # n /\ ~C) => ~WrongIn(s, n, k)
  BY <1>1
<1> USE DEF tok, parent
<1>3. (/\ s[k].t = "begin" /\ Parent(s, k) = n
       /\ ~(Cardinality({c \in n + 1 .. k : s[c].t = "begin"}) > MaxParts)) => ~WrongIn(s, n, k)
  BY <1>2 DEF A
<1>4. (/\ s[k].t = "prop" /\ Parent(s, k) = n /\ s[k].val # Misfit
       /\ \/ s[k].name \in {"parts", "phandle", Linux}
          \/ s[k].name = "part-" /\ ~(s[k].id > MaxParts - 1)) => ~WrongIn(s, n, k)
  <2> SUFFICES ASSUME s[k].t = "prop", Parent(s, k) = n, s[k].val # Misfit,
                      \/ s[k].name \in {"parts", "phandle", Linux}
                      \/ s[k].name = "part-" /\ ~(s[k].id > MaxParts - 1)
               PROVE  ~B
    BY <1>2
  <2>1. s[k].name \in {"parts", "phandle", Linux} => s[k].name # "part-" BY LinuxDiffers
  <2> QED BY <2>1 DEF B
<1>5. (/\ s[k].t = "prop" /\ Parent(s, k) # n /\ s[k].val # Misfit
       /\ \/ s[k].name \in {"size", "mask", "phandle", Linux}
          \/ s[k].name = "pname" /\ s[k].text = s[Parent(s, k)].name) => ~WrongIn(s, n, k)
  <2> SUFFICES ASSUME s[k].t = "prop", Parent(s, k) # n, s[k].val # Misfit,
                      \/ s[k].name \in {"size", "mask", "phandle", Linux}
                      \/ s[k].name = "pname" /\ s[k].text = s[Parent(s, k)].name
               PROVE  ~C
    BY <1>2
  <2>1. s[k].name \in {"size", "mask", "phandle", Linux} => s[k].name # "pname" BY LinuxDiffers
  <2> QED BY <2>1 DEF C
<1>6. s[k].t = "end" => ~WrongIn(s, n, k) BY <1>2
<1> QED BY <1>3, <1>4, <1>5, <1>6

(* The properties of a child, and those of the node                        *)
LEMMA PlacedProps ==
  ASSUME NEW u, NEW n, NEW e, NEW parts, NEW handle, NEW linux, NEW a,
         Placed(u, n, e, parts, handle, linux, a), NEW k \in n + 1 .. e - 1, u[k].t = "prop"
  PROVE  LET m == Len(parts)
         IN /\ \/ Parent(u, k) = n
               \/ \E i \in 1 .. m : Parent(u, k) = a[i]
            /\ Parent(u, k) = n => k \in n + 1 .. a[1] - 1 /\ HeadField(u[k], k - n, m, handle, linux)
            /\ \A i \in 1 .. m : Parent(u, k) = a[i] =>
                 Parent(u, k) # n /\
                 \E j \in 1 .. Width(linux) - 2 : k = a[i] + j /\ Field(u[k], j, parts[i], handle[i], linux)
<1> DEFINE m == Len(parts)
<1>1. Written(u, n, e, parts, handle, linux, a) /\ Where(k, n, m, linux, a) BY PlacedWritten
<1>2. \A i \in 1 .. m : a[i] # n
  <2>1. n \in Nat BY DEF Placed
  <2>2. \A i \in 1 .. m : a[i] \in n + 1 .. e - 1 BY <1>1 DEF Written
  <2> QED BY <2>1, <2>2
<1>3. CASE k \in n + 1 .. a[1] - 1
  <2>1. HeadField(u[k], k - n, m, handle, linux) /\ Parent(u, k) = n BY <1>1, <1>3 DEF Written
  <2> QED BY <1>2, <1>3, <2>1
<1>4. ASSUME NEW i \in 1 .. m, k = a[i] PROVE FALSE BY <1>1, <1>4 DEF Written
<1>5. ASSUME NEW i \in 1 .. m, k = a[i] + (Width(linux) - 1) PROVE FALSE BY <1>1, <1>5 DEF Written
<1>6. ASSUME NEW c \in 1 .. m, NEW j \in 1 .. Width(linux) - 2, k = a[c] + j
      PROVE  /\ Parent(u, k) = a[c] /\ Parent(u, k) # n
             /\ \A i \in 1 .. m : Parent(u, k) = a[i] =>
                  k = a[i] + j /\ Field(u[k], j, parts[i], handle[i], linux)
  <2>1. Parent(u, k) = a[c] BY <1>1, <1>6 DEF Written
  <2>2. ASSUME NEW i \in 1 .. m, Parent(u, k) = a[i]
        PROVE  k = a[i] + j /\ Field(u[k], j, parts[i], handle[i], linux)
    <3>1. k = a[i] + j BY <1>6, <2>1, <2>2
    <3>2. Field(u[a[i] + j], j, parts[i], handle[i], linux) BY <1>1 DEF Written
    <3> QED BY <3>1, <3>2
  <2> QED BY <1>2, <2>1, <2>2
<1> HIDE DEF m
<1>7. \/ k \in n + 1 .. a[1] - 1
      \/ \E c \in 1 .. m : \E j \in 1 .. Width(linux) - 2 : k = a[c] + j
  BY <1>1, <1>4, <1>5 DEF Where
<1>8. CASE \E c \in 1 .. m : \E j \in 1 .. Width(linux) - 2 : k = a[c] + j
  <2>1. PICK c \in 1 .. m : \E j \in 1 .. Width(linux) - 2 : k = a[c] + j BY <1>8
  <2>2. PICK j \in 1 .. Width(linux) - 2 : k = a[c] + j BY <2>1
  <2>3. /\ Parent(u, k) = a[c] /\ Parent(u, k) # n
        /\ \A i \in 1 .. m : Parent(u, k) = a[i] =>
             k = a[i] + j /\ Field(u[k], j, parts[i], handle[i], linux)
    BY <1>6, <2>2
  <2> QED BY <2>3 DEF m
<1> QED BY <1>3, <1>7, <1>8 DEF m

(* Its tokens of the other kinds                                           *)
LEMMA PlacedKinds ==
  ASSUME NEW u, NEW n, NEW e, NEW parts, NEW handle, NEW linux, NEW a,
         Placed(u, n, e, parts, handle, linux, a), NEW k \in n + 1 .. e - 1
  PROVE  /\ u[k].t \in {"begin", "prop", "end"}
         /\ u[k].t = "begin" => \E i \in 1 .. Len(parts) : k = a[i]
         /\ u[k].t = "end" => \E i \in 1 .. Len(parts) : k = a[i] + (Width(linux) - 1)
<1> DEFINE m == Len(parts)
<1>1. Written(u, n, e, parts, handle, linux, a) /\ Where(k, n, m, linux, a) BY PlacedWritten
<1>2. CASE k \in n + 1 .. a[1] - 1
  <2>1. u[k].t = "prop" BY <1>1, <1>2 DEF Written, HeadField
  <2> QED BY <2>1
<1>3. CASE \E i \in 1 .. m : k = a[i]
  <2>1. PICK i \in 1 .. m : k = a[i] BY <1>3
  <2>2. u[k].t = "begin" BY <1>1, <2>1 DEF Written
  <2> QED BY <2>1, <2>2
<1>4. CASE \E i \in 1 .. m : \E j \in 1 .. Width(linux) - 2 : k = a[i] + j
  <2>1. PICK i \in 1 .. m : \E j \in 1 .. Width(linux) - 2 : k = a[i] + j BY <1>4
  <2>2. PICK j \in 1 .. Width(linux) - 2 : k = a[i] + j BY <2>1
  <2>3. Field(u[a[i] + j], j, parts[i], handle[i], linux) BY <1>1 DEF Written
  <2>4. u[k].t = "prop" BY <2>2, <2>3 DEF Field
  <2> QED BY <2>4
<1>5. CASE \E i \in 1 .. m : k = a[i] + (Width(linux) - 1)
  <2>1. PICK i \in 1 .. m : k = a[i] + (Width(linux) - 1) BY <1>5
  <2>2. u[k].t = "end" BY <1>1, <2>1 DEF Written
  <2> QED BY <2>1, <2>2
<1> HIDE DEF m
<1>6. \/ k \in n + 1 .. a[1] - 1 \/ \E i \in 1 .. m : k = a[i]
      \/ \E i \in 1 .. m : \E j \in 1 .. Width(linux) - 2 : k = a[i] + j
      \/ \E i \in 1 .. m : k = a[i] + (Width(linux) - 1)
  BY <1>1 DEF Where
<1> QED BY <1>2, <1>3, <1>4, <1>5, <1>6

(* The place of a property in a child goes with its name.                  *)
LEMMA FieldPlace ==
  ASSUME NEW token, NEW j, NEW part, NEW v, NEW linux, Field(token, j, part, v, linux)
  PROVE  /\ token.name = "size" <=> j = 2
         /\ token.name = "mask" <=> j = 3
         /\ token.name = "phandle" <=> j = 4
         /\ token.name = Linux => j = 5 /\ linux
<1> USE LinuxDiffers
<1>1. CASE j = 1 /\ token.name = "pname" BY <1>1
<1>2. CASE j = 2 /\ token.name = "size" BY <1>2
<1>3. CASE j = 3 /\ token.name = "mask" BY <1>3
<1>4. CASE j = 4 /\ token.name = "phandle" BY <1>4
<1>5. CASE j = 5 /\ linux /\ token.name = Linux BY <1>5
<1> QED BY <1>1, <1>2, <1>3, <1>4, <1>5 DEF Field

(* What is read of a child, once its properties are behind                 *)
PartValues(u, c, upto, part, v) ==
  /\ Value(u, c, upto, "size", 0) = part.size
  /\ Value(u, c, upto, "mask", 0) = part.mask
  /\ Value(u, c, upto, "phandle", 0) = v
  /\ Value(u, c, upto, Linux, 0) \in {0, v}

(* It is what was written.                                                 *)
LEMMA PartRead ==
  ASSUME NEW u, NEW n, NEW e, NEW parts, NEW handle, NEW linux, NEW a,
         Placed(u, n, e, parts, handle, linux, a),
         NEW i \in 1 .. Len(parts), NEW upto \in Nat, a[i] + (Width(linux) - 1) <= upto, upto <= e
  PROVE  PartValues(u, a[i], upto, parts[i], handle[i])
<1> DEFINE m == Len(parts)  c == a[i]  W == Width(linux)  part == parts[i]  v == handle[i]
<1>1. n \in Nat /\ e \in Nat BY DEF Placed
<1>2. W \in 6 .. 7 BY WidthNat
<1>3. /\ c \in n + 1 .. e - 1 /\ c + (W - 1) \in n + 1 .. e - 1
      /\ \A j \in 1 .. W - 2 : Field(u[c + j], j, part, v, linux) /\ Parent(u, c + j) = c
  BY PlacedWritten DEF Written
<1>4. ASSUME NEW k \in c + 1 .. upto - 1, u[k].t = "prop", Parent(u, k) = c
      PROVE  \E j \in 1 .. W - 2 : k = c + j /\ Field(u[k], j, part, v, linux)
  <2>1. k \in n + 1 .. e - 1 BY <1>1, <1>3
  <2> QED BY <1>4, <2>1, PlacedProps
<1>5. c \in Nat /\ c + (W - 1) <= upto BY <1>1, <1>3
<1> HIDE DEF c, W, part, v
<1>6. ASSUME NEW j \in 1 .. W - 2 PROVE c + j \in c + 1 .. upto - 1 /\ c + j \in Nat BY <1>2, <1>5
<1>7. Named(u, c, upto, "size", 0) = {c + 2} /\ u[c + 2].val = part.size
  <2>1. 2 \in 1 .. W - 2 BY <1>2
  <2>2. Field(u[c + 2], 2, part, v, linux) /\ Parent(u, c + 2) = c BY <1>3, <2>1
  <2>3. u[c + 2].t = "prop" /\ u[c + 2].name = "size" /\ u[c + 2].id = 0 /\ u[c + 2].val = part.size
    <3>1. u[c + 2].name = "size" BY <2>2, FieldPlace
    <3> QED BY <2>2, <3>1, LinuxDiffers DEF Field
  <2>4. c + 2 \in Named(u, c, upto, "size", 0) BY <1>6, <2>1, <2>2, <2>3 DEF Named
  <2>5. ASSUME NEW k \in Named(u, c, upto, "size", 0) PROVE k = c + 2
    <3>1. k \in c + 1 .. upto - 1 /\ u[k].t = "prop" /\ Parent(u, k) = c /\ u[k].name = "size"
      BY DEF Named
    <3>2. PICK j \in 1 .. W - 2 : k = c + j /\ Field(u[k], j, part, v, linux) BY <1>4, <3>1
    <3> QED BY <3>1, <3>2, FieldPlace
  <2> QED BY <2>3, <2>4, <2>5
<1>8. Named(u, c, upto, "mask", 0) = {c + 3} /\ u[c + 3].val = part.mask
  <2>1. 3 \in 1 .. W - 2 BY <1>2
  <2>2. Field(u[c + 3], 3, part, v, linux) /\ Parent(u, c + 3) = c BY <1>3, <2>1
  <2>3. u[c + 3].t = "prop" /\ u[c + 3].name = "mask" /\ u[c + 3].id = 0 /\ u[c + 3].val = part.mask
    <3>1. u[c + 3].name = "mask" BY <2>2, FieldPlace
    <3> QED BY <2>2, <3>1, LinuxDiffers DEF Field
  <2>4. c + 3 \in Named(u, c, upto, "mask", 0) BY <1>6, <2>1, <2>2, <2>3 DEF Named
  <2>5. ASSUME NEW k \in Named(u, c, upto, "mask", 0) PROVE k = c + 3
    <3>1. k \in c + 1 .. upto - 1 /\ u[k].t = "prop" /\ Parent(u, k) = c /\ u[k].name = "mask"
      BY DEF Named
    <3>2. PICK j \in 1 .. W - 2 : k = c + j /\ Field(u[k], j, part, v, linux) BY <1>4, <3>1
    <3> QED BY <3>1, <3>2, FieldPlace
  <2> QED BY <2>3, <2>4, <2>5
<1>9. Named(u, c, upto, "phandle", 0) = {c + 4} /\ u[c + 4].val = v
  <2>1. 4 \in 1 .. W - 2 BY <1>2
  <2>2. Field(u[c + 4], 4, part, v, linux) /\ Parent(u, c + 4) = c BY <1>3, <2>1
  <2>3. u[c + 4].t = "prop" /\ u[c + 4].name = "phandle" /\ u[c + 4].id = 0 /\ u[c + 4].val = v
    <3>1. u[c + 4].name = "phandle" BY <2>2, FieldPlace
    <3> QED BY <2>2, <3>1, LinuxDiffers DEF Field
  <2>4. c + 4 \in Named(u, c, upto, "phandle", 0) BY <1>6, <2>1, <2>2, <2>3 DEF Named
  <2>5. ASSUME NEW k \in Named(u, c, upto, "phandle", 0) PROVE k = c + 4
    <3>1. k \in c + 1 .. upto - 1 /\ u[k].t = "prop" /\ Parent(u, k) = c /\ u[k].name = "phandle"
      BY DEF Named
    <3>2. PICK j \in 1 .. W - 2 : k = c + j /\ Field(u[k], j, part, v, linux) BY <1>4, <3>1
    <3> QED BY <3>1, <3>2, FieldPlace
  <2> QED BY <2>3, <2>4, <2>5
<1>10. Value(u, c, upto, Linux, 0) \in {0, v}
  <2>1. CASE Named(u, c, upto, Linux, 0) = {}
    <3>1. Value(u, c, upto, Linux, 0) = 0 BY <1>5, <2>1, ValueNone
    <3> QED BY <3>1
  <2>2. CASE Named(u, c, upto, Linux, 0) # {}
    <3>1. ASSUME NEW k \in Named(u, c, upto, Linux, 0) PROVE k = c + 5 /\ u[k].val = v
      <4>1. k \in c + 1 .. upto - 1 /\ u[k].t = "prop" /\ Parent(u, k) = c /\ u[k].name = Linux
        BY DEF Named
      <4>2. PICK j \in 1 .. W - 2 : k = c + j /\ Field(u[k], j, part, v, linux) BY <1>4, <4>1
      <4>3. j = 5 BY <4>1, <4>2, FieldPlace
      <4> QED BY <4>1, <4>2, <4>3 DEF Field
    <3>2. Named(u, c, upto, Linux, 0) = {c + 5} /\ u[c + 5].val = v BY <2>2, <3>1
    <3> DEFINE p == c + 5
    <3>3. Once(u, c, upto, Linux, 0, p) /\ u[p].val = v BY <1>5, <3>2 DEF Once
    <3> HIDE DEF p
    <3>4. Value(u, c, upto, Linux, 0) = u[p].val BY <3>3, ValueOnce
    <3> QED BY <3>3, <3>4
  <2> QED BY <2>1, <2>2
<1> DEFINE p == c + 2  q == c + 3  r == c + 4
<1>11. /\ Once(u, c, upto, "size", 0, p) /\ u[p].val = part.size
       /\ Once(u, c, upto, "mask", 0, q) /\ u[q].val = part.mask
       /\ Once(u, c, upto, "phandle", 0, r) /\ u[r].val = v
  BY <1>5, <1>7, <1>8, <1>9 DEF Once
<1> HIDE DEF p, q, r
<1>12. /\ Value(u, c, upto, "size", 0) = part.size
       /\ Value(u, c, upto, "mask", 0) = part.mask
       /\ Value(u, c, upto, "phandle", 0) = v
  <2>1. Value(u, c, upto, "size", 0) = u[p].val BY <1>11, ValueOnce
  <2>2. Value(u, c, upto, "mask", 0) = u[q].val BY <1>11, ValueOnce
  <2>3. Value(u, c, upto, "phandle", 0) = u[r].val BY <1>11, ValueOnce
  <2> QED BY <1>11, <2>1, <2>2, <2>3
<1> QED BY <1>10, <1>12 DEF PartValues, c, part, v

(* The place of a property at the beginning goes with its name and number. *)
LEMMA HeadPlace ==
  ASSUME NEW token, NEW j, NEW m \in Nat, NEW handle, NEW linux, HeadField(token, j, m, handle, linux)
  PROVE  /\ token.name = "parts" => j = 1
         /\ token.name = "part-" => /\ token.id \in 0 .. m - 1 /\ j = token.id + 2
                                    /\ token.val = handle[token.id + 1]
<1> USE LinuxDiffers
<1>1. CASE j = 1 /\ token.name = "parts" BY <1>1
<1>2. CASE \E i \in 1 .. m : j = i + 1 /\ token.name = "part-" /\ token.id = i - 1 /\ token.val = handle[i]
  <2>1. PICK i \in 1 .. m : j = i + 1 /\ token.name = "part-" /\ token.id = i - 1 /\ token.val = handle[i]
    BY <1>2
  <2> DEFINE id == token.id
  <2>2. id \in 0 .. m - 1 /\ i = id + 1 /\ j = id + 2
    <3>1. id = i - 1 BY <2>1
    <3> HIDE DEF id
    <3> QED BY <2>1, <3>1
  <2>3. token.val = handle[token.id + 1] BY <2>1, <2>2
  <2> QED BY <2>1, <2>2, <2>3
<1>3. CASE j = m + 2 /\ token.name = "phandle" BY <1>3
<1>4. CASE j = m + 3 /\ linux /\ token.name = Linux BY <1>4
<1> QED BY <1>1, <1>2, <1>3, <1>4 DEF HeadField

(* What is read of the node itself: how many partitions, and their order   *)
HeadValues(u, n, e, m, handle) ==
  /\ Value(u, n, e, "parts", 0) = m
  /\ \A id \in 0 .. m - 1 : Value(u, n, e, "part-", id) = handle[id + 1]

(* It is what was written.                                                 *)
LEMMA HeadRead ==
  ASSUME NEW u, NEW n, NEW e, NEW parts, NEW handle, NEW linux, NEW a,
         Placed(u, n, e, parts, handle, linux, a)
  PROVE  HeadValues(u, n, e, Len(parts), handle)
<1> DEFINE m == Len(parts)
<1>1. n \in Nat /\ e \in Nat /\ m \in Nat BY DEF Placed, Asked
<1>2. Ordered(n, e, m, linux, a) /\ HeadAt(u, n, m, handle, linux) BY PlacedOrdered DEF Placed, NodeAt
<1>3. /\ \A k \in n + 1 .. a[1] - 1 : Parent(u, k) = n
  BY PlacedWritten DEF Written
<1>4. ASSUME NEW k \in n + 1 .. e - 1, u[k].t = "prop", Parent(u, k) = n
      PROVE  HeadField(u[k], k - n, m, handle, linux)
  BY <1>4, PlacedProps
<1>5. n + m + 3 <= a[1] /\ a[1] <= e /\ a[1] \in Nat
  <2>1. 1 \in 1 .. m + 1 /\ Extra(linux) \in 1 .. 2 BY <1>1, WidthNat
  <2> QED BY <1>1, <1>2, <2>1 DEF Ordered
<1> HIDE DEF m
<1>6. Value(u, n, e, "parts", 0) = m
  <2> DEFINE p == n + 1
  <2>1. p \in n + 1 .. a[1] - 1 /\ p \in n + 1 .. e - 1 /\ p \in Nat BY <1>1, <1>5
  <2>2. u[p] = Prop("parts", m) BY <1>2 DEF HeadAt
  <2>3. u[p].t = "prop" /\ u[p].name = "parts" /\ u[p].id = 0 /\ u[p].val = m BY <2>2, TokenFields
  <2>4. ASSUME NEW k \in Named(u, n, e, "parts", 0) PROVE k = p
    <3>1. k \in n + 1 .. e - 1 /\ u[k].t = "prop" /\ Parent(u, k) = n /\ u[k].name = "parts" BY DEF Named
    <3>2. HeadField(u[k], k - n, m, handle, linux) BY <1>4, <3>1
    <3>3. k - n = 1 BY <1>1, <3>1, <3>2, HeadPlace
    <3> QED BY <1>1, <3>1, <3>3
  <2>5. p \in Named(u, n, e, "parts", 0) BY <1>3, <2>1, <2>3 DEF Named
  <2>6. Once(u, n, e, "parts", 0, p)
    <3> HIDE DEF p
    <3> QED BY <2>1, <2>4, <2>5 DEF Once
  <2> HIDE DEF p
  <2>7. Value(u, n, e, "parts", 0) = u[p].val BY <2>6, ValueOnce
  <2> QED BY <2>3, <2>7
<1>7. ASSUME NEW id \in 0 .. m - 1 PROVE Value(u, n, e, "part-", id) = handle[id + 1]
  <2> DEFINE i == id + 1  p == n + 1 + i
  <2>1. i \in 1 .. m /\ i - 1 = id BY <1>1
  <2>2. p \in n + 1 .. a[1] - 1 /\ p \in n + 1 .. e - 1 /\ p \in Nat BY <1>1, <1>5
  <2>3. u[p] = PartProp(id, handle[i])
    <3> HIDE DEF i
    <3>1. u[p] = PartProp(i - 1, handle[i]) BY <1>2, <2>1 DEF HeadAt
    <3> QED BY <2>1, <3>1
  <2> HIDE DEF i
  <2>4. u[p].t = "prop" /\ u[p].name = "part-" /\ u[p].id = id /\ u[p].val = handle[i]
    BY <2>3, TokenFields
  <2>5. ASSUME NEW k \in Named(u, n, e, "part-", id) PROVE k = p
    <3>1. /\ k \in n + 1 .. e - 1 /\ u[k].t = "prop" /\ Parent(u, k) = n
          /\ u[k].name = "part-" /\ u[k].id = id
      BY DEF Named
    <3>2. HeadField(u[k], k - n, m, handle, linux) BY <1>4, <3>1
    <3>3. k - n = id + 2 BY <1>1, <3>1, <3>2, HeadPlace
    <3> QED BY <1>1, <3>1, <3>3 DEF i
  <2>6. p \in Named(u, n, e, "part-", id) BY <1>3, <2>2, <2>4 DEF Named
  <2>7. Once(u, n, e, "part-", id, p)
    <3> HIDE DEF p
    <3> QED BY <2>2, <2>5, <2>6 DEF Once
  <2> HIDE DEF p
  <2>8. Value(u, n, e, "part-", id) = u[p].val BY <2>7, ValueOnce
  <2> QED BY <2>4, <2>8 DEF i
<1> QED BY <1>6, <1>7 DEF HeadValues, m

(* The children begun up to a token are no more than the partitions.       *)
LEMMA FewBegun ==
  ASSUME NEW u, NEW n, NEW e, NEW parts, NEW handle, NEW linux, NEW a,
         Placed(u, n, e, parts, handle, linux, a), NEW k \in n + 1 .. e - 1
  PROVE  ~(Cardinality({c \in n + 1 .. k : u[c].t = "begin"}) > MaxParts)
<1> DEFINE m == Len(parts)  S == {c \in n + 1 .. k : u[c].t = "begin"}  I == 1 .. m  T == {a[i] : i \in I}
<1>1. n \in Nat /\ e \in Nat /\ m \in Nat /\ m <= MaxParts BY DEF Placed, Asked
<1>2. S \subseteq T
  <2> SUFFICES ASSUME NEW c \in n + 1 .. k, u[c].t = "begin" PROVE c \in T OBVIOUS
  <2>1. c \in n + 1 .. e - 1 BY <1>1
  <2> QED BY <2>1, PlacedKinds
<1> HIDE DEF S, m
<1>3. IsFiniteSet(I) /\ Cardinality(I) = m
  <2>1. 1 \in Int /\ m \in Int /\ m >= 1 - 1 BY <1>1
  <2> QED BY <1>1, <2>1, FS_Interval
<1> HIDE DEF I
<1>4. IsFiniteSet(T) /\ Cardinality(T) <= Cardinality(I)
  <2> DEFINE g == [i \in I |-> a[i]]
  <2>1. g \in Surjection(I, T) BY DEF Surjection
  <2> QED BY <1>3, <2>1, FS_Surjection
<1> HIDE DEF T
<1>5. Cardinality(S) <= Cardinality(T) BY <1>2, <1>4, FS_Subset
<1>6. Cardinality(S) \in Nat /\ Cardinality(T) \in Nat
  <2>1. IsFiniteSet(S) BY <1>2, <1>4, FS_Subset
  <2> QED BY <1>4, <2>1, FS_CardinalityType
<1>7. MaxParts \in Nat BY DtsAssumption
<1>8. ~(Cardinality(S) > MaxParts) BY <1>1, <1>3, <1>4, <1>5, <1>6, <1>7
<1> QED BY <1>8 DEF S

(* dts_get_partitions_from_node objects to nothing in it.                  *)
LEMMA NoneWrong ==
  ASSUME NEW u, NEW n, NEW e, NEW parts, NEW handle, NEW linux, NEW a,
         Placed(u, n, e, parts, handle, linux, a), NEW k \in n + 1 .. e - 1
  PROVE  ~WrongIn(u, n, k) /\ ~Disagrees(u, n, k)
<1> DEFINE m == Len(parts)
<1>1. /\ n \in Nat /\ e \in Nat /\ m \in Nat /\ m <= MaxParts
      /\ \A i \in 1 .. m + 1 : handle[i] \in Nat \ {0}
      /\ \A i \in 1 .. m : parts[i].size \in Nat /\ parts[i].mask \in Nat
  BY DEF Placed, Asked, Plausible
<1>2. Misfit \notin Nat BY DEF Misfit
<1>3. /\ Written(u, n, e, parts, handle, linux, a) /\ u[k].t \in {"begin", "prop", "end"}
      /\ u[k].t = "begin" => \E i \in 1 .. m : k = a[i]
      /\ u[k].t = "end" => \E i \in 1 .. m : k = a[i] + (Width(linux) - 1)
  BY PlacedWritten, PlacedKinds
<1>4. MaxParts \in Nat BY DtsAssumption
<1>5. CASE u[k].t = "begin"
  <2>1. PICK i \in 1 .. m : k = a[i] BY <1>3, <1>5
  <2>2. Parent(u, k) = n BY <1>3, <2>1 DEF Written
  <2>3. ~WrongIn(u, n, k) BY <1>5, <2>2, FewBegun, NotWrong
  <2> QED BY <1>5, <2>3 DEF Disagrees
<1>6. CASE u[k].t = "end"
  <2>1. PICK i \in 1 .. m : k = a[i] + (Width(linux) - 1) BY <1>3, <1>6
  <2>2. Parent(u, k) = a[i] BY <1>3, <2>1 DEF Written
  <2> DEFINE c == a[i]
  <2>3. PartValues(u, c, k, parts[i], handle[i])
    <3>1. k \in Nat /\ a[i] + (Width(linux) - 1) <= k /\ k <= e BY <1>1, <2>1
    <3> QED BY <3>1, PartRead
  <2> HIDE DEF c
  <2>4. ~(Value(u, c, k, "phandle", 0) # 0 /\ Value(u, c, k, Linux, 0) # 0
            /\ Value(u, c, k, "phandle", 0) # Value(u, c, k, Linux, 0))
    BY <2>3 DEF PartValues
  <2>5. c = Parent(u, k) BY <2>2 DEF c
  <2>6. ~Disagrees(u, n, k) BY <2>4, <2>5 DEF Disagrees, Linux
  <2>7. ~WrongIn(u, n, k) BY <1>6, NotWrong
  <2> QED BY <2>6, <2>7
<1>7. CASE u[k].t = "prop"
  <2>1. /\ Parent(u, k) = n \/ \E i \in 1 .. m : Parent(u, k) = a[i]
        /\ Parent(u, k) = n => HeadField(u[k], k - n, m, handle, linux)
        /\ \A i \in 1 .. m : Parent(u, k) = a[i] =>
             Parent(u, k) # n /\
             \E j \in 1 .. Width(linux) - 2 : k = a[i] + j /\ Field(u[k], j, parts[i], handle[i], linux)
    BY <1>7, PlacedProps
  <2>2. CASE Parent(u, k) = n
    <3>1. HeadField(u[k], k - n, m, handle, linux) BY <2>1, <2>2
    <3>2. /\ u[k].val \in Nat
          /\ \/ u[k].name \in {"parts", "phandle", Linux}
             \/ u[k].name = "part-" /\ ~(u[k].id > MaxParts - 1)
      <4> HIDE DEF m
      <4> DEFINE j == k - n  token == u[k]
      <4> HIDE DEF j, token
      <4>0. m + 1 \in 1 .. m + 1 BY <1>1
      <4> DEFINE fine == \/ token.name \in {"parts", "phandle", Linux}
                         \/ token.name = "part-" /\ ~(token.id > MaxParts - 1)
      <4>1. ASSUME token.name = "parts", token.val = m PROVE token.val \in Nat /\ fine
        <5>1. token.name \in {"parts", "phandle", Linux} BY <4>1
        <5> QED BY <1>1, <4>1, <5>1
      <4>2. ASSUME \E i \in 1 .. m : /\ j = i + 1 /\ token.name = "part-"
                                    /\ token.id = i - 1 /\ token.val = handle[i]
            PROVE  token.val \in Nat /\ fine
        <5>1. PICK i \in 1 .. m : token.name = "part-" /\ token.id = i - 1 /\ token.val = handle[i] BY <4>2
        <5>2. i \in 1 .. m + 1 /\ ~(i - 1 > MaxParts - 1) BY <1>1, <1>4
        <5>3. ~(token.id > MaxParts - 1) BY <5>1, <5>2
        <5> QED BY <1>1, <5>1, <5>2, <5>3
      <4>3. ASSUME token.name = "phandle", token.val = handle[m + 1] PROVE token.val \in Nat /\ fine
        <5>1. token.name \in {"parts", "phandle", Linux} BY <4>3
        <5> QED BY <1>1, <4>0, <4>3, <5>1
      <4>4. ASSUME token.name = Linux, token.val = handle[m + 1] PROVE token.val \in Nat /\ fine
        <5>1. token.name \in {"parts", "phandle", Linux} BY <4>4
        <5> QED BY <1>1, <4>0, <4>4, <5>1
      <4>5. HeadField(token, j, m, handle, linux) BY <3>1 DEF m, j, token
      <4>6. token.val \in Nat /\ fine
        <5> HIDE DEF fine
        <5> QED BY <4>1, <4>2, <4>3, <4>4, <4>5 DEF HeadField
      <4> QED BY <4>6 DEF token
    <3>3. u[k].val # Misfit BY <1>2, <3>2
    <3> QED BY <1>7, <2>2, <3>2, <3>3, NotWrong DEF Disagrees
  <2>3. ASSUME NEW i \in 1 .. m, Parent(u, k) = a[i] PROVE ~WrongIn(u, n, k)
    <3>1. Parent(u, k) # n BY <2>1, <2>3
    <3>2. PICK j \in 1 .. Width(linux) - 2 : Field(u[k], j, parts[i], handle[i], linux) BY <2>1, <2>3
    <3>3. u[a[i]].name = parts[i].name BY <1>3 DEF Written
    <3>4. handle[i] \in Nat /\ 0 \in Nat
      <4>1. i \in 1 .. m + 1 BY <1>1
      <4> QED BY <1>1, <4>1
    <3>5. u[k].val \in Nat BY <1>1, <3>2, <3>4 DEF Field
    <3>6. \/ u[k].name \in {"size", "mask", "phandle", Linux}
          \/ u[k].name = "pname" /\ u[k].text = u[Parent(u, k)].name
      BY <2>3, <3>2, <3>3 DEF Field
    <3>7. u[k].val # Misfit BY <1>2, <3>5
    <3> QED BY <1>7, <3>1, <3>6, <3>7, NotWrong
  <2> QED BY <1>7, <2>1, <2>2, <2>3 DEF Disagrees
<1> QED BY <1>3, <1>5, <1>6, <1>7

(* As many children begin up to one as there are partitions up to it.      *)
LEMMA FirstOnes ==
  ASSUME NEW n, NEW e, NEW m, NEW linux, NEW a, Ordered(n, e, m, linux, a), NEW h \in Nat, h <= m
  PROVE  LET T == {a[i] : i \in 1 .. h} IN IsFiniteSet(T) /\ Cardinality(T) = h
<1> DEFINE I == 1 .. h  T == {a[i] : i \in I}  f == [i \in I |-> a[i]]
<1>1. /\ m \in Nat /\ \A i \in 1 .. m + 1 : a[i] \in Nat \ {0}
      /\ \A i \in 1 .. m : \A j \in i + 1 .. m + 1 : a[i] + Width(linux) <= a[j]
      /\ Width(linux) \in 6 .. 7
  BY WidthNat DEF Ordered
<1>2. ASSUME NEW i \in I, NEW j \in I, a[i] = a[j] PROVE i = j
  <2>1. i \in 1 .. m + 1 /\ j \in 1 .. m + 1 /\ i \in 1 .. m /\ j \in 1 .. m BY <1>1
  <2>2. a[i] \in Nat /\ a[j] \in Nat BY <1>1, <2>1
  <2>3. CASE i < j
    <3>1. j \in i + 1 .. m + 1 BY <1>1, <2>1, <2>3
    <3>2. a[i] + Width(linux) <= a[j] BY <1>1, <2>1, <3>1
    <3> QED BY <1>1, <1>2, <2>2, <3>2
  <2>4. CASE j < i
    <3>1. i \in j + 1 .. m + 1 BY <1>1, <2>1, <2>4
    <3>2. a[j] + Width(linux) <= a[i] BY <1>1, <2>1, <3>1
    <3> QED BY <1>1, <1>2, <2>2, <3>2
  <2> QED BY <2>1, <2>3, <2>4
<1>3. IsFiniteSet(I) /\ Cardinality(I) = h
  <2>1. 1 \in Int /\ h \in Int /\ h >= 1 - 1 OBVIOUS
  <2> QED BY <2>1, FS_Interval
<1> HIDE DEF I
<1>4. f \in Bijection(I, T) BY <1>2 DEF Bijection, Injection, Surjection, IsInjective
<1> HIDE DEF T, f
<1>5. ExistsBijection(I, T) BY <1>4 DEF ExistsBijection
<1>6. IsFiniteSet(T) /\ Cardinality(T) = Cardinality(I) BY <1>3, <1>5, FS_Bijection
<1> QED BY <1>3, <1>6 DEF I, T

(* The children are found where they were put.                             *)
LEMMA ChildrenRead ==
  ASSUME NEW u, NEW n, NEW e, NEW parts, NEW handle, NEW linux, NEW a,
         Placed(u, n, e, parts, handle, linux, a)
  PROVE  Children(u, n, e) = [c \in 1 .. Len(parts) |-> a[c]]
<1> DEFINE m == Len(parts)  T == {a[i] : i \in 1 .. m}
           begun == {k \in n + 1 .. e - 1 : u[k].t = "begin" /\ Parent(u, k) = n}
<1>1. n \in Nat /\ e \in Nat /\ m \in Nat BY DEF Placed, Asked
<1>2. Ordered(n, e, m, linux, a) /\ Written(u, n, e, parts, handle, linux, a)
  BY PlacedOrdered, PlacedWritten
<1>3. begun = T
  <2>1. ASSUME NEW k \in begun PROVE k \in T BY <2>1, PlacedKinds
  <2>2. ASSUME NEW i \in 1 .. m PROVE a[i] \in begun BY <1>2 DEF Written
  <2> QED BY <2>1, <2>2
<1> HIDE DEF m
<1>4. IsFiniteSet(T) /\ Cardinality(T) = m
  <2>1. m <= m BY <1>1
  <2> QED BY <1>1, <1>2, <2>1, FirstOnes
<1>5. Children(u, n, e) = [c \in 1 .. Cardinality(begun) |-> Nth(begun, c)] BY DEF Children
<1>6. /\ \A i \in 1 .. m + 1 : a[i] \in Nat \ {0} /\ a[i] <= e
      /\ \A i \in 1 .. m : \A j \in i + 1 .. m + 1 : a[i] + Width(linux) <= a[j]
      /\ Width(linux) \in 6 .. 7
  BY <1>2, WidthNat DEF Ordered
<1>7. ASSUME NEW c \in 1 .. m PROVE Nth(T, c) = a[c]
  <2>1. T \in SUBSET Nat /\ \A y \in T : y <= e
    <3>1. \A i \in 1 .. m : i \in 1 .. m + 1 BY <1>1
    <3> QED BY <1>6, <3>1
  <2>2. c \in 1 .. Cardinality(T) BY <1>4
  <2> DEFINE x == Nth(T, c)  S == {y \in T : y < x}
  <2>3. x \in T /\ Cardinality(S) = c - 1
    <3> HIDE DEF T
    <3> QED BY <1>1, <1>4, <2>1, <2>2, NthIs
  <2> HIDE DEF x
  <2>4. PICK j \in 1 .. m : x = a[j] BY <2>3
  <2> DEFINE h == j - 1  F == {a[i] : i \in 1 .. h}
  <2>5. h \in Nat /\ h <= m BY <1>1
  <2>6. ASSUME NEW i \in 1 .. m PROVE a[i] < a[j] <=> i \in 1 .. h
    <3>1. i \in 1 .. m + 1 /\ j \in 1 .. m + 1 BY <1>1
    <3>2. a[i] \in Nat /\ a[j] \in Nat BY <1>6, <3>1
    <3>3. CASE i < j
      <4>1. j \in i + 1 .. m + 1 /\ i \in 1 .. h BY <1>1, <3>3
      <4>2. a[i] + Width(linux) <= a[j] BY <1>6, <4>1
      <4> QED BY <1>6, <3>2, <4>1, <4>2
    <3>4. CASE i = j BY <3>2, <3>4
    <3>5. CASE i > j
      <4>1. i \in j + 1 .. m + 1 /\ i \notin 1 .. h BY <1>1, <3>5
      <4>2. a[j] + Width(linux) <= a[i] BY <1>6, <4>1
      <4> QED BY <1>6, <3>2, <4>1, <4>2
    <3> QED BY <3>3, <3>4, <3>5
  <2>7. S = F
    <3>1. ASSUME NEW y \in S PROVE y \in F
      <4>1. PICK i \in 1 .. m : y = a[i] /\ a[i] < a[j] BY <2>4, <3>1
      <4> QED BY <2>6, <4>1
    <3>2. ASSUME NEW i \in 1 .. h PROVE a[i] \in S
      <4>1. i \in 1 .. m BY <1>1
      <4>2. a[i] < a[j] BY <2>6, <4>1
      <4> QED BY <2>4, <4>1, <4>2
    <3> QED BY <3>1, <3>2
  <2>8. Cardinality(F) = h
    <3> HIDE DEF h
    <3> QED BY <1>2, <2>5, FirstOnes
  <2>9. j = c
    <3> HIDE DEF S, F
    <3>1. c - 1 = j - 1 BY <2>3, <2>7, <2>8
    <3> QED BY <3>1
  <2> QED BY <2>4, <2>9 DEF x
<1> HIDE DEF T, begun
<1>8. Children(u, n, e) = [c \in 1 .. m |-> Nth(T, c)] BY <1>3, <1>4, <1>5
<1>9. Children(u, n, e) = [c \in 1 .. m |-> a[c]] BY <1>7, <1>8
<1> QED BY <1>9 DEF m

(* dts_sort_partitions leaves alone what is in order.                      *)
LEMMA SortedAsIs ==
  ASSUME NEW h, Len(h.parts) \in Nat, h.parts = [k \in 1 .. Len(h.parts) |-> h.parts[k]],
         h = [parts |-> h.parts, phandles |-> h.phandles, record |-> h.record, root |-> h.root],
         h.record = Len(h.parts), InOrder(h.parts, h.phandles, Len(h.parts))
  PROVE  Sorted(h).parts = h.parts
<1> DEFINE n == Len(h.parts)  R == Range(h.parts)  g == Sorted(h)
<1>1. PICK f \in [0 .. n -> [1 .. n -> R]] :
        /\ g = [h EXCEPT !.parts = f[n]] /\ f[0] = h.parts
        /\ \A i \in 1 .. n : f[i] = SortedAt(f[i - 1], h.phandles, i)
  BY SortRounds
<1>0. n \in Nat /\ InOrder(h.parts, h.phandles, n) OBVIOUS
<1> HIDE DEF n, R, g
<1> DEFINE T == {i \in 0 .. n : f[i] = h.parts}
<1>2. 0 \in T BY <1>0, <1>1
<1>3. ASSUME NEW i \in 1 .. n, i - 1 \in T PROVE i \in T
  <2>1. f[i] = SortedAt(h.parts, h.phandles, i) BY <1>1, <1>3
  <2>2. h.parts[i].phandle = h.phandles[i - 1] BY <1>0 DEF InOrder
  <2>3. SortedAt(h.parts, h.phandles, i) = h.parts BY <2>2 DEF SortedAt
  <2> QED BY <2>1, <2>3
<1>4. \A i \in 0 .. n : i \in T
  <2> HIDE DEF T
  <2> QED BY <1>0, <1>2, <1>3, Induction
<1>5. f[n] = h.parts
  <2>1. n \in 0 .. n BY <1>0
  <2> QED BY <1>4, <2>1
<1>6. h.parts = [h EXCEPT !.parts = f[n]].parts
  <2> DEFINE x == h.parts  y == h.phandles  r == h.record  o == h.root
  <2>1. h = [parts |-> x, phandles |-> y, record |-> r, root |-> o] /\ f[n] = x BY <1>5
  <2> HIDE DEF x, y, r, o
  <2>2. [h EXCEPT !.parts = f[n]].parts = x BY <2>1
  <2> QED BY <2>2 DEF x
<1> QED BY <1>1, <1>6 DEF g

(* What is filled in from the new node                                     *)
FilledRight(h, parts, handle) ==
  LET m == Len(parts)
  IN /\ h = [parts |-> h.parts, phandles |-> h.phandles, record |-> h.record, root |-> h.root]
     /\ h.record = m /\ Len(h.parts) = m /\ h.parts = [c \in 1 .. m |-> h.parts[c]]
     /\ InOrder(h.parts, h.phandles, m)
     /\ \A c \in 1 .. m : /\ h.parts[c].name = parts[c].name
                          /\ h.parts[c].size = parts[c].size /\ h.parts[c].mask = parts[c].mask

(* It is what was written.                                                 *)
LEMMA FilledRead ==
  ASSUME NEW u, NEW n, NEW e, NEW parts, NEW handle, NEW linux, NEW a,
         Placed(u, n, e, parts, handle, linux, a)
  PROVE  FilledRight(Filled(u, n, e), parts, handle)
<1> DEFINE m == Len(parts)  h == Filled(u, n, e)  child == Children(u, n, e)
<1>1. n \in Nat /\ e \in Nat /\ m \in Nat /\ m <= MaxParts BY DEF Placed, Asked
<1>2. MaxParts \in Nat BY DtsAssumption
<1>3. child = [c \in 1 .. m |-> a[c]] BY ChildrenRead
<1>4. HeadValues(u, n, e, m, handle) BY HeadRead
<1>5. ASSUME NEW c \in 1 .. m
      PROVE  /\ PartValues(u, a[c], e, parts[c], handle[c]) /\ u[a[c]].name = parts[c].name
  <2>1. Written(u, n, e, parts, handle, linux, a) BY PlacedWritten
  <2>2. a[c] + (Width(linux) - 1) <= e BY <1>1, <2>1 DEF Written
  <2> QED BY <1>1, <2>1, <2>2, PartRead DEF Written
<1>6. h = FilledWith(u, n, e, child) BY DEF Filled
<1> HIDE DEF m, child
<1>7. /\ DOMAIN child = 1 .. m /\ \A c \in 1 .. m : child[c] = a[c] BY <1>3
<1>8. /\ h = [parts |-> h.parts, phandles |-> h.phandles, record |-> h.record, root |-> h.root]
      /\ h.parts = [c \in 1 .. m |->
                [name    |-> u[child[c]].name,
                 size    |-> Value(u, child[c], e, "size", 0),
                 mask    |-> Value(u, child[c], e, "mask", 0),
                 phandle |-> Value(u, child[c], e, "phandle", 0)]]
      /\ h.phandles = [id \in 0 .. MaxParts - 1 |-> Value(u, n, e, "part-", id)]
      /\ h.record = Value(u, n, e, "parts", 0)
  BY <1>6, <1>7 DEF FilledWith
<1> HIDE DEF h
<1>9. ASSUME NEW c \in 1 .. m
      PROVE  /\ h.parts[c].name = parts[c].name
             /\ h.parts[c].size = parts[c].size /\ h.parts[c].mask = parts[c].mask
             /\ h.parts[c].phandle = handle[c]
  <2>1. /\ h.parts[c].name = u[a[c]].name
        /\ h.parts[c].size = Value(u, a[c], e, "size", 0)
        /\ h.parts[c].mask = Value(u, a[c], e, "mask", 0)
        /\ h.parts[c].phandle = Value(u, a[c], e, "phandle", 0)
    BY <1>7, <1>8
  <2> QED BY <1>5, <2>1 DEF PartValues
<1>10. h.record = m BY <1>4, <1>8 DEF HeadValues
<1>11. Len(h.parts) = m /\ h.parts = [c \in 1 .. m |-> h.parts[c]]
  <2> DEFINE x == h.parts
  <2>1. x = [c \in 1 .. m |-> x[c]] BY <1>8
  <2> HIDE DEF x
  <2>2. Len(x) = m BY <1>1, <2>1, FunctionList
  <2> QED BY <2>1, <2>2 DEF x
<1>12. InOrder(h.parts, h.phandles, m)
  <2> SUFFICES ASSUME NEW i \in 1 .. m PROVE h.parts[i].phandle = h.phandles[i - 1] BY DEF InOrder
  <2> DEFINE id == i - 1
  <2>1. id \in 0 .. m - 1 /\ id \in 0 .. MaxParts - 1 /\ id + 1 = i BY <1>1, <1>2
  <2> HIDE DEF id
  <2>2. h.phandles[id] = handle[i]
    <3>1. h.phandles[id] = Value(u, n, e, "part-", id) BY <1>8, <2>1
    <3>2. Value(u, n, e, "part-", id) = handle[id + 1] BY <1>4, <2>1 DEF HeadValues
    <3> QED BY <2>1, <3>1, <3>2
  <2> QED BY <1>9, <2>2 DEF id
<1> QED BY <1>8, <1>9, <1>10, <1>11, <1>12 DEF FilledRight, m, h

(* So the partitions read from the new node are those written.             *)
LEMMA NodeRead ==
  ASSUME NEW u, NEW n, NEW e, NEW parts, NEW handle, NEW linux, NEW a,
         Placed(u, n, e, parts, handle, linux, a)
  PROVE  Matches(ReadNode(u, n, e), parts)
<1> DEFINE h == Filled(u, n, e)  m == Len(parts)
<1>1. n \in Nat /\ e \in Nat BY DEF Placed
<1>2. StopsAt(u, n, e) = e
  <2> DEFINE S == {k \in n + 1 .. e - 1 : WrongIn(u, n, k) \/ Disagrees(u, n, k)}
  <2>1. S = {} BY NoneWrong
  <2>2. StopsAt(u, n, e) = Min({e} \union S) BY DEF StopsAt
  <2> HIDE DEF S
  <2>3. {e} \union S = {e} /\ e <= e BY <1>1, <2>1
  <2>4. Min({e}) = e BY <2>3 DEF Min
  <2> QED BY <2>2, <2>3, <2>4
<1>3. ReadNode(u, n, e) = [found |-> "ok", h |-> Sorted(h)] BY <1>2 DEF ReadNode, ReadUpTo
<1>4. FilledRight(h, parts, handle) BY FilledRead
<1>5. m \in Nat /\ parts = [k \in 1 .. m |-> parts[k]] /\ \A k \in 1 .. m : Plausible(parts[k])
  BY DEF Placed, Asked
<1> HIDE DEF h, m
<1>6. Sorted(h).parts = h.parts
  <2>1. /\ Len(h.parts) = m /\ h.parts = [k \in 1 .. m |-> h.parts[k]]
        /\ h = [parts |-> h.parts, phandles |-> h.phandles, record |-> h.record, root |-> h.root]
        /\ h.record = m /\ InOrder(h.parts, h.phandles, m)
    BY <1>4 DEF FilledRight, m
  <2>2. Len(h.parts) \in Nat BY <1>5, <2>1
  <2> QED BY <2>1, <2>2, SortedAsIs
<1>7. ToSimple(h.parts) = parts
  <2> DEFINE x == h.parts
  <2>1. /\ x = [c \in 1 .. m |-> x[c]]
        /\ \A c \in 1 .. m : /\ x[c].name = parts[c].name
                             /\ x[c].size = parts[c].size /\ x[c].mask = parts[c].mask
    BY <1>4 DEF FilledRight, m
  <2> HIDE DEF x
  <2>2. ToSimple(x) = [c \in 1 .. m |-> Simple(x[c].name, x[c].size, x[c].mask)]
    BY <2>1 DEF ToSimple
  <2>3. ASSUME NEW c \in 1 .. m PROVE Simple(x[c].name, x[c].size, x[c].mask) = parts[c]
    BY <1>5, <2>1 DEF Simple, Plausible
  <2>4. ToSimple(x) = [c \in 1 .. m |-> parts[c]] BY <2>2, <2>3
  <2> QED BY <1>5, <2>4 DEF x
<1>8. ReadNode(u, n, e).found = "ok" /\ ReadNode(u, n, e).h = Sorted(h) BY <1>3
<1> QED BY <1>6, <1>7, <1>8 DEF Matches

(* Nothing comes after the root but FDT_END.                               *)
Ended(s) == EndOf(s, Root(s)) = Len(s) - 1 /\ s[Len(s)].t = "fin"

(* Replacing a node in the root leaves it so.                              *)
LEMMA ReplacedEnded ==
  ASSUME NEW s, NEW u, NEW n, NEW e, NEW f, Replaced(s, u, n, e, f), Ended(s),
         NEW r, NEW E, Tree(s, r, E), E = Len(s) - 1, r < n, n <= E, e < E
  PROVE  Ended(u) /\ Root(u) # 0 /\ EndOf(u, Root(u)) # 0
<1> DEFINE d == f - e
<1>1. /\ n \in Nat \ {0} /\ e \in Nat /\ f \in Nat /\ Len(s) \in Nat /\ Len(u) \in Nat
      /\ Len(u) = Len(s) + d /\ \A k \in e + 1 .. Len(s) : u[k + d] = s[k]
  BY DEF Replaced
<1>2. Tree(u, r, E + d) BY ReplacedTree
<1>3. d \in Int /\ r \in Nat /\ r # 0 BY <1>1 DEF Tree, Node
<1> HIDE DEF d
<1>4. Node(u, r, E + d) /\ Root(u) = r BY <1>2 DEF Tree
<1>5. EndOf(u, r) = E + d BY <1>1, <1>4, NodeEnds
<1>6. E + d = Len(u) - 1 /\ E + d # 0
  <2>1. r < E + d /\ E + d \in Nat BY <1>4 DEF Node
  <2> QED BY <1>1, <1>3, <2>1
<1>7. Len(s) \in e + 1 .. Len(s) /\ Len(s) + d = Len(u) BY <1>1
<1>8. u[Len(u)] = s[Len(s)] BY <1>1, <1>7
<1> QED BY <1>3, <1>4, <1>5, <1>6, <1>8 DEF Ended

(* Where the new node comes to lie, and is found                           *)
Lies(s, u, n, e, node) ==
  /\ Put(s, u, n, e, node) /\ n \in Nat \ {0}
  /\ PartitionsAt(u) = n /\ EndOf(u, n) = n - 1 + Len(node) /\ Node(u, n, n - 1 + Len(node))

(* In place of the old one, or last in the root                            *)
LEMMA Spot ==
  ASSUME NEW s, IsList(s), Root(s) # 0, Ended(s), EndOf(s, Root(s)) # 0,
         NEW node, NodeList(node), node[1].name = "partitions",
         NEW u, u = IF PartitionsAt(s) # 0 THEN Spliced(s, PartitionsAt(s), EndOf(s, PartitionsAt(s)) + 1, node)
                    ELSE Spliced(s, BeforeEnd(s), BeforeEnd(s), node)
  PROVE  Ended(u) /\ \E n, e : Lies(s, u, n, e, node)
<1> DEFINE p == PartitionsAt(s)  r == Root(s)  E == Len(s) - 1
           n == IF p # 0 THEN p ELSE E
           e == IF p # 0 THEN EndOf(s, p) ELSE E - 1
           f == n - 1 + Len(node)
<1>1. IsList(node) /\ Len(s) \in Nat /\ Len(node) \in Nat BY ListIs DEF IsList, NodeList
<1>2. Tree(s, r, E)
  <2>1. EndOf(s, r) = E BY DEF Ended
  <2> QED BY <1>1, <2>1, TreeFound
<1>3. r \in Nat \ {0} /\ E \in Nat /\ r < E /\ E <= Len(s) /\ Node(s, r, E) BY <1>2 DEF Tree, Node
<1>4. E = BeforeEnd(s) BY DEF BeforeEnd
<1>5. p \in Nat /\ (p # 0 => p \in Candidates(s, r, E)) /\ (p = 0 => Candidates(s, r, E) = {})
      /\ \A k \in Candidates(s, r, E) : k <= p
  BY <1>2, PartitionsAtIs
<1>6. u = IF p # 0 THEN Spliced(s, p, EndOf(s, p) + 1, node) ELSE Spliced(s, E, E, node) BY <1>4
<1>7. E = Len(s) - 1 OBVIOUS
<1> HIDE DEF p, r, E
<1>8. /\ n \in Nat \ {0} /\ e \in Nat /\ n - 1 <= e /\ r < n /\ n <= E /\ e < E
      /\ u = Spliced(s, n, e + 1, node) /\ Level(s, n - 1) = Level(s, r)
      /\ \A k \in Candidates(s, r, E) : k <= e
      /\ e = n - 1 \/ Node(s, n, e)
      /\ p = 0 \/ (p = n /\ EndOf(s, n) = e /\ Node(s, n, e))
  <2>1. CASE p # 0
    <3>1. n = p /\ e = EndOf(s, p) /\ u = Spliced(s, p, e + 1, node) BY <1>6, <2>1
    <3> HIDE DEF n, e
    <3>2. p \in r + 1 .. E /\ s[p].t = "begin" /\ Level(s, p - 1) = Level(s, r)
      BY <1>5, <2>1 DEF Candidates
    <3>3. Node(s, p, e) /\ e < E BY <1>1, <1>3, <3>1, <3>2, NodeInside
    <3>4. p < e /\ e \in Nat /\ p \in Nat \ {0} BY <3>3 DEF Node
    <3>5. \A k \in Candidates(s, r, E) : k <= e
      <4>1. \A k \in Candidates(s, r, E) : k \in Int BY <1>3 DEF Candidates
      <4> QED BY <1>5, <3>4, <4>1
    <3>6. r < p /\ p <= E BY <1>3, <3>2
    <3> QED BY <3>1, <3>2, <3>3, <3>4, <3>5, <3>6
  <2>2. CASE p = 0
    <3>1. n = E /\ e = E - 1 /\ u = Spliced(s, E, E, node) BY <1>6, <2>2
    <3> HIDE DEF n, e
    <3>2. n \in Nat \ {0} /\ e \in Nat /\ e + 1 = E /\ e = n - 1 /\ r < n /\ n <= E /\ e < E
      BY <1>3, <3>1
    <3>3. Level(s, n - 1) = Level(s, r) BY <1>3, <3>1, NodeLevels
    <3> QED BY <1>5, <2>2, <3>1, <3>2, <3>3
  <2> QED BY <2>1, <2>2
<1> HIDE DEF n, e
<1>9. e + 1 \in Nat /\ n <= e + 1 /\ e + 1 <= Len(s) + 1 /\ e <= Len(s) BY <1>1, <1>3, <1>8
<1>10. IsSplice(u, s, n, e + 1, node) BY <1>1, <1>8, <1>9, SplicedIs
<1>11. f \in Nat /\ f = n - 1 + Len(node) /\ n <= f /\ u[n].name = "partitions"
  <2>1. 1 < Len(node) BY DEF NodeList, Node
  <2>2. 1 \in 1 .. Len(node) /\ 1 + (n - 1) = n BY <1>1, <1>8, <2>1
  <2>3. u[n] = node[1] BY <1>10, <2>2 DEF IsSplice
  <2>4. f \in Nat /\ n <= f
    <3>1. f = n - 1 + Len(node) OBVIOUS
    <3> HIDE DEF f
    <3> QED BY <1>1, <1>8, <2>1, <3>1
  <2> QED BY <2>3, <2>4
<1> HIDE DEF f
<1>12. IsList(u) /\ Replaced(s, u, n, e, f)
  <2>1. node = <<>> \/ NodeList(node) OBVIOUS
  <2> QED BY <1>1, <1>8, <1>9, <1>11, <2>1, SplicedReplaces
<1>13. PartitionsAt(u) = n /\ EndOf(u, n) = f BY <1>2, <1>8, <1>11, <1>12, ReplacedFound
<1>14. Ended(u) BY <1>2, <1>7, <1>8, <1>12, ReplacedEnded
<1>15. Node(u, n, f)
  <2>1. f # n - 1 BY <1>8, <1>11
  <2> QED BY <1>12, <2>1 DEF Replaced
<1>16. Put(s, u, n, e, node)
  <2>1. Shifted(node, u, 1, Len(node), n - 1) BY <1>10 DEF IsSplice, Shifted
  <2> QED BY <1>1, <1>8, <1>11, <1>12, <2>1 DEF Put, p
<1>17. Lies(s, u, n, e, node) BY <1>8, <1>11, <1>13, <1>15, <1>16 DEF Lies
<1> QED BY <1>14, <1>17

(* A DTB that takes a list: one that has a phandle, and ends with its root *)
Writable(d) ==
  IsDtb(d) /\ "phandle" \in d.strings /\ PhandlesLegal(d.toks) /\ Ended(d.toks)

(* A list with its node put in is taken for what it is.                    *)
LEMMA LiesRead ==
  ASSUME NEW s, NEW u, NEW n, NEW e, NEW parts, Asked(parts), NEW handle, NEW linux,
         \A i \in 1 .. Len(parts) + 1 : handle[i] \in Nat \ {0},
         NEW node, node = Composed(parts, handle, linux), Lies(s, u, n, e, node)
  PROVE  Matches(ReadNode(u, n, EndOf(u, n)), parts)
<1> DEFINE m == Len(parts)  L == Len(node)  d == n - 1  f == d + L
<1>1. m \in Nat BY DEF Asked
<1>2. PICK a : NodeAt(node, 1, parts, handle, linux, a) /\ a[m + 1] = L BY <1>1, ComposedTokens
<1>3. /\ n \in Nat \ {0} /\ IsList(u) /\ IsList(node) /\ Shifted(node, u, 1, L, d)
      /\ EndOf(u, n) = f /\ Node(u, n, f)
  BY DEF Lies, Put
<1>4. L \in Nat /\ Len(u) \in Nat BY <1>3, ListIs DEF IsList
<1>5. d \in Nat /\ n = d + 1 /\ f \in Nat /\ f = L + d BY <1>3, <1>4
<1> HIDE DEF d, f, L
<1>6. PICK b : NodeAt(u, n, parts, handle, linux, b) /\ b[m + 1] = L + d
  BY <1>1, <1>2, <1>3, <1>4, <1>5, NodeMoved
<1>7. Placed(u, n, f, parts, handle, linux, b) BY <1>3, <1>4, <1>5, <1>6 DEF Placed
<1> QED BY <1>3, <1>7, NodeRead

(* What dtb_buffer_entry_implement_partitions makes of it                  *)
LEMMA NewTokens ==
  ASSUME NEW d, IsDtb(d), NEW n, NEW node
  PROVE  LET c == WithNode(d, n, node)
         IN /\ c = [target |-> c.target, strings |-> c.strings, toks |-> c.toks]
            /\ c.strings = d.strings \union Essential
            /\ c.toks = IF n # 0 THEN Spliced(d.toks, n, EndOf(d.toks, n) + 1, node)
                        ELSE Spliced(d.toks, BeforeEnd(d.toks), BeforeEnd(d.toks), node)
<1> DEFINE s == d.toks  new == WithNode(d, n, node)
           u == IF n # 0 THEN Spliced(s, n, EndOf(s, n) + 1, node)
                ELSE Spliced(s, BeforeEnd(s), BeforeEnd(s), node)
<1>1. s = d.toks OBVIOUS
<1>2. d = [target |-> d.target, strings |-> d.strings, toks |-> d.toks] BY DEF IsDtb
<1> HIDE DEF s
<1>3. new = [d EXCEPT !.strings = d.strings \union Essential, !.toks = u]
  BY <1>1 DEF WithNode
<1> HIDE DEF new, u
<1>4. new = [target |-> d.target, strings |-> d.strings \union Essential, toks |-> u] BY <1>2, <1>3
<1>5. /\ new = [target |-> new.target, strings |-> new.strings, toks |-> new.toks]
      /\ new.strings = d.strings \union Essential /\ new.toks = u
  BY <1>4
<1> QED BY <1>1, <1>5 DEF new, u

(* It takes any list.                                                      *)
LEMMA Takes ==
  ASSUME NEW d, Writable(d), NEW old, NEW parts, Asked(parts)
  PROVE  Implemented(d, old, parts).ok /\ Ended(Implemented(d, old, parts).dtb.toks)
           /\ "phandle" \in Implemented(d, old, parts).dtb.strings
<1> DEFINE s == d.toks  p == PartitionsAt(s)  free == Free(s, old)  m == Len(parts)
           handle == Assigned(free, m + 1)  linux == HasLinux(s)
           node == NewNode(s, old, parts)  new == WithNode(d, p, node)  u == new.toks
<1>1. /\ IsDtb(d) /\ IsList(s) /\ PhandlesLegal(s) /\ Ended(s) /\ "phandle" \in d.strings
      /\ Root(s) # 0 /\ EndOf(s, Root(s)) # 0
  BY DEF Writable, IsDtb, PhandlesLegal
<1>2. m \in Nat BY DEF Asked
<1>3. node = Composed(parts, handle, linux) BY DEF NewNode
<1>4. NodeList(node) /\ node[1].name = "partitions" BY <1>2, <1>3, ComposedNode
<1>5. \A i \in 1 .. m + 1 : handle[i] \in Nat \ {0}
  <2>1. IsFiniteSet(free) BY <1>1, <1>2, MineIs
  <2> DEFINE count == m + 1
  <2>2. count \in Nat BY <1>2
  <2> HIDE DEF free, m
  <2>3. handle = Assigned(free, count) OBVIOUS
  <2> HIDE DEF handle, count
  <2>4. \A i \in 1 .. count : handle[i] \in Nat \ {0} BY <2>1, <2>2, <2>3, AssignedIs
  <2> QED BY <2>4 DEF count
<1>6. /\ new.strings = d.strings \union Essential
      /\ u = IF p # 0 THEN Spliced(s, p, EndOf(s, p) + 1, node)
             ELSE Spliced(s, BeforeEnd(s), BeforeEnd(s), node)
  BY <1>1, NewTokens
<1> HIDE DEF handle, linux, node, new
<1>7. Ended(u) /\ \E n, e : Lies(s, u, n, e, node)
  <2> HIDE DEF u, s
  <2> QED BY <1>1, <1>4, <1>6, Spot DEF p
<1>8. PICK n, e : Lies(s, u, n, e, node) BY <1>7
<1>9. Matches(ReadNode(u, n, EndOf(u, n)), parts)
  <2> HIDE DEF u, s
  <2> QED BY <1>3, <1>5, <1>8, LiesRead DEF m
<1>10. Partitions(new) = ReadNode(u, n, EndOf(u, n))
  <2>1. PartitionsAt(u) = n /\ n # 0 BY <1>8 DEF Lies
  <2>2. Essential \subseteq new.strings BY <1>6
  <2> QED BY <2>1, <2>2 DEF Partitions, PartitionsFrom
<1>11. CanTake(d, p)
  <2>1. s[Len(s)].t = "fin" /\ s[Len(s) - 1].t = "end"
    <3>1. Len(s) \in Nat BY <1>1, ListIs DEF IsList
    <3> DEFINE E == Len(s) - 1
    <3>2. Tree(s, Root(s), EndOf(s, Root(s))) /\ EndOf(s, Root(s)) = E BY <1>1, <3>1, TreeFound DEF Ended
    <3> HIDE DEF E
    <3>3. Node(s, Root(s), E) BY <3>2 DEF Tree
    <3>4. s[E].t = "end" BY <3>3, NodeLevels
    <3> QED BY <1>1, <3>4 DEF Ended, E
  <2> QED BY <1>1, <2>1 DEF CanTake
<1>12. Implemented(d, old, parts) = ImplementedAs(d, p, new, parts)
  BY DEF Implemented, ImplementedAt, new, node
<1> HIDE DEF p
<1>13. Implemented(d, old, parts) = [ok |-> TRUE, dtb |-> new]
  BY <1>9, <1>10, <1>11, <1>12 DEF ImplementedAs, Outcome
<1>14. Implemented(d, old, parts).ok /\ Implemented(d, old, parts).dtb = new BY <1>13
<1>15. "phandle" \in new.strings BY <1>1, <1>6
<1> QED BY <1>7, <1>14, <1>15

(* It goes on taking any list after that ...                               *)
LEMMA TakesAgain ==
  ASSUME NEW d, Writable(d), NEW parts, Asked(parts)
  PROVE  Writable(Implemented(d, Partitions(d), parts).dtb)
<1> DEFINE c == Implemented(d, Partitions(d), parts).dtb
<1>1. IsDtb(d) /\ Len(parts) \in Nat BY DEF Writable, Asked
<1>2. Implemented(d, Partitions(d), parts).ok /\ Ended(c.toks) /\ "phandle" \in c.strings BY Takes
<1>3. PhandlesLegal(c.toks) BY <1>1, <1>2, ImplementedLegal
<1>4. IsDtb(c) BY <1>1, <1>2, ImplementedKeeps DEF Alike
<1> QED BY <1>2, <1>3, <1>4 DEF Writable

(* ... and after its partitions are taken out.                             *)
LEMMA StripStays ==
  ASSUME NEW d, Writable(d), Used(Others(d.toks)) # {}, Removed(d).ok
  PROVE  Writable(Removed(d).dtb)
<1> DEFINE s == d.toks  p == PartitionsAt(s)  c == Removed(d).dtb  u == c.toks
           r == Root(s)  E == Len(s) - 1  e == EndOf(s, p)  none == <<>>  f == p - 1
<1>1. /\ IsDtb(d) /\ IsList(s) /\ PhandlesLegal(s) /\ Ended(s) /\ "phandle" \in d.strings
      /\ r # 0 /\ EndOf(s, r) # 0 /\ EndOf(s, r) = E
  BY DEF Writable, IsDtb, PhandlesLegal, Ended
<1>2. /\ IsDtb(c) /\ c.strings = d.strings /\ (p = 0 => c = d) /\ (p # 0 => u = Others(s))
  BY <1>1, RemovedIs
<1>3. CASE p = 0 BY <1>2, <1>3
<1>4. CASE p # 0
  <2>1. u = Spliced(s, p, e + 1, none) /\ Used(u) # {} BY <1>2, <1>4 DEF Others
  <2>2. none = <<>> /\ IsList(none) /\ Len(none) = 0
    <3>1. none \in Seq({}) /\ Len(none) = 0 OBVIOUS
    <3> DEFINE x == none
    <3>2. x \in Seq({}) BY <3>1
    <3> HIDE DEF x
    <3>3. IsList(x) BY <3>2, ListIs
    <3> QED BY <3>1, <3>3 DEF x
  <2>3. E = Len(s) - 1 OBVIOUS
  <2>4. p = PartitionsAt(s) OBVIOUS
  <2> HIDE DEF none, r, E, p, u, c
  <2>5. Len(s) \in Nat BY <1>1, ListIs DEF IsList
  <2>6. Tree(s, r, E) BY <1>1, <2>5, TreeFound DEF r
  <2>7. /\ r \in Nat \ {0} /\ E \in Nat /\ r < E /\ E <= Len(s) /\ Node(s, r, E) BY <2>6 DEF Tree, Node
  <2>8. p \in r + 1 .. E /\ s[p].t = "begin"
    <3>1. p \in Candidates(s, r, E) BY <1>4, <2>4, <2>6, PartitionsAtIs
    <3> QED BY <3>1 DEF Candidates
  <2>9. Node(s, p, e) /\ e < E BY <2>5, <2>7, <2>8, NodeInside
  <2> HIDE DEF e, s
  <2>10. /\ p \in Nat \ {0} /\ e \in Nat /\ p < e /\ e <= Len(s) /\ p - 1 <= e /\ r < p /\ p <= E
    BY <2>7, <2>8, <2>9 DEF Node
  <2>11. IsList(u) /\ Replaced(s, u, p, e, f)
    <3>1. IsList(u) /\ Replaced(s, u, p, e, p - 1 + Len(none))
      BY <1>1, <2>1, <2>2, <2>9, <2>10, SplicedReplaces
    <3>2. p - 1 + Len(none) = f BY <2>2, <2>10
    <3> QED BY <3>1, <3>2
  <2>12. Ended(u) /\ Root(u) # 0 /\ EndOf(u, Root(u)) # 0
    <3> HIDE DEF f
    <3> QED BY <1>1, <2>3, <2>6, <2>9, <2>10, <2>11, ReplacedEnded
  <2>13. PhandlesLegal(u)
    <3> DEFINE H == {}
    <3>1. PhandleProps(none) = {}
      <4>1. PhandleProps(none) = {k \in 1 .. Len(none) : IsPhandle(none[k])} BY <2>2, PhandlePropsIs
      <4> QED BY <2>2, <4>1
    <3>2. Apart(none, H) BY <2>2, <3>1 DEF Apart
    <3>3. PhandleProps(u) # {} BY <2>1 DEF Used
    <3>4. f = p - 1 + Len(none) BY <2>2, <2>10
    <3>5. Shifted(none, u, 1, Len(none), p - 1) BY <2>2 DEF Shifted
    <3>6. Misfit \notin H /\ 0 \notin H /\ \A k \in PhandleProps(s) : k < p \/ k > e => s[k].val \notin H
      OBVIOUS
    <3> HIDE DEF H, f
    <3> QED BY <1>1, <2>11, <2>12, <3>2, <3>3, <3>4, <3>5, <3>6, ReplacedLegal
  <2> QED BY <1>1, <1>2, <2>12, <2>13 DEF Writable, u, c
<1> QED BY <1>3, <1>4

(***************************************************************************)
(* A DTB that takes a list goes on taking lists.                           *)
(***************************************************************************)
(* The DTBs are such, if those found were, and no list was refused.        *)
Takers(i) == \A k \in 1 .. Len(found.dtbs) : Writable(i.dtbs[k])

WInv ==
  /\ KInv /\ SInv
  /\ Anchored(found) =>
       /\ Takers(image) /\ Takers(made)
       /\ (pc = "failed" /\ helper # <<>>) => wanted = <<>>

(* In the beginning the DTBs are those found.                              *)
LEMMA WInit == Init => WInv
<1> SUFFICES ASSUME Init PROVE WInv OBVIOUS
<1>1. found \in Images /\ image = found /\ made = found /\ pc = "idle" BY DEF Init
<1>2. ASSUME Anchored(found) PROVE Takers(found)
  <2> SUFFICES ASSUME NEW k \in 1 .. Len(found.dtbs) PROVE Writable(found.dtbs[k]) BY DEF Takers
  <2>1. k \in DOMAIN found.dtbs /\ IsDtb(found.dtbs[k]) BY <1>1, ImagesShaped
  <2> QED BY <1>2, <2>1 DEF Anchored, Writable, Ended
<1> QED BY <1>1, <1>2, KInit, SInit DEF WInv, Takers

(* What one DTB is made into when it is given a list, or stripped          *)
LEMMA ChangeTakes ==
  ASSUME WInv, Anchored(found), NEW list \in Lists, NEW k \in 1 .. Len(found.dtbs),
         pc = "read", helper # <<>>
  PROVE  /\ list # <<>> => Change(k, list).ok
         /\ Change(k, list).ok => Writable(Change(k, list).dtb)
<1> DEFINE d == image.dtbs[k]
<1>1. Writable(d) /\ helper[k] = Partitions(d) BY DEF WInv, Takers, SInv, HelperRead
<1>2. CASE list # <<>>
  <2>1. Change(k, list) = Implemented(d, Partitions(d), list) BY <1>1, <1>2 DEF Change
  <2>2. Asked(list) BY ListsAre
  <2> HIDE DEF d
  <2>3. Implemented(d, Partitions(d), list).ok BY <1>1, <2>2, Takes
  <2>4. Writable(Implemented(d, Partitions(d), list).dtb) BY <1>1, <2>2, TakesAgain
  <2> QED BY <2>1, <2>3, <2>4
<1>3. CASE list = <<>>
  <2>1. Change(k, list) = Removed(d) BY <1>3 DEF Change
  <2>2. Used(Others(d.toks)) # {}
    <3>1. Others(d.toks) = Others(found.dtbs[k].toks) BY DEF WInv, KInv, Kept, Alike
    <3>2. k \in DOMAIN found.dtbs BY ImagesShaped DEF WInv, KInv, TInv
    <3> QED BY <3>1, <3>2 DEF Anchored
  <2> HIDE DEF d
  <2> QED BY <1>1, <1>3, <2>1, <2>2, StripStays
<1> QED BY <1>2, <1>3

(* Every step keeps that.                                                  *)
LEMMA WNext ==
  ASSUME OnePartitions, WInv, [Next]_vars
  PROVE  WInv'
<1>1. KInv /\ SInv /\ TInv BY DEF WInv, SInv
<1>2. KInv' /\ SInv' BY <1>1, KNext, SNext
<1>3. CASE Read \/ Die \/ Finish
  <2>1. UNCHANGED <<image, found, made>> /\ pc' # "failed" BY <1>3 DEF Read, Die, Finish
  <2> QED BY <1>2, <2>1 DEF WInv, Anchored, Takers
<1>4. ASSUME NEW list \in Lists, Compose(list) PROVE WInv'
  <2>1. /\ UNCHANGED <<image, found, helper>> /\ wanted' = list /\ pc = "read"
        /\ (pc' = "made" /\ helper # <<>>) \/ (pc' = "failed" /\ UNCHANGED made)
    BY <1>4 DEF Compose
  <2>2. ASSUME Anchored(found), pc' = "made" PROVE Takers(made)'
    <3> DEFINE n == Len(found.dtbs)
    <3>1. made'.dtbs = [k \in 1 .. n |-> Change(k, list).dtb] BY <1>1, <1>4, <2>2, ShapedBy DEF TInv
    <3>2. \A k \in 1 .. n : Change(k, list).ok BY <1>1, <1>4, <2>2, ComposeMakes DEF TInv
    <3>3. \A k \in 1 .. n : Writable(Change(k, list).dtb)
      BY <2>1, <2>2, <3>2, ChangeTakes
    <3>4. \A k \in 1 .. n : made'.dtbs[k] = Change(k, list).dtb BY <3>1
    <3> QED BY <2>1, <3>3, <3>4 DEF Takers
  <2>3. ASSUME Anchored(found), pc' = "failed", helper # <<>> PROVE list = <<>>
    <3> SUFFICES ASSUME list # <<>> PROVE FALSE OBVIOUS
    <3> DEFINE change == [k \in DOMAIN image.dtbs |-> Change(k, list)]
    <3>1. DOMAIN image.dtbs = 1 .. Len(found.dtbs) BY <1>1 DEF TInv, Shaped
    <3>2. \A k \in DOMAIN image.dtbs : Change(k, list).ok BY <2>1, <2>3, <3>1, ChangeTakes
    <3>3. \A k \in DOMAIN change : change[k].ok BY <3>2
    <3>4. (helper # <<>> /\ \A k \in DOMAIN change : change[k].ok) => pc' = "made"
      BY <1>4 DEF Compose
    <3> QED BY <2>3, <3>3, <3>4
  <2>4. ASSUME Anchored(found) PROVE Takers(image)' /\ Takers(made)'
    <3>1. Takers(image) /\ Takers(made) BY <2>4 DEF WInv
    <3> QED BY <2>1, <2>2, <2>4, <3>1 DEF Takers
  <2>5. Anchored(found)' <=> Anchored(found) BY <2>1 DEF Anchored
  <2> QED BY <1>2, <2>1, <2>3, <2>4, <2>5 DEF WInv
<1>5. CASE Write
  <2>1. /\ UNCHANGED <<found, helper, made>> /\ pc' # "failed"
        /\ image' = made \/ image' = [made EXCEPT !.zipped = TRUE] \/ image' = image
    BY <1>5 DEF Write
  <2>2. image' = [made EXCEPT !.zipped = TRUE] => image'.dtbs = made.dtbs
    <3>1. made = [form |-> made.form, zipped |-> made.zipped, header |-> made.header, dtbs |-> made.dtbs]
      BY <1>1 DEF TInv, Shaped
    <3> QED BY <3>1
  <2>3. image'.dtbs = made.dtbs \/ image'.dtbs = image.dtbs BY <2>1, <2>2
  <2>4. Anchored(found)' <=> Anchored(found) BY <2>1 DEF Anchored
  <2>5. ASSUME Anchored(found) PROVE Takers(image)' /\ Takers(made)'
    <3>1. Takers(image) /\ Takers(made) BY <2>5 DEF WInv
    <3> QED BY <2>1, <2>3, <3>1 DEF Takers
  <2> QED BY <1>2, <2>1, <2>4, <2>5 DEF WInv
<1>6. CASE UNCHANGED vars
  <2>1. UNCHANGED <<image, found, helper, wanted, made, pc>> BY <1>6 DEF vars
  <2> QED BY <1>2, <2>1 DEF WInv, Anchored, Takers
<1> QED BY <1>3, <1>4, <1>5, <1>6 DEF Next

(* A DTB that has a phandle outside /partitions, and nothing after its     *)
(* root but FDT_END, is never refused a list of partitions, whatever was   *)
(* written to it or taken out of it before: what dts_compose_partitions_   *)
(* node writes, dts_get_partitions_from_node reads without objecting, and  *)
(* in it just the partitions asked for, in the order asked for (dtb_       *)
(* buffer_entry_implement_partitions).                                     *)
THEOREM WritableForEver ==
  ASSUME OnePartitions
  PROVE  Spec => []StaysWritable
<1>1. Init => WInv BY WInit
<1>2. WInv /\ [Next]_vars => WInv' BY WNext
<1>3. WInv => StaysWritable BY DEF WInv, StaysWritable
<1> QED BY <1>1, <1>2, <1>3, PTL DEF Spec
==============================================================================

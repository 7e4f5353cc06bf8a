---------------------------- MODULE EptWrite_proofs ----------------------------
(***************************************************************************)
(* For every disk, every pair of tables and every option: the plan that    *)
(* ept_migrate_plan draws up from two well-formed tables, in exact terms,  *)
(* that io_migrate can carry it out, that cli_write_ept writes the table   *)
(* only after the blocks, and that each partition's data is where the      *)
(* table then says.  The loops of ept_get_minimum_block are functions      *)
(* defined by recursion; what they return is proved with Recursion.        *)
(***************************************************************************)
EXTENDS EptWrite, Recursion

(***************************************************************************)
(* Arithmetic                                                              *)
(***************************************************************************)
(* x % block == 0 in the code.                                             *)
Divides(b, n) == n % b = 0

(* What a block size divides is so many whole blocks.                      *)
LEMMA Quotient ==
  ASSUME NEW b \in Nat \ {0}, NEW n \in Nat
  PROVE  /\ n \div b \in Nat
         /\ Divides(b, n) => n = b * (n \div b)
  BY DEF Divides

(* So many whole blocks, counted in blocks.                                *)
LEMMA QuotientOf ==
  ASSUME NEW b \in Nat \ {0}, NEW q \in Nat
  PROVE  (b * q) \div b = q /\ Divides(b, b * q)
  BY DEF Divides

(* Whole blocks are ordered as their numbers are.                          *)
LEMMA Ordered ==
  ASSUME NEW b \in Nat \ {0}, NEW p \in Nat, NEW q \in Nat
  PROVE  b * p <= b * q <=> p <= q
  OBVIOUS

(* block >>= 1 of an even block leaves a smaller one that fits twice.      *)
LEMMA Halving ==
  ASSUME NEW b \in Nat \ {0}, b # 1, b % 2 = 0
  PROVE  /\ b \div 2 \in Nat \ {0} /\ b \div 2 < b /\ b = 2 * (b \div 2)
  OBVIOUS

(* A block that divides a larger block divides what that one divides.      *)
LEMMA Transitive ==
  ASSUME NEW a \in Nat \ {0}, NEW b \in Nat \ {0}, NEW c \in Nat,
         Divides(a, b), Divides(b, c)
  PROVE  Divides(a, c)
<1>1. b = a * (b \div a) /\ c = b * (c \div b) /\ b \div a \in Nat /\ c \div b \in Nat
  BY Quotient
<1> DEFINE p == b \div a
           q == c \div b
<1>2. c = a * (p * q) /\ p * q \in Nat
  <2> HIDE DEF p, q
  <2>1. b = a * p /\ c = b * q /\ p \in Nat /\ q \in Nat BY <1>1 DEF p, q
  <2> QED BY <2>1
<1> HIDE DEF p, q
<1> QED BY <1>2, QuotientOf

(***************************************************************************)
(* The size of a block                                                     *)
(***************************************************************************)
(* What ept_get_minimum_block can come down to from MaxBlock.              *)
Divisors == {d \in 1 .. MaxBlock : Divides(d, MaxBlock)}

(* Offsets and sizes are natural numbers below 2^64.                       *)
LEMMA Fields ==
  ASSUME NEW parts \in Seq(Partition)
  PROVE  /\ Len(parts) \in Nat /\ DOMAIN parts = 1 .. Len(parts)
         /\ \A k \in 1 .. Len(parts) :
              /\ parts[k].offset \in Nat /\ parts[k].size \in Nat
              /\ parts[k].offset < Word /\ parts[k].size < Word
<1>1. ASSUME NEW k \in 1 .. Len(parts)
      PROVE  parts[k].offset \in Bytes /\ parts[k].size \in Bytes
  <2>1. parts[k] \in Partition OBVIOUS
  <2> QED BY <2>1 DEF Partition
<1> QED BY <1>1, TableAssumption DEF Bytes

(* One field halves the block or is divided by it; from a divisor of 4 MiB *)
(* it leads to a divisor of 4 MiB, and never to 0.                         *)
LEMMA HalvedBlock ==
  ASSUME NEW b \in Nat \ {0}, NEW n \in Nat
  PROVE  /\ Halved(b, n) \in Nat \ {0} /\ Halved(b, n) <= b
         /\ Halved(b, n) = b => Divides(b, n)
         /\ b \in Divisors => Halved(b, n) \in Divisors
<1>1. CASE n % b = 0 BY <1>1 DEF Halved, Divides
<1>2. CASE n % b # 0
  <2>1. b # 1 BY <1>2
  <2>2. b \div 2 \in Nat \ {0} /\ b \div 2 < b BY <2>1
  <2>3. ASSUME b \in Divisors PROVE b \div 2 \in Divisors
    <3>1. b \in 1 .. MaxBlock /\ Divides(b, MaxBlock) /\ MaxBlock \in Nat \ {0}
      BY <2>3, TableAssumption DEF Divisors
    <3>2. b % 2 = 0 BY <2>1, <3>1, BlockAssumption DEF Divides
    <3>3. b = (b \div 2) * 2 BY <2>1, <3>2, Halving
    <3>4. Divides(b \div 2, b) BY <2>2, <3>3, QuotientOf
    <3>5. Divides(b \div 2, MaxBlock) BY <2>2, <3>1, <3>4, Transitive
    <3> QED BY <2>2, <3>1, <3>5 DEF Divisors
  <2> QED BY <1>2, <2>2, <2>3 DEF Halved
<1> QED BY <1>1, <1>2

(* The loop over the partitions in ept_get_minimum_block can be run: there *)
(* is a sequence of blocks that its rounds lead through.                   *)
LEMMA PassMade ==
  ASSUME NEW parts \in Seq(Partition), NEW b \in Nat \ {0}
  PROVE  \E pass \in [0 .. Len(parts) -> Nat \ {0}] :
           /\ OnePass(parts, b) = pass[Len(parts)]
           /\ pass[0] = b
           /\ \A h \in 1 .. Len(parts) :
                pass[h] = Halved(Halved(pass[h - 1], parts[h].offset), parts[h].size)
<1> DEFINE n == Len(parts)
           S == Nat \ {0}
           New(x, h) == Halved(Halved(x, parts[h].offset), parts[h].size)
           round == [x \in (1 .. n) \X S |-> New(x[2], x[1])]
           Is(f) == f = [h \in 0 .. n |-> IF h = 0 THEN b ELSE New(f[h - 1], h)]
           pass == CHOOSE f : Is(f)
<1>1. n \in Nat /\ \A h \in 1 .. n : parts[h].offset \in Nat /\ parts[h].size \in Nat
  BY Fields
<1>2. ASSUME NEW h \in 1 .. n, NEW x \in S PROVE New(x, h) \in S
  BY <1>1, HalvedBlock
<1>3. OnePass(parts, b) = pass[n] BY DEF OnePass
<1> HIDE DEF n, New
<1>4. round \in [(1 .. n) \X S -> S] BY <1>2
<1>5. \A h \in 1 .. n, x \in S : round[<<h, x>>] = New(x, h) OBVIOUS
<1> HIDE DEF round, S
<1>6. b \in S BY DEF S
<1>7. PICK f \in [0 .. n -> S] : Recurses(f, n, b, round) BY <1>1, <1>4, <1>6, Recursion
<1>8. Is(f)
  <2>1. ASSUME NEW h \in 0 .. n PROVE f[h] = IF h = 0 THEN b ELSE New(f[h - 1], h)
    <3>1. CASE h = 0 BY <1>7, <3>1 DEF Recurses
    <3>2. CASE h # 0
      <4>1. h \in 1 .. n /\ h - 1 \in 0 .. n BY <1>1, <3>2
      <4>2. f[h] = round[<<h, f[h - 1]>>] BY <1>7, <4>1 DEF Recurses
      <4> QED BY <1>5, <3>2, <4>1, <4>2
    <3> QED BY <3>1, <3>2
  <2> QED BY <2>1
<1>9. Is(pass)
  <2> HIDE DEF Is
  <2> QED BY <1>8
<1> HIDE DEF pass
<1>10. pass[0] = b /\ \A h \in 1 .. n : pass[h] = New(pass[h - 1], h)
  BY <1>1, <1>9
<1>11. pass \in [0 .. n -> S]
  <2> DEFINE T == {h \in 0 .. n : pass[h] \in S}
  <2>1. 0 \in T BY <1>1, <1>6, <1>10
  <2>2. \A h \in 1 .. n : h - 1 \in T => h \in T BY <1>2, <1>10
  <2> HIDE DEF T
  <2>3. \A h \in 0 .. n : h \in T BY <1>1, <2>1, <2>2, Induction
  <2>4. \A h \in 0 .. n : pass[h] \in S BY <2>3 DEF T
  <2> QED BY <1>9, <2>4
<1> QED BY <1>3, <1>10, <1>11 DEF n, New, S

(* A pass never makes the block larger or 0; one that does not change the  *)
(* block has found that it divides every offset and every size.            *)
LEMMA PassDivides ==
  ASSUME NEW parts \in Seq(Partition), NEW b \in Nat \ {0}
  PROVE  /\ OnePass(parts, b) \in Nat \ {0} /\ OnePass(parts, b) <= b
         /\ b \in Divisors => OnePass(parts, b) \in Divisors
         /\ OnePass(parts, b) = b =>
              \A k \in DOMAIN parts : Divides(b, parts[k].offset) /\ Divides(b, parts[k].size)
<1> DEFINE n == Len(parts)
<1>0. n \in Nat BY Fields
<1>1. PICK pass \in [0 .. n -> Nat \ {0}] :
           /\ OnePass(parts, b) = pass[n]
           /\ pass[0] = b
           /\ \A h \in 1 .. n :
                pass[h] = Halved(Halved(pass[h - 1], parts[h].offset), parts[h].size)
  BY PassMade
<1>2. ASSUME NEW h \in 1 .. n
      PROVE  /\ pass[h] <= pass[h - 1]
             /\ pass[h - 1] \in Divisors => pass[h] \in Divisors
             /\ pass[h] = pass[h - 1] => /\ Divides(pass[h - 1], parts[h].offset)
                                        /\ Divides(pass[h - 1], parts[h].size)
  <2> DEFINE x == pass[h - 1]
             y == Halved(x, parts[h].offset)
             z == Halved(y, parts[h].size)
  <2>1. x \in Nat \ {0} /\ parts[h].offset \in Nat /\ parts[h].size \in Nat /\ pass[h] = z
    BY <1>1, Fields
  <2> HIDE DEF x, y, z
  <2>2. /\ y \in Nat \ {0} /\ y <= x /\ (y = x => Divides(x, parts[h].offset))
        /\ (x \in Divisors => y \in Divisors)
    BY <2>1, HalvedBlock DEF y
  <2>3. /\ z \in Nat \ {0} /\ z <= y /\ (z = y => Divides(y, parts[h].size))
        /\ (y \in Divisors => z \in Divisors)
    BY <2>1, <2>2, HalvedBlock DEF z
  <2>4. z = x => y = x /\ z = y BY <2>1, <2>2, <2>3
  <2> QED BY <2>1, <2>2, <2>3, <2>4 DEF x
<1>3. \A h \in 0 .. n : pass[h] <= b
  <2> DEFINE T == {h \in 0 .. n : pass[h] <= b}
  <2>1. 0 \in T BY <1>0, <1>1
  <2>2. ASSUME NEW h \in 1 .. n, h - 1 \in T PROVE h \in T
    BY <1>2, <2>2
  <2> HIDE DEF T
  <2>3. \A h \in 0 .. n : h \in T BY <1>0, <2>1, <2>2, Induction
  <2> QED BY <2>3 DEF T
<1>4. \A h \in 0 .. n : pass[n] <= pass[n - h]
  <2> DEFINE T == {h \in 0 .. n : pass[n] <= pass[n - h]}
  <2>1. 0 \in T BY <1>0
  <2>2. ASSUME NEW h \in 1 .. n, h - 1 \in T PROVE h \in T
    <3>1. n - (h - 1) \in 1 .. n /\ n - (h - 1) - 1 = n - h OBVIOUS
    <3>2. pass[n - (h - 1)] <= pass[n - h] BY <1>2, <3>1
    <3>3. pass[n] <= pass[n - (h - 1)] BY <2>2
    <3>4. pass[n] \in Nat /\ pass[n - h] \in Nat /\ pass[n - (h - 1)] \in Nat BY <1>0, <3>1
    <3> QED BY <3>2, <3>3, <3>4
  <2> HIDE DEF T
  <2>3. \A h \in 0 .. n : h \in T BY <1>0, <2>1, <2>2, Induction
  <2> QED BY <2>3 DEF T
<1>5. ASSUME b \in Divisors PROVE pass[n] \in Divisors
  <2> DEFINE T == {h \in 0 .. n : pass[h] \in Divisors}
  <2>1. 0 \in T BY <1>0, <1>1, <1>5
  <2>2. ASSUME NEW h \in 1 .. n, h - 1 \in T PROVE h \in T
    BY <1>2, <2>2
  <2> HIDE DEF T
  <2>3. \A h \in 0 .. n : h \in T BY <1>0, <2>1, <2>2, Induction
  <2> QED BY <1>0, <2>3 DEF T
<1>6. ASSUME pass[n] = b, NEW k \in 1 .. n
      PROVE  Divides(b, parts[k].offset) /\ Divides(b, parts[k].size)
  <2>1. \A h \in 0 .. n : pass[h] = b
    <3>1. ASSUME NEW h \in 0 .. n PROVE pass[h] = b
      <4>1. n - h \in 0 .. n /\ n - (n - h) = h OBVIOUS
      <4>2. pass[n] <= pass[h] BY <1>4, <4>1
      <4> QED BY <1>3, <1>6, <4>2
    <3> QED BY <3>1
  <2>2. k \in 0 .. n /\ k - 1 \in 0 .. n OBVIOUS
  <2> QED BY <1>2, <2>1, <2>2
<1> QED BY <1>0, <1>1, <1>3, <1>5, <1>6, Fields

(* ept_get_minimum_block ends, and its block divides every offset and      *)
(* every size of the table, whatever table: the plan loses no remainder.   *)
LEMMA MinimumBlockDivides ==
  ASSUME NEW parts \in Seq(Partition)
  PROVE  /\ MinimumBlock(parts) \in Divisors
         /\ \A k \in DOMAIN parts : /\ Divides(MinimumBlock(parts), parts[k].offset)
                                    /\ Divides(MinimumBlock(parts), parts[k].size)
<1> DEFINE next == [b \in 1 .. MaxBlock |-> OnePass(parts, b)]
           Is(f) == f = [b \in 1 .. MaxBlock |->
                           IF OnePass(parts, b) = b THEN b ELSE f[OnePass(parts, b)]]
           settle == CHOOSE f : Is(f)
<1>1. MaxBlock \in Nat \ {0} BY TableAssumption
<1>2. ASSUME NEW b \in 1 .. MaxBlock PROVE OnePass(parts, b) \in 1 .. MaxBlock /\ OnePass(parts, b) <= b
  BY <1>1, PassDivides
<1>3. next \in [1 .. MaxBlock -> 1 .. MaxBlock] /\ \A b \in 1 .. MaxBlock : next[b] <= b
  BY <1>2
<1>4. \A b \in 1 .. MaxBlock : next[b] = OnePass(parts, b) OBVIOUS
<1> HIDE DEF next
<1>5. PICK f \in [1 .. MaxBlock -> 1 .. MaxBlock] :
            \A b \in 1 .. MaxBlock : f[b] = IF next[b] = b THEN b ELSE f[next[b]]
  BY <1>1, <1>3, Descent
<1>6. Is(f) BY <1>4, <1>5
<1>7. Is(settle)
  <2> HIDE DEF Is
  <2> QED BY <1>6
<1>8. MinimumBlock(parts) = settle[MaxBlock] BY DEF MinimumBlock
<1> HIDE DEF settle
<1>9. \A b \in 1 .. MaxBlock :
         settle[b] = IF OnePass(parts, b) = b THEN b ELSE settle[OnePass(parts, b)]
  BY <1>7
<1> DEFINE Good(d) == /\ d \in Divisors
                      /\ \A k \in DOMAIN parts : Divides(d, parts[k].offset) /\ Divides(d, parts[k].size)
           Bad == {b \in Divisors : ~Good(settle[b])}
<1>10. Bad = {}
  <2> SUFFICES ASSUME Bad # {} PROVE FALSE OBVIOUS
  <2>1. Bad \in SUBSET Nat BY DEF Divisors
  <2>2. PICK b \in Bad : \A c \in Bad : b <= c
    <3> HIDE DEF Bad
    <3> QED BY <2>1, LeastElement
  <2>3. b \in Divisors /\ ~Good(settle[b]) OBVIOUS
  <2>4. b \in 1 .. MaxBlock /\ b \in Nat \ {0} BY <2>3 DEF Divisors
  <2>5. CASE OnePass(parts, b) = b
    <3>1. settle[b] = b BY <1>9, <2>4, <2>5
    <3> QED BY <2>3, <2>4, <2>5, <3>1, PassDivides
  <2>6. CASE OnePass(parts, b) # b
    <3> DEFINE c == OnePass(parts, b)
    <3>1. c \in Divisors /\ c < b BY <2>3, <2>4, <2>6, PassDivides
    <3>2. settle[b] = settle[c] BY <1>9, <2>4, <2>6
    <3> HIDE DEF c, Good
    <3>3. c \in Bad BY <2>3, <3>1, <3>2
    <3>4. b <= c BY <2>2, <3>3
    <3>5. c \in Nat BY <2>1, <3>3
    <3> QED BY <2>4, <3>1, <3>4, <3>5
  <2> QED BY <2>5, <2>6
<1>11. MaxBlock \in Divisors
  <2>1. MaxBlock = MaxBlock * 1 BY <1>1
  <2>2. Divides(MaxBlock, MaxBlock) BY <1>1, <2>1, QuotientOf
  <2> QED BY <1>1, <2>2 DEF Divisors
<1>12. Good(settle[MaxBlock])
  <2> HIDE DEF Good
  <2> QED BY <1>10, <1>11
<1> QED BY <1>8, <1>12

(* Of two divisors of 4 MiB the smaller divides the larger.                *)
LEMMA DivisorsChain ==
  ASSUME NEW x \in Divisors, NEW y \in Divisors, x <= y
  PROVE  Divides(x, y)
<1> DEFINE Bad == {b \in Divisors : \E a \in Divisors : a <= b /\ ~Divides(a, b)}
<1>1. \A d \in Divisors : d \in Nat \ {0} BY DEF Divisors
<1>2. Bad = {}
  <2> SUFFICES ASSUME Bad # {} PROVE FALSE OBVIOUS
  <2>1. PICK b \in Bad : \A c \in Bad : b <= c
    <3>1. Bad \in SUBSET Nat BY <1>1
    <3> HIDE DEF Bad
    <3> QED BY <3>1, LeastElement
  <2>2. PICK a \in Divisors : a <= b /\ ~Divides(a, b) OBVIOUS
  <2>3. a \in Nat \ {0} /\ b \in Nat \ {0} /\ b \in Divisors BY <1>1
  <2>4. a # 1 BY <2>2, <2>3 DEF Divides
  <2>5. b # 1 BY <2>2, <2>3, <2>4
  <2>6. ASSUME NEW d \in Divisors, d # 1
        PROVE  /\ d = (d \div 2) * 2 /\ d \div 2 \in Divisors /\ d \div 2 \in Nat \ {0}
               /\ d \div 2 < d
    <3>1. d \in Nat \ {0} /\ d \in 1 .. MaxBlock /\ Divides(d, MaxBlock) BY <1>1 DEF Divisors
    <3>2. d % 2 = 0 BY <2>6, <3>1, BlockAssumption DEF Divides
    <3>3. d \div 2 \in Nat \ {0} /\ d \div 2 < d /\ d = (d \div 2) * 2 BY <2>6, <3>1, <3>2, Halving
    <3>4. Divides(d \div 2, d) BY <3>3, QuotientOf
    <3>5. MaxBlock \in Nat \ {0} BY TableAssumption
    <3>6. Divides(d \div 2, MaxBlock) BY <3>1, <3>3, <3>4, <3>5, Transitive
    <3> QED BY <3>1, <3>3, <3>5, <3>6 DEF Divisors
  <2> DEFINE p == a \div 2
             q == b \div 2
  <2>7. p \in Divisors /\ q \in Divisors /\ p \in Nat \ {0} /\ q \in Nat \ {0}
        /\ a = p * 2 /\ b = q * 2 /\ q < b
    BY <2>3, <2>4, <2>5, <2>6
  <2> HIDE DEF p, q
  <2>8. q \notin Bad
    <3> HIDE DEF Bad
    <3> QED BY <2>1, <2>3, <2>7
  <2>9. p <= q BY <2>2, <2>7
  <2>10. Divides(p, q) BY <2>7, <2>8, <2>9
  <2>11. q = p * (q \div p) /\ q \div p \in Nat BY <2>7, <2>10, Quotient
  <2>12. b = a * (q \div p)
    <3> DEFINE r == q \div p
    <3>1. q = p * r /\ r \in Nat BY <2>11
    <3> HIDE DEF r
    <3> QED BY <2>7, <3>1
  <2>13. Divides(a, b) BY <2>3, <2>11, <2>12, QuotientOf
  <2> QED BY <2>2, <2>13
<1> QED BY <1>2

(***************************************************************************)
(* The tables in blocks                                                    *)
(***************************************************************************)
(* mhelper->block, the smaller of the two minimum blocks.                  *)
BlockOf(old, new) == Least(MinimumBlock(old), MinimumBlock(new))

(* The block chosen for two tables divides the offsets and sizes of both.  *)
LEMMA BlockDivides ==
  ASSUME NEW old \in Seq(Partition), NEW new \in Seq(Partition)
  PROVE  /\ BlockOf(old, new) \in Nat \ {0}
         /\ \A k \in DOMAIN old : /\ Divides(BlockOf(old, new), old[k].offset)
                                  /\ Divides(BlockOf(old, new), old[k].size)
         /\ \A k \in DOMAIN new : /\ Divides(BlockOf(old, new), new[k].offset)
                                  /\ Divides(BlockOf(old, new), new[k].size)
<1> DEFINE x == MinimumBlock(old)
           y == MinimumBlock(new)
           b == BlockOf(old, new)
<1>1. x \in Divisors /\ y \in Divisors BY MinimumBlockDivides
<1>2. x \in Nat \ {0} /\ y \in Nat \ {0} BY <1>1 DEF Divisors
<1>3. /\ \A k \in DOMAIN old : Divides(x, old[k].offset) /\ Divides(x, old[k].size)
      /\ \A k \in DOMAIN new : Divides(y, new[k].offset) /\ Divides(y, new[k].size)
  BY MinimumBlockDivides
<1>4. (b = x \/ b = y) /\ b <= x /\ b <= y
  <2> HIDE DEF x, y
  <2>1. b = Least(x, y) BY DEF BlockOf, x, y
  <2> QED BY <1>2, <2>1 DEF Least
<1> HIDE DEF x, y, b
<1>5. b \in Nat \ {0} /\ Divides(b, x) /\ Divides(b, y)
  <2>1. Divides(x, x) /\ Divides(y, y)
    <3>1. x = x * 1 /\ y = y * 1 BY <1>2
    <3> QED BY <1>2, <3>1, QuotientOf
  <2> QED BY <1>1, <1>2, <1>4, <2>1, DivisorsChain
<1>6. ASSUME NEW d \in Nat \ {0}, Divides(b, d), NEW n \in Nat, Divides(d, n) PROVE Divides(b, n)
  <2>1. CASE n = 0 BY <1>5, <2>1 DEF Divides
  <2>2. CASE n # 0 BY <1>5, <1>6, <2>2, Transitive
  <2> QED BY <2>1, <2>2
<1>7. /\ \A k \in DOMAIN old : old[k].offset \in Nat /\ old[k].size \in Nat
      /\ \A k \in DOMAIN new : new[k].offset \in Nat /\ new[k].size \in Nat
  BY Fields
<1>8. /\ \A k \in DOMAIN old : Divides(b, old[k].offset) /\ Divides(b, old[k].size)
      /\ \A k \in DOMAIN new : Divides(b, new[k].offset) /\ Divides(b, new[k].size)
  BY <1>2, <1>3, <1>5, <1>6, <1>7
<1> QED BY <1>5, <1>8 DEF b

(* ept_get_capacity is where the partition that ends last ends.            *)
LEMMA CapacityBounds ==
  ASSUME NEW parts \in Seq(Partition)
  PROVE  /\ Capacity(parts) \in Nat
         /\ \A k \in DOMAIN parts : End(parts[k]) <= Capacity(parts)
         /\ Capacity(parts) = 0 \/ \E k \in DOMAIN parts : Capacity(parts) = End(parts[k])
<1> DEFINE S == {0} \union {End(parts[k]) : k \in DOMAIN parts}
<1>1. \A k \in DOMAIN parts : End(parts[k]) \in Nat /\ End(parts[k]) <= Word
  <2> SUFFICES ASSUME NEW k \in DOMAIN parts PROVE End(parts[k]) \in Nat /\ End(parts[k]) <= Word
    OBVIOUS
  <2>1. parts[k].offset \in Nat /\ parts[k].size \in Nat /\ Word \in Nat \ {0}
    BY Fields, TableAssumption
  <2> QED BY <2>1 DEF End, Add
<1>2. S \in SUBSET Nat /\ S # {} /\ \A x \in S : x <= Word
  BY <1>1, TableAssumption
<1>3. \E m \in S : \A x \in S : x <= m
  <2> HIDE DEF S
  <2>1. Word \in Nat BY TableAssumption
  <2> QED BY <1>2, <2>1, GreatestElement
<1>4. Capacity(parts) = Greatest(S) BY DEF Capacity
<1>5. Greatest(S) \in S /\ \A x \in S : Greatest(S) >= x
  <2> HIDE DEF S
  <2>1. \E m \in S : \A x \in S : m >= x
    <3>1. \A m, x \in S : x <= m <=> m >= x BY <1>2
    <3> QED BY <1>3, <3>1
  <2> QED BY <2>1 DEF Greatest
<1>6. \A x \in S : x <= Greatest(S)
  <2> HIDE DEF S
  <2> QED BY <1>2, <1>5
<1> DEFINE g == Greatest(S)
<1>7. g \in S /\ (\A x \in S : x <= g) /\ Capacity(parts) = g /\ g \in Nat
  BY <1>2, <1>4, <1>5, <1>6
<1> HIDE DEF g
<1> QED BY <1>7

(* As many whole blocks as fit below a limit are at most what it counts.   *)
LEMMA Floor ==
  ASSUME NEW b \in Nat \ {0}, NEW q \in Nat, NEW n \in Nat, b * q <= n
  PROVE  q <= n \div b
<1> DEFINE d == n \div b
           r == n % b
<1>1. d \in Nat /\ r \in Nat /\ r < b /\ n = b * d + r OBVIOUS
<1> HIDE DEF d, r
<1>2. b * q < b * (d + 1) BY <1>1
<1>3. ~(d + 1 <= q)
  <2>1. d + 1 \in Nat BY <1>1
  <2>2. b * (d + 1) \in Nat /\ b * q \in Nat BY <2>1
  <2> QED BY <1>2, <2>1, <2>2, Ordered
<1>4. q <= d BY <1>1, <1>3
<1> QED BY <1>4 DEF d

(* The smaller of two sizes, in blocks, is the smaller number of blocks.   *)
LEMMA LeastInBlocks ==
  ASSUME NEW b \in Nat \ {0}, NEW x \in Nat, NEW y \in Nat, Divides(b, x), Divides(b, y)
  PROVE  Least(x, y) \div b = Least(x \div b, y \div b)
<1> DEFINE p == x \div b
           q == y \div b
<1>1. p \in Nat /\ q \in Nat /\ x = b * p /\ y = b * q BY Quotient
<1> HIDE DEF p, q
<1>2. ~(p < q) => b * q <= b * p BY <1>1
<1>3. p < q => b * p < b * q BY <1>1
<1>4. (x < y) <=> (p < q)
  <2>1. x \in Nat /\ y \in Nat OBVIOUS
  <2> QED BY <1>1, <1>2, <1>3, <2>1
<1>5. Least(p, q) = IF x < y THEN p ELSE q BY <1>4 DEF Least
<1> QED BY <1>5 DEF Least, p, q

(* Partitions that do not wrap end within the capacity, also counted in    *)
(* blocks, and those that do not overlap share no block.                   *)
LEMMA InBlocks ==
  ASSUME NEW parts \in Seq(Partition), NEW b \in Nat \ {0}, Unwrapped(parts),
         \A k \in DOMAIN parts : Divides(b, parts[k].offset) /\ Divides(b, parts[k].size)
  PROVE  /\ \A k \in DOMAIN parts :
              /\ parts[k].offset \div b \in Nat /\ parts[k].size \div b \in Nat
              /\ parts[k].offset = b * (parts[k].offset \div b)
              /\ parts[k].offset \div b + parts[k].size \div b <= Capacity(parts) \div b
         /\ WellFormed(parts) => \A k, l \in DOMAIN parts : k # l =>
              \/ parts[k].size \div b = 0 \/ parts[l].size \div b = 0
              \/ parts[k].offset \div b + parts[k].size \div b <= parts[l].offset \div b
              \/ parts[l].offset \div b + parts[l].size \div b <= parts[k].offset \div b
<1> DEFINE O(k) == parts[k].offset \div b
           S(k) == parts[k].size \div b
<1>1. ASSUME NEW k \in DOMAIN parts
      PROVE  /\ O(k) \in Nat /\ S(k) \in Nat
             /\ parts[k].offset = b * O(k) /\ parts[k].size = b * S(k)
             /\ parts[k].offset \in Nat /\ parts[k].size \in Nat
  BY Quotient, Fields
<1> HIDE DEF O, S
<1>2. ASSUME NEW k \in DOMAIN parts
      PROVE  End(parts[k]) = b * (O(k) + S(k)) /\ O(k) + S(k) \in Nat
  <2>1. parts[k].offset + parts[k].size < Word BY DEF Unwrapped
  <2>2. End(parts[k]) = parts[k].offset + parts[k].size
    <3> DEFINE e == parts[k].offset + parts[k].size
    <3>1. e \in Nat /\ e < Word /\ Word \in Nat BY <1>1, <2>1, TableAssumption
    <3> HIDE DEF e
    <3>2. e % Word = e BY <3>1
    <3> QED BY <3>2 DEF e, End, Add
  <2> QED BY <1>1, <2>2
<1>3. ASSUME NEW k \in DOMAIN parts PROVE O(k) + S(k) <= Capacity(parts) \div b
  <2> DEFINE c == Capacity(parts)
  <2>1. c \in Nat /\ b * (O(k) + S(k)) <= c BY <1>2, CapacityBounds
  <2> HIDE DEF c
  <2>2. O(k) + S(k) <= c \div b BY <1>2, <2>1, Floor
  <2> QED BY <2>2 DEF c
<1>4. ASSUME WellFormed(parts), NEW k \in DOMAIN parts, NEW l \in DOMAIN parts, k # l
      PROVE  S(k) = 0 \/ S(l) = 0 \/ O(k) + S(k) <= O(l) \/ O(l) + S(l) <= O(k)
  <2>1. Disjoint(parts[k], parts[l]) BY <1>4 DEF WellFormed
  <2>2. \/ b * S(k) = 0 \/ b * S(l) = 0
        \/ b * (O(k) + S(k)) <= b * O(l) \/ b * (O(l) + S(l)) <= b * O(k)
    BY <1>1, <1>2, <2>1 DEF Disjoint
  <2>3. /\ b * S(k) = 0 => S(k) = 0
        /\ b * S(l) = 0 => S(l) = 0
    BY <1>1
  <2> QED BY <1>1, <1>2, <2>2, <2>3, Ordered
<1> QED BY <1>1, <1>3, <1>4 DEF O, S

(* For partitions within the two capacities neither shrink of              *)
(* ept_migrate_plan applies and no block id is cut off: the move is the    *)
(* smaller of the two sizes, from the old offset to the new.               *)
LEMMA ExtentExact ==
  ASSUME NEW from \in Partition, NEW to \in Partition, NEW b \in Nat \ {0},
         NEW totalFrom \in Nat, NEW totalTo \in Nat,
         Divides(b, from.offset), Divides(b, from.size),
         Divides(b, to.offset), Divides(b, to.size),
         from.offset \div b + from.size \div b <= totalFrom, totalFrom < IdLimit,
         to.offset \div b + to.size \div b <= totalTo, totalTo < IdLimit
  PROVE  Extent(from, to, b, totalFrom, totalTo) =
           [start |-> from.offset \div b, goal |-> to.offset \div b,
            count |-> Least(from.size \div b, to.size \div b)]
<1> DEFINE O == from.offset \div b
           S == from.size \div b
           P == to.offset \div b
           T == to.size \div b
           n == Least(S, T)
<1>1. O \in Nat /\ S \in Nat /\ P \in Nat /\ T \in Nat
      /\ O + S <= totalFrom /\ P + T <= totalTo
  <2>1. from.offset \in Nat /\ from.size \in Nat /\ to.offset \in Nat /\ to.size \in Nat
    BY TableAssumption DEF Partition, Bytes
  <2> QED BY <2>1, Quotient
<1>2. Least(from.size, to.size) \div b = n
  <2>1. from.size \in Nat /\ to.size \in Nat BY TableAssumption DEF Partition, Bytes
  <2> QED BY <2>1, LeastInBlocks
<1> HIDE DEF O, S, P, T
<1>3. n \in Nat /\ n <= S /\ n <= T BY <1>1 DEF Least
<1>4. IdLimit \in Nat \ {0} /\ \A m \in Nat : m < IdLimit => Id(m) = m
  BY IdAssumption DEF Id
<1> HIDE DEF n
<1>5. Id(O) = O /\ Id(P) = P /\ Id(n) = n /\ Id(O + n) = O + n /\ Id(P + n) = P + n
  <2>1. O < IdLimit /\ P < IdLimit /\ n < IdLimit /\ O + n < IdLimit /\ P + n < IdLimit
    BY <1>1, <1>3, <1>4
  <2> QED BY <1>1, <1>3, <1>4, <2>1
<1>6. Extent(from, to, b, totalFrom, totalTo) = Shrunk(O, P, n, totalFrom, totalTo)
  BY <1>2, <1>5 DEF Extent, O, P
<1>7. ~(O + n > totalFrom) /\ ~(P + n > totalTo) BY <1>1, <1>3
<1>8. Shrunk(O, P, n, totalFrom, totalTo) = [start |-> O, goal |-> P, count |-> n]
  BY <1>5, <1>7 DEF Shrunk
<1> QED BY <1>6, <1>8 DEF O, P, S, T, n

(***************************************************************************)
(* The plan                                                                *)
(***************************************************************************)
(* The partitions the two loops of ept_migrate_plan plan a move for.       *)
Pairs(old, new, all) ==
  {p \in (DOMAIN old) \X (DOMAIN new) :
     /\ all \/ old[p[1]].name \in Essential
     /\ old[p[1]].name = new[p[2]].name
     /\ old[p[1]].offset # new[p[2]].offset}

(* Where such a move starts, where it goes, how many blocks it takes;      *)
(* which blocks it takes and where it puts each of them.                   *)
From(old, new, p) == old[p[1]].offset \div BlockOf(old, new)
Into(old, new, p) == new[p[2]].offset \div BlockOf(old, new)
Length(old, new, p) ==
  Least(old[p[1]].size \div BlockOf(old, new), new[p[2]].size \div BlockOf(old, new))

(* No two moves between well-formed tables take or overwrite a block in    *)
(* common.                                                                 *)
LEMMA PairsApart ==
  ASSUME NEW old \in Seq(Partition), NEW new \in Seq(Partition), NEW all,
         WellFormed(old), WellFormed(new),
         NEW p \in Pairs(old, new, all), NEW q \in Pairs(old, new, all), p # q,
         Length(old, new, p) > 0, Length(old, new, q) > 0
  PROVE  /\ \/ From(old, new, p) + Length(old, new, p) <= From(old, new, q)
            \/ From(old, new, q) + Length(old, new, q) <= From(old, new, p)
         /\ \/ Into(old, new, p) + Length(old, new, p) <= Into(old, new, q)
            \/ Into(old, new, q) + Length(old, new, q) <= Into(old, new, p)
<1> DEFINE b == BlockOf(old, new)
           k == p[1]
           l == p[2]
           m == q[1]
           n == q[2]
<1>1. /\ k \in DOMAIN old /\ m \in DOMAIN old /\ l \in DOMAIN new /\ n \in DOMAIN new
      /\ old[k].name = new[l].name /\ old[m].name = new[n].name
      /\ p = <<k, l>> /\ q = <<m, n>>
  BY DEF Pairs
<1>2. k # m /\ l # n
  <2>1. k = m => l = n BY <1>1 DEF WellFormed, NamesUnique
  <2>2. l = n => k = m BY <1>1 DEF WellFormed, NamesUnique
  <2> QED BY <1>1, <2>1, <2>2
<1>3. /\ b \in Nat \ {0}
      /\ \A j \in DOMAIN old : Divides(b, old[j].offset) /\ Divides(b, old[j].size)
      /\ \A j \in DOMAIN new : Divides(b, new[j].offset) /\ Divides(b, new[j].size)
  BY BlockDivides
<1> DEFINE O(j) == old[j].offset \div b
           S(j) == old[j].size \div b
           P(j) == new[j].offset \div b
           T(j) == new[j].size \div b
<1>4. /\ From(old, new, p) = O(k) /\ From(old, new, q) = O(m)
      /\ Into(old, new, p) = P(l) /\ Into(old, new, q) = P(n)
      /\ Length(old, new, p) = Least(S(k), T(l)) /\ Length(old, new, q) = Least(S(m), T(n))
  BY DEF From, Into, Length
<1> HIDE DEF b
<1> Unwrapped(old) /\ Unwrapped(new) BY DEF WellFormed
<1>5. /\ \A j \in DOMAIN old : O(j) \in Nat /\ S(j) \in Nat
      /\ S(k) = 0 \/ S(m) = 0 \/ O(k) + S(k) <= O(m) \/ O(m) + S(m) <= O(k)
  BY <1>1, <1>2, <1>3, InBlocks
<1>6. /\ \A j \in DOMAIN new : P(j) \in Nat /\ T(j) \in Nat
      /\ T(l) = 0 \/ T(n) = 0 \/ P(l) + T(l) <= P(n) \/ P(n) + T(n) <= P(l)
  BY <1>1, <1>2, <1>3, InBlocks
<1> HIDE DEF O, S, P, T, k, l, m, n
<1>7. /\ O(k) \in Nat /\ S(k) \in Nat /\ O(m) \in Nat /\ S(m) \in Nat
      /\ P(l) \in Nat /\ T(l) \in Nat /\ P(n) \in Nat /\ T(n) \in Nat
  BY <1>1, <1>5, <1>6
<1> QED BY <1>4, <1>5, <1>6, <1>7 DEF Least

Covers(old, new, p, b) ==
  b \in From(old, new, p) .. From(old, new, p) + Length(old, new, p) - 1
Goal(old, new, p, b) == Into(old, new, p) + (b - From(old, new, p))

(* The plan of two tables that do not wrap: every move of a pair lies      *)
(* within the disk, its blocks are the pending ones, and the target of a   *)
(* pending block is the one some pair gives it.  This holds of overlapping *)
(* layouts too, where the last pair wins.                                  *)
LEMMA PlanShape ==
  ASSUME NEW old \in Seq(Partition), NEW new \in Seq(Partition), NEW all,
         Unwrapped(old), Unwrapped(new), Fits(old, new), Count < IdLimit,
         Plan(old, new, all).ok
  PROVE  LET plan == Plan(old, new, all)
             pairs == Pairs(old, new, all)
         IN /\ plan.block = BlockOf(old, new)
            /\ plan.count \in 0 .. Count
            /\ plan.pending \subseteq 0 .. plan.count - 1
            /\ \A p \in pairs : /\ From(old, new, p) \in Nat /\ Into(old, new, p) \in Nat
                                /\ Length(old, new, p) \in Nat
                                /\ From(old, new, p) # Into(old, new, p)
                                /\ From(old, new, p) + Length(old, new, p) <= plan.count
                                /\ Into(old, new, p) + Length(old, new, p) <= plan.count
            /\ \A b \in plan.pending : \E p \in pairs :
                 Covers(old, new, p, b) /\ plan.target[b] = Goal(old, new, p, b)
            /\ \A p \in pairs, b \in 0 .. plan.count - 1 :
                 Covers(old, new, p, b) => b \in plan.pending
<1> DEFINE block == Least(MinimumBlock(old), MinimumBlock(new))
           capacityOld == Capacity(old)
           capacityNew == Capacity(new)
           totalOld == capacityOld \div block
           totalNew == capacityNew \div block
           count == Id(IF capacityOld > capacityNew THEN totalOld ELSE totalNew)
           pairs == {p \in (DOMAIN old) \X (DOMAIN new) :
                  /\ all \/ old[p[1]].name \in Essential
                  /\ old[p[1]].name = new[p[2]].name
                  /\ old[p[1]].offset # new[p[2]].offset}
           extent == [p \in pairs |-> Extent(old[p[1]], new[p[2]], block, totalOld, totalNew)]
           covering == [b \in 0 .. count - 1 |->
                     {p \in pairs : b \in extent[p].start ..
                                          extent[p].start + extent[p].count - 1}]
           last(S) == CHOOSE p \in S : \A q \in S :
                   q[1] < p[1] \/ (q[1] = p[1] /\ q[2] <= p[2])
           touched == {b \in 0 .. count - 1 : covering[b] # {}}
           goals == [b \in 0 .. count - 1 |->
                       IF covering[b] = {} THEN 0
                       ELSE LET e == extent[last(covering[b])]
                            IN e.goal + (b - e.start)]
           refused == \/ old = <<>> \/ new = <<>>
                      \/ capacityOld = 0 \/ capacityNew = 0
                      \/ capacityOld % block # 0 \/ capacityNew % block # 0
                      \/ \E p \in pairs : extent[p].start >= totalOld \/ extent[p].goal >= totalNew
           plan == [ok |-> TRUE, block |-> block, count |-> count, pending |-> touched,
                    target |-> goals]
<1>1. Plan(old, new, all) = IF refused THEN [ok |-> FALSE, block |-> block] ELSE plan
  BY DEF Plan
<1>2. Plan(old, new, all) = plan
  <2> HIDE DEF refused, plan
  <2>1. CASE refused
    <3> HIDE DEF block
    <3> QED BY <1>1, <2>1
  <2> QED BY <1>1, <2>1
<1>3. block = BlockOf(old, new) /\ pairs = Pairs(old, new, all) BY DEF BlockOf, Pairs
<1>4. totalOld <= Count /\ totalNew <= Count BY DEF Fits
<1>5. capacityOld \in Nat /\ capacityNew \in Nat /\ block \in Nat \ {0}
  BY <1>3, CapacityBounds, BlockDivides
<1>6. /\ \A j \in DOMAIN old : Divides(block, old[j].offset) /\ Divides(block, old[j].size)
      /\ \A j \in DOMAIN new : Divides(block, new[j].offset) /\ Divides(block, new[j].size)
  BY <1>3, BlockDivides
<1>7. totalOld \in Nat /\ totalNew \in Nat
  <2> HIDE DEF block, capacityOld, capacityNew
  <2> QED BY <1>5, Quotient
<1> HIDE DEF plan, refused, goals, touched, covering, extent, pairs, last, count
<1>8. /\ count \in 0 .. Count /\ totalOld <= count /\ totalNew <= count
  <2> DEFINE c == IF capacityOld > capacityNew THEN totalOld ELSE totalNew
  <2>1. totalOld <= c /\ totalNew <= c
    <3> HIDE DEF block, capacityOld, capacityNew
    <3>1. CASE capacityOld > capacityNew
      <4>1. block * totalNew <= capacityOld
        <5>1. block * totalNew <= capacityNew
          <6> DEFINE d == capacityNew \div block
                     r == capacityNew % block
          <6>1. d \in Nat /\ r \in Nat /\ capacityNew = block * d + r BY <1>5
          <6> HIDE DEF d, r
          <6>2. block * d <= capacityNew BY <1>5, <6>1
          <6> QED BY <6>2 DEF d
        <5>2. block * totalNew \in Nat BY <1>5, <1>7
        <5> QED BY <1>5, <3>1, <5>1, <5>2
      <4>2. totalNew <= capacityOld \div block BY <1>5, <1>7, <4>1, Floor
      <4> QED BY <1>7, <3>1, <4>2
    <3>2. CASE ~(capacityOld > capacityNew)
      <4>1. block * totalOld <= capacityNew
        <5>1. block * totalOld <= capacityOld
          <6> DEFINE d == capacityOld \div block
                     r == capacityOld % block
          <6>1. d \in Nat /\ r \in Nat /\ capacityOld = block * d + r BY <1>5
          <6> HIDE DEF d, r
          <6>2. block * d <= capacityOld BY <1>5, <6>1
          <6> QED BY <6>2 DEF d
        <5>2. block * totalOld \in Nat BY <1>5, <1>7
        <5> QED BY <1>5, <3>2, <5>1, <5>2
      <4>2. totalOld <= capacityNew \div block BY <1>5, <1>7, <4>1, Floor
      <4> QED BY <1>7, <3>2, <4>2
    <3> QED BY <3>1, <3>2
  <2>2. c = totalOld \/ c = totalNew OBVIOUS
  <2> HIDE DEF c
  <2>3. c \in Nat /\ c <= Count /\ c < IdLimit /\ IdLimit \in Nat \ {0}
    <3> HIDE DEF totalOld, totalNew
    <3> QED BY <1>4, <1>7, <2>2, WriteAssumption, IdAssumption
  <2>4. Id(c) = c BY <2>3 DEF Id
  <2>5. count = Id(c) BY DEF c, count
  <2>6. count = c /\ Count \in Nat BY <2>4, <2>5, WriteAssumption
  <2> QED BY <2>1, <2>3, <2>6
<1> DEFINE P == Pairs(old, new, all)
           F(p) == From(old, new, p)
           G(p) == Into(old, new, p)
           N(p) == Length(old, new, p)
<1>9. ASSUME NEW p \in P
      PROVE  /\ extent[p] = [start |-> F(p), goal |-> G(p), count |-> N(p)]
             /\ F(p) \in Nat /\ G(p) \in Nat /\ N(p) \in Nat /\ F(p) # G(p)
             /\ F(p) + N(p) <= count /\ G(p) + N(p) <= count
  <2> DEFINE from == old[p[1]]
             to == new[p[2]]
  <2>1. p[1] \in DOMAIN old /\ p[2] \in DOMAIN new /\ from.offset # to.offset /\ p \in pairs
    BY <1>3 DEF Pairs
  <2>2. from \in Partition /\ to \in Partition BY <2>1
  <2>3. /\ from.offset \div block \in Nat /\ from.size \div block \in Nat
        /\ from.offset = block * (from.offset \div block)
        /\ from.offset \div block + from.size \div block <= totalOld
    <3> HIDE DEF block
    <3> QED BY <1>5, <1>6, <2>1, InBlocks
  <2>4. /\ to.offset \div block \in Nat /\ to.size \div block \in Nat
        /\ to.offset = block * (to.offset \div block)
        /\ to.offset \div block + to.size \div block <= totalNew
    <3> HIDE DEF block
    <3> QED BY <1>5, <1>6, <2>1, InBlocks
  <2>5. F(p) = from.offset \div block /\ G(p) = to.offset \div block
        /\ N(p) = Least(from.size \div block, to.size \div block)
    <3> HIDE DEF block
    <3> QED BY <1>3 DEF From, Into, Length
  <2>6. extent[p] = Extent(from, to, block, totalOld, totalNew)
    <3> HIDE DEF block, totalOld, totalNew
    <3> QED BY <2>1 DEF extent
  <2>7. totalOld < IdLimit /\ totalNew < IdLimit
    <3> HIDE DEF totalOld, totalNew
    <3> QED BY <1>4, <1>7, WriteAssumption, IdAssumption
  <2>8. /\ Divides(block, from.offset) /\ Divides(block, from.size)
        /\ Divides(block, to.offset) /\ Divides(block, to.size)
    BY <1>6, <2>1
  <2> HIDE DEF block, totalOld, totalNew, from, to
  <2>9. extent[p] = [start |-> F(p), goal |-> G(p), count |-> N(p)]
    <3> HIDE DEF F, G, N
    <3> QED BY <1>5, <1>7, <2>2, <2>3, <2>4, <2>5, <2>6, <2>7, <2>8, ExtentExact
  <2>10. F(p) # G(p) BY <2>1, <2>3, <2>4, <2>5
  <2>11. N(p) \in Nat /\ N(p) <= from.size \div block /\ N(p) <= to.size \div block
    BY <2>3, <2>4, <2>5 DEF Least
  <2>12. F(p) + N(p) <= count /\ G(p) + N(p) <= count
    BY <1>7, <1>8, <2>3, <2>4, <2>5, <2>11
  <2> QED BY <2>3, <2>4, <2>5, <2>9, <2>10, <2>11, <2>12
<1>9a. ASSUME NEW p \in P
       PROVE  extent[p].start = F(p) /\ extent[p].goal = G(p) /\ extent[p].count = N(p)
  <2>1. extent[p] = [start |-> F(p), goal |-> G(p), count |-> N(p)] BY <1>9
  <2> HIDE DEF F, G, N
  <2> QED BY <2>1
<1> DEFINE Within(p, b) == b \in F(p) .. F(p) + N(p) - 1
<1>10. ASSUME NEW b \in 0 .. count - 1 PROVE covering[b] = {p \in P : Within(p, b)}
  <2>1. covering[b] = {p \in pairs : b \in extent[p].start .. extent[p].start + extent[p].count - 1}
    BY DEF covering
  <2>2. \A p \in P : extent[p].start = F(p) /\ extent[p].count = N(p)
    <3> HIDE DEF F, N
    <3> QED BY <1>9a
  <2> HIDE DEF P, F, N
  <2> QED BY <1>3, <2>1, <2>2 DEF P
<1>11. ASSUME NEW S \in SUBSET P, S # {} PROVE last(S) \in S
  <2> DEFINE Later(p) == \A q \in S : q[1] < p[1] \/ (q[1] = p[1] /\ q[2] <= p[2])
             A == {p[1] : p \in S}
  <2>1. \A p \in P : p[1] \in 1 .. Len(old) /\ p[2] \in 1 .. Len(new) BY Fields DEF Pairs
  <2>2. Len(old) \in Nat /\ Len(new) \in Nat BY Fields
  <2> HIDE DEF P, F, G, N
  <2>3. A \in SUBSET Nat /\ A # {} /\ \A x \in A : x <= Len(old)
    <3>1. \A p \in S : p[1] \in Nat /\ p[1] <= Len(old) BY <2>1, <2>2
    <3>2. \A x \in A : x \in Nat /\ x <= Len(old) BY <3>1
    <3>3. PICK p \in S : TRUE BY <1>11
    <3>4. p[1] \in A BY <3>3
    <3> QED BY <3>2, <3>4
  <2>4. PICK a \in A : \A x \in A : x <= a
    <3> HIDE DEF A
    <3> QED BY <2>2, <2>3, GreatestElement
  <2> DEFINE B == {p[2] : p \in {q \in S : q[1] = a}}
  <2>5. B \in SUBSET Nat /\ B # {} /\ \A x \in B : x <= Len(new)
    <3>1. \A p \in S : p[2] \in Nat /\ p[2] <= Len(new) BY <2>1, <2>2
    <3> QED BY <3>1
  <2>6. PICK c \in B : \A x \in B : x <= c
    <3> HIDE DEF A, B
    <3> QED BY <2>2, <2>5, GreatestElement
  <2>7. PICK p \in S : p[1] = a /\ p[2] = c OBVIOUS
  <2>8. ASSUME NEW q \in S PROVE q[1] < p[1] \/ (q[1] = p[1] /\ q[2] <= p[2])
    <3>1. q[1] \in Nat /\ a \in Nat /\ q[1] <= a BY <2>1, <2>4, <2>7
    <3>2. q[1] = a => q[2] <= c BY <2>6
    <3> QED BY <2>7, <3>1, <3>2
  <2>9. Later(p) BY <2>8
  <2>10. last(S) = CHOOSE q \in S : Later(q) BY DEF last
  <2> HIDE DEF Later, last
  <2> QED BY <2>9, <2>10
<1>12. ASSUME NEW b \in touched
       PROVE  b \in 0 .. count - 1 /\ \E p \in P : Within(p, b) /\ goals[b] = G(p) + (b - F(p))
  <2>1. b \in 0 .. count - 1 /\ covering[b] # {}
    <3> HIDE DEF P, Within
    <3> QED BY DEF touched
  <2> DEFINE p == last(covering[b])
  <2>2. p \in covering[b]
    <3>1. covering[b] \in SUBSET P
      <4> HIDE DEF P, Within
      <4> QED BY <1>10, <2>1
    <3> HIDE DEF P, Within, last
    <3> QED BY <1>11, <2>1, <3>1
  <2>3. p \in P /\ Within(p, b)
    <3> HIDE DEF P, Within, p
    <3> QED BY <1>10, <2>1, <2>2
  <2>4. goals[b] = extent[p].goal + (b - extent[p].start)
    <3> HIDE DEF P, Within, last
    <3> QED BY <2>1 DEF goals
  <2> HIDE DEF p
  <2>5. extent[p].start = F(p) /\ extent[p].goal = G(p) BY <1>9a, <2>3
  <2> QED BY <2>1, <2>3, <2>4, <2>5
<1>13. ASSUME NEW p \in P, NEW b \in 0 .. count - 1, Within(p, b) PROVE b \in touched
  <2>1. p \in covering[b] BY <1>10, <1>13
  <2> HIDE DEF P, Within
  <2> QED BY <2>1 DEF touched
<1>14. /\ Plan(old, new, all).block = BlockOf(old, new) /\ Plan(old, new, all).count = count
       /\ Plan(old, new, all).pending = touched /\ Plan(old, new, all).target = goals
  <2> HIDE DEF block
  <2> QED BY <1>2, <1>3 DEF plan
<1> HIDE DEF block, totalOld, totalNew, capacityOld, capacityNew
<1> QED BY <1>8, <1>9, <1>12, <1>13, <1>14 DEF Covers, Goal

(* Between well-formed tables the goals is the only one there is: every   *)
(* block of every partition to be moved is sent to its new place.          *)
LEMMA PlanExact ==
  ASSUME NEW old \in Seq(Partition), NEW new \in Seq(Partition), NEW all,
         WellFormed(old), WellFormed(new), Fits(old, new), Count < IdLimit,
         Plan(old, new, all).ok,
         NEW p \in Pairs(old, new, all), NEW b, Covers(old, new, p, b)
  PROVE  /\ b \in Plan(old, new, all).pending
         /\ Plan(old, new, all).target[b] = Goal(old, new, p, b)
<1> DEFINE plan == Plan(old, new, all)
           P == Pairs(old, new, all)
           F(q) == From(old, new, q)
           N(q) == Length(old, new, q)
<1>1. /\ plan.count \in 0 .. Count /\ plan.pending \subseteq 0 .. plan.count - 1
      /\ \A q \in P : F(q) \in Nat /\ N(q) \in Nat /\ F(q) + N(q) <= plan.count
      /\ \A c \in plan.pending : \E q \in P :
            Covers(old, new, q, c) /\ plan.target[c] = Goal(old, new, q, c)
      /\ \A q \in P, c \in 0 .. plan.count - 1 : Covers(old, new, q, c) => c \in plan.pending
  BY PlanShape DEF WellFormed
<1>2. \A q \in P : Covers(old, new, q, b) <=> b \in F(q) .. F(q) + N(q) - 1 BY DEF Covers
<1>3. ASSUME NEW q \in P, Covers(old, new, q, b) PROVE q = p
  <2>1. q # p /\ N(p) > 0 /\ N(q) > 0 => F(p) + N(p) <= F(q) \/ F(q) + N(q) <= F(p)
    BY PairsApart
  <2>2. p \in P /\ b \in F(p) .. F(p) + N(p) - 1 /\ b \in F(q) .. F(q) + N(q) - 1
    BY <1>2, <1>3
  <2>3. F(p) \in Nat /\ N(p) \in Nat /\ F(q) \in Nat /\ N(q) \in Nat BY <1>1, <2>2
  <2> HIDE DEF F, N, P
  <2> QED BY <2>1, <2>2, <2>3
<1> HIDE DEF F, N, P, plan
<1>4. plan.count \in Nat BY <1>1, WriteAssumption
<1>5. b \in 0 .. plan.count - 1 BY <1>1, <1>2, <1>4 DEF P
<1>6. b \in plan.pending BY <1>1, <1>5 DEF P
<1> QED BY <1>1, <1>3, <1>6 DEF P, plan

(* Every target of a plan of two tables that do not wrap is a block of the *)
(* disk, and none is its own: io_migrate meets no bad plan.                *)
LEMMA PlanInRange ==
  ASSUME NEW old \in Seq(Partition), NEW new \in Seq(Partition), NEW all,
         Unwrapped(old), Unwrapped(new), Fits(old, new), Count < IdLimit,
         Plan(old, new, all).ok, NEW b \in Plan(old, new, all).pending
  PROVE  /\ b \in 0 .. Count - 1
         /\ Plan(old, new, all).target[b] # b
         /\ Plan(old, new, all).target[b] \in 0 .. Plan(old, new, all).count - 1
         /\ Plan(old, new, all).target[b] \in 0 .. Count - 1
<1> DEFINE plan == Plan(old, new, all)
           P == Pairs(old, new, all)
           F(q) == From(old, new, q)
           G(q) == Into(old, new, q)
           N(q) == Length(old, new, q)
<1>1. /\ plan.count \in 0 .. Count /\ plan.pending \subseteq 0 .. plan.count - 1
      /\ \A q \in P : /\ F(q) \in Nat /\ G(q) \in Nat /\ N(q) \in Nat /\ F(q) # G(q)
                      /\ G(q) + N(q) <= plan.count
      /\ \A c \in plan.pending : \E q \in P :
            Covers(old, new, q, c) /\ plan.target[c] = Goal(old, new, q, c)
  BY PlanShape
<1>2. PICK p \in P : Covers(old, new, p, b) /\ plan.target[b] = Goal(old, new, p, b)
  BY <1>1
<1>3. b \in F(p) .. F(p) + N(p) - 1 /\ plan.target[b] = G(p) + (b - F(p))
  BY <1>2 DEF Covers, Goal
<1>4. b \in plan.pending OBVIOUS
<1> DEFINE c == plan.count
           t == plan.target[b]
<1>5. /\ c \in 0 .. Count /\ b \in 0 .. c - 1
      /\ F(p) \in Nat /\ G(p) \in Nat /\ N(p) \in Nat /\ F(p) # G(p) /\ G(p) + N(p) <= c
  BY <1>1, <1>4
<1>6. t = G(p) + (b - F(p)) BY <1>3
<1>7. Count \in Nat BY WriteAssumption
<1> HIDE DEF plan, P, F, G, N, c, t
<1>8. b \in 0 .. Count - 1 /\ t # b /\ t \in 0 .. c - 1 /\ t \in 0 .. Count - 1
  BY <1>3, <1>5, <1>6, <1>7
<1> QED BY <1>8 DEF plan, c, t

(* Two ranges that are moved to ranges with a goal in common do not end up *)
(* one behind the other.                                                   *)
LEMMA CommonGoal ==
  ASSUME NEW f \in Nat, NEW g \in Nat, NEW n \in Nat, NEW a \in f .. f + n - 1,
         NEW u \in Nat, NEW v \in Nat, NEW m \in Nat, NEW b \in u .. u + m - 1,
         g + (a - f) = v + (b - u)
  PROVE  n > 0 /\ m > 0 /\ ~(g + n <= v) /\ ~(v + m <= g)
<1> DEFINE x == a - f
           y == b - u
<1>1. x \in Nat /\ x < n /\ y \in Nat /\ y < m OBVIOUS
<1>2. g + x = v + y OBVIOUS
<1> HIDE DEF x, y
<1> QED BY <1>1, <1>2

(* No two blocks of a plan of two well-formed tables share a target.       *)
LEMMA PlanInjective ==
  ASSUME NEW old \in Seq(Partition), NEW new \in Seq(Partition), NEW all,
         WellFormed(old), WellFormed(new), Fits(old, new), Count < IdLimit,
         Plan(old, new, all).ok,
         NEW a \in Plan(old, new, all).pending, NEW b \in Plan(old, new, all).pending,
         Plan(old, new, all).target[a] = Plan(old, new, all).target[b]
  PROVE  a = b
<1> DEFINE plan == Plan(old, new, all)
           P == Pairs(old, new, all)
           F(q) == From(old, new, q)
           G(q) == Into(old, new, q)
           N(q) == Length(old, new, q)
<1>1. /\ \A q \in P : F(q) \in Nat /\ G(q) \in Nat /\ N(q) \in Nat
      /\ \A c \in plan.pending : \E q \in P :
            Covers(old, new, q, c) /\ plan.target[c] = Goal(old, new, q, c)
  BY PlanShape DEF WellFormed
<1>2. PICK p \in P : Covers(old, new, p, a) /\ plan.target[a] = Goal(old, new, p, a)
  BY <1>1
<1>3. PICK q \in P : Covers(old, new, q, b) /\ plan.target[b] = Goal(old, new, q, b)
  BY <1>1
<1>4. /\ a \in F(p) .. F(p) + N(p) - 1 /\ plan.target[a] = G(p) + (a - F(p))
      /\ b \in F(q) .. F(q) + N(q) - 1 /\ plan.target[b] = G(q) + (b - F(q))
  BY <1>2, <1>3 DEF Covers, Goal
<1>5. p # q /\ N(p) > 0 /\ N(q) > 0 => G(p) + N(p) <= G(q) \/ G(q) + N(q) <= G(p)
  BY PairsApart
<1>6. plan.target[a] = plan.target[b] OBVIOUS
<1>7. /\ F(p) \in Nat /\ G(p) \in Nat /\ N(p) \in Nat
      /\ F(q) \in Nat /\ G(q) \in Nat /\ N(q) \in Nat
  BY <1>1
<1> HIDE DEF plan, P, F, G, N
<1>8. G(p) + (a - F(p)) = G(q) + (b - F(q)) BY <1>4, <1>6
<1>9. N(p) > 0 /\ N(q) > 0 /\ ~(G(p) + N(p) <= G(q)) /\ ~(G(q) + N(q) <= G(p))
  BY <1>4, <1>7, <1>8, CommonGoal
<1>10. p = q BY <1>5, <1>9
<1> QED BY <1>4, <1>7, <1>8, <1>10

(* No block of a partition that stays where it is is the target of         *)
(* another.                                                                *)
LEMMA PlanSpares ==
  ASSUME NEW old \in Seq(Partition), NEW new \in Seq(Partition), NEW all,
         WellFormed(old), WellFormed(new), Fits(old, new), Count < IdLimit,
         Plan(old, new, all).ok,
         NEW k \in DOMAIN old, NEW l \in DOMAIN new,
         old[k].name = new[l].name, old[k].offset = new[l].offset,
         NEW b \in 0 .. new[l].size \div BlockOf(old, new) - 1,
         NEW a \in Plan(old, new, all).pending
  PROVE  Plan(old, new, all).target[a] # new[l].offset \div BlockOf(old, new) + b
<1> DEFINE plan == Plan(old, new, all)
           P == Pairs(old, new, all)
           F(q) == From(old, new, q)
           G(q) == Into(old, new, q)
           N(q) == Length(old, new, q)
           block == BlockOf(old, new)
           O(j) == new[j].offset \div block
           S(j) == new[j].size \div block
<1>1. /\ \A q \in P : F(q) \in Nat /\ G(q) \in Nat /\ N(q) \in Nat
      /\ \A c \in plan.pending : \E q \in P :
            Covers(old, new, q, c) /\ plan.target[c] = Goal(old, new, q, c)
  BY PlanShape DEF WellFormed
<1>2. PICK q \in P : Covers(old, new, q, a) /\ plan.target[a] = Goal(old, new, q, a)
  BY <1>1
<1>3. a \in F(q) .. F(q) + N(q) - 1 /\ plan.target[a] = G(q) + (a - F(q))
  BY <1>2 DEF Covers, Goal
<1> DEFINE n == q[2]
<1>4. /\ n \in DOMAIN new /\ n # l
  <2>1. /\ q[1] \in DOMAIN old /\ q[2] \in DOMAIN new
        /\ old[q[1]].name = new[q[2]].name /\ old[q[1]].offset # new[q[2]].offset
    BY DEF Pairs
  <2>2. n = l => q[1] = k BY <2>1 DEF WellFormed, NamesUnique
  <2> QED BY <2>1, <2>2
<1>5. /\ block \in Nat \ {0}
      /\ \A j \in DOMAIN new : Divides(block, new[j].offset) /\ Divides(block, new[j].size)
      /\ \A j \in DOMAIN old : Divides(block, old[j].offset) /\ Divides(block, old[j].size)
  BY BlockDivides
<1>6. G(q) = O(n) /\ N(q) = Least(old[q[1]].size \div block, S(n)) BY DEF Into, Length
<1>7. old[q[1]].size \div block \in Nat
  <2>1. old[q[1]].size \in Nat BY Fields DEF Pairs
  <2> HIDE DEF block
  <2> QED BY <1>5, <2>1, Quotient
<1>8. /\ O(l) \in Nat /\ S(l) \in Nat /\ O(n) \in Nat /\ S(n) \in Nat
      /\ S(n) = 0 \/ S(l) = 0 \/ O(n) + S(n) <= O(l) \/ O(l) + S(l) <= O(n)
  <2> HIDE DEF block, n
  <2>1. Unwrapped(new) BY DEF WellFormed
  <2> QED BY <1>4, <1>5, <2>1, InBlocks
<1>9. F(q) \in Nat /\ G(q) \in Nat /\ N(q) \in Nat BY <1>1
<1> DEFINE m == old[q[1]].size \div block
<1>10. m \in Nat /\ N(q) = Least(m, S(n)) /\ b \in 0 .. S(l) - 1 BY <1>6, <1>7
<1> HIDE DEF m, plan, P, F, G, N, O, S
<1>11. N(q) <= S(n) BY <1>8, <1>10 DEF Least
<1> DEFINE t == plan.target[a]
           o == O(n)
           s == S(n)
<1>12. t \in o .. o + s - 1
  <2>1. t = o + (a - F(q)) /\ N(q) <= s /\ o \in Nat /\ s \in Nat BY <1>3, <1>6, <1>8, <1>11
  <2> HIDE DEF t, o, s, n
  <2> QED BY <1>3, <1>9, <2>1
<1> HIDE DEF t, n
<1>13. t # O(l) + b BY <1>8, <1>10, <1>12
<1> QED BY <1>13 DEF plan, O, t

(***************************************************************************)
(* The invariant                                                           *)
(***************************************************************************)
(* The theorems about io_migrate, on the variables of cli_write_ept.       *)
MP == INSTANCE Migrate_proofs

(* What was planned at first is what io_migrate is still running on.       *)
PlanKept ==
  /\ request \in Requests
  /\ mhelper = Plan(request.old.parts, request.new.parts, request.migrate = "all")
  /\ planned = IF can_migrate THEN mhelper.pending ELSE {}
  /\ target = [b \in M!Block |-> IF b \in planned THEN mhelper.target[b] ELSE 0]

(* How far cli_write_ept has come tells what it has found out before.      *)
InOrder ==
  /\ step \in {"validate", "open", "migrate", "write", "sync", "exit"}
  /\ ret \in -2 .. 5
  /\ ept \in {"old", "new", "torn"}
  /\ step \in {"validate", "open", "migrate", "write"} => ept = "old"
  /\ step \in {"open", "migrate", "write", "sync"} =>
       request.content # "dtb" /\ ~request.dry_run /\ ValidTable(request.new)
  /\ step = "migrate" => can_migrate
  /\ can_migrate /\ (step \in {"write", "sync"} \/ ept # "old") => status = "done"

(* What the plan needs to stay within the disk.                            *)
NoneWraps == Unwrapped(request.old.parts) /\ Unwrapped(request.new.parts)

(* Then io_migrate keeps its strengthened invariant (Migrate_proofs).      *)
BlocksIntact == NoneWraps => MP!IInv

(* The inductive invariant.                                                *)
IInv == PlanKept /\ InOrder /\ BlocksIntact

(* A step of cli_write_ept moves blocks as io_migrate does, or not at all. *)
LEMMA BlockStep == Next => MP!Next \/ UNCHANGED blocks
<1> SUFFICES ASSUME Next PROVE MP!Next \/ UNCHANGED blocks OBVIOUS
<1>1. CASE Migrate
  <2>1. CASE M!Step
    BY <2>1 DEF M!Step, M!SkipBlock, M!ReadMain, M!Finish, M!BadPlan, M!Enter, M!WriteLast,
       M!WriteAndRecurse, M!Running, M!Stops, M!plan,
       MP!Next, MP!Step, MP!SkipBlock, MP!ReadMain, MP!Finish, MP!BadPlan, MP!Enter,
       MP!WriteLast, MP!WriteAndRecurse, MP!Running, MP!Stops, MP!plan
  <2>2. CASE M!ReadFails
    BY <2>2 DEF M!ReadFails, M!Running, M!Stops, M!plan,
       MP!Next, MP!ReadFails, MP!Running, MP!Stops, MP!plan
  <2>3. CASE M!WriteStops("failed")
    BY <2>3 DEF M!WriteStops, M!Running, M!Stops, M!plan,
       MP!Next, MP!WriteStops, MP!Running, MP!Stops, MP!plan
  <2> QED BY <1>1, <2>1, <2>2, <2>3 DEF Migrate
<1>2. CASE Validate \/ Open \/ Migrated \/ Write \/ Sync
  BY <1>2 DEF Validate, Open, Migrated, Write, Sync
<1>3. CASE LosePower
  <2>1. CASE M!WriteStops("crashed")
    BY <2>1 DEF M!WriteStops, M!Running, M!Stops, M!plan,
       MP!Next, MP!WriteStops, MP!Running, MP!Stops, MP!plan
  <2> QED BY <1>3, <2>1 DEF LosePower
<1> QED BY <1>1, <1>2, <1>3 DEF Next

(* Neither cli_write_ept nor io_migrate changes the plan it works on, but  *)
(* for the marks of what is pending.                                       *)
LEMMA PlanStays == PlanKept /\ [Next]_vars => PlanKept' /\ UNCHANGED <<request, mhelper>>
<1> SUFFICES ASSUME PlanKept, [Next]_vars PROVE PlanKept' /\ UNCHANGED <<request, mhelper>>
  OBVIOUS
<1>1. UNCHANGED <<request, mhelper>>
  BY DEF Next, Validate, Open, Migrate, Migrated, Write, Sync, LosePower, vars, own
<1>2. UNCHANGED <<planned, target>>
  <2>1. CASE MP!Next
    BY <2>1 DEF MP!Next, MP!Step, MP!SkipBlock, MP!ReadMain, MP!Finish, MP!BadPlan, MP!Enter,
       MP!WriteLast, MP!WriteAndRecurse, MP!ReadFails, MP!WriteStops, MP!Crash, MP!plan
  <2>2. CASE UNCHANGED blocks BY <2>2 DEF blocks
  <2> QED BY <2>1, <2>2, BlockStep DEF vars
<1> QED BY <1>1, <1>2 DEF PlanKept, can_migrate

(* What the assumptions say of the request being served.                   *)
LEMMA RequestFacts ==
  ASSUME PlanKept
  PROVE  /\ request.old.parts \in Seq(Partition) /\ request.new.parts \in Seq(Partition)
         /\ Fits(request.old.parts, request.new.parts) /\ Count < IdLimit
         /\ M!Block = 0 .. Count - 1 /\ MP!Block = 0 .. Count - 1 /\ Content = 0 .. Count - 1
  BY RequestAssumption, DiskAssumption DEF PlanKept, M!Block, MP!Block, Content

(* The plan of tables that do not wrap is one that io_migrate starts well  *)
(* on.                                                                     *)
LEMMA BlocksStart == Init => BlocksIntact
<1> SUFFICES ASSUME Init, NoneWraps PROVE MP!IInv BY DEF BlocksIntact
<1>1. PlanKept BY DEF Init, InitEntries, PlanKept
<1>2. planned \in SUBSET MP!Block /\ \A b \in planned : target[b] \in MP!Block
  <2> SUFFICES ASSUME NEW b \in planned PROVE b \in MP!Block /\ target[b] \in MP!Block
    OBVIOUS
  <2>1. can_migrate /\ b \in mhelper.pending BY <1>1 DEF PlanKept
  <2> DEFINE all == request.migrate = "all"
  <2>2. /\ mhelper = Plan(request.old.parts, request.new.parts, all)
        /\ mhelper.ok
    BY <1>1, <2>1 DEF PlanKept, can_migrate
  <2> HIDE DEF all
  <2>3. b \in 0 .. Count - 1 /\ mhelper.target[b] \in 0 .. Count - 1
    BY <1>1, <2>1, <2>2, RequestFacts, PlanInRange DEF NoneWraps
  <2>4. target[b] = mhelper.target[b] BY <1>1, <2>3, RequestFacts DEF PlanKept
  <2> QED BY <1>1, <2>3, <2>4, RequestFacts
<1>3. /\ target \in [MP!Block -> MP!Block]
      /\ \A b \in MP!Block \ planned : target[b] = 0
  <2>1. target = [b \in MP!Block |-> IF b \in planned THEN mhelper.target[b] ELSE 0]
    BY <1>1, RequestFacts DEF PlanKept
  <2>2. 0 \in MP!Block BY WriteAssumption DEF MP!Block
  <2> QED BY <1>2, <2>1, <2>2
<1>4. disk \in [MP!Block -> Content]
  BY <1>1, RequestFacts DEF Init, InitEntries
<1>5. MP!Started BY DEF Init, InitEntries, M!Started, MP!Started
<1>6. MP!Init BY <1>2, <1>3, <1>4, <1>5 DEF MP!Init
<1> QED BY <1>6, WriteAssumption, MP!InitInv

(* What Migrate_proofs shows of io_migrate holds of it inside              *)
(* cli_write_ept.                                                          *)
LEMMA BlocksStay == PlanKept /\ BlocksIntact /\ [Next]_vars => BlocksIntact'
<1> SUFFICES ASSUME PlanKept, BlocksIntact, [Next]_vars, NoneWraps' PROVE MP!IInv'
  BY DEF BlocksIntact
<1>1. MP!IInv BY PlanStays DEF NoneWraps, BlocksIntact
<1>2. [MP!Next]_(MP!vars)
  BY BlockStep DEF blocks, vars, MP!vars, MP!plan
<1> QED BY <1>1, <1>2, WriteAssumption, MP!InvStep

(* Every step of cli_write_ept keeps the order of what it finds out and    *)
(* does.                                                                   *)
LEMMA OrderKept == PlanKept /\ InOrder /\ [Next]_vars => InOrder'
<1> SUFFICES ASSUME PlanKept, InOrder, [Next]_vars PROVE InOrder' OBVIOUS
<1>1. UNCHANGED <<request, mhelper>> BY PlanStays
<1>2. can_migrate' = can_migrate BY <1>1 DEF can_migrate
<1>3. CASE Validate BY <1>1, <1>2, <1>3 DEF Validate, InOrder, Return, blocks
<1>4. CASE Open BY <1>1, <1>2, <1>4 DEF Open, InOrder, Return, blocks
<1>5. CASE Migrate BY <1>1, <1>2, <1>5 DEF Migrate, InOrder, own
<1>6. CASE Migrated BY <1>1, <1>2, <1>6 DEF Migrated, InOrder, Return, blocks
<1>7. CASE Write BY <1>1, <1>2, <1>7 DEF Write, InOrder, Return, blocks
<1>8. CASE Sync BY <1>1, <1>2, <1>8 DEF Sync, InOrder, Return, blocks
<1>9. CASE LosePower BY <1>1, <1>2, <1>9 DEF LosePower, InOrder, Return, blocks
<1>10. CASE UNCHANGED vars BY <1>1, <1>2, <1>10 DEF InOrder, vars, own, blocks
<1> QED BY <1>3, <1>4, <1>5, <1>6, <1>7, <1>8, <1>9, <1>10 DEF Next

(* The three together hold in every reachable state.                       *)
LEMMA Invariance == Spec => []IInv
<1>1. Init => IInv
  <2> SUFFICES ASSUME Init PROVE IInv OBVIOUS
  <2>1. PlanKept BY DEF Init, InitEntries, PlanKept
  <2>2. InOrder BY DEF Init, InOrder
  <2> QED BY <2>1, <2>2, BlocksStart DEF IInv
<1>2. IInv /\ [Next]_vars => IInv'
  BY PlanStays, BlocksStay, OrderKept DEF IInv
<1> QED BY <1>1, <1>2, PTL DEF Spec

(* Blocks move only for a legal table and outside a dry run, and before    *)
(* the table changes; the table changes only after a migration that ended  *)
(* well: for every request, failure and power loss.                        *)
THEOREM OrderOfWrites == Spec => WritesInOrder
<1>1. ASSUME IInv, [Next]_vars
      PROVE  [/\ disk' # disk => /\ request.content = "disk" /\ ~request.dry_run
                                 /\ ValidTable(request.new) /\ ept = "old"
              /\ ept' # ept => /\ request.content # "dtb" /\ ~request.dry_run
                               /\ ValidTable(request.new)
                               /\ can_migrate => status = "done"]_vars
  <2>1. disk' # disk => step = "migrate"
    BY <1>1 DEF Next, Validate, Open, Migrated, Write, Sync, Migrate, LosePower, blocks, vars
  <2>2. ept' # ept => step = "write"
    BY <1>1 DEF Next, Validate, Open, Migrated, Write, Sync, Migrate, LosePower, own, vars
  <2> QED BY <1>1, <2>1, <2>2 DEF IInv, InOrder, can_migrate
<1> QED BY <1>1, Invariance, PTL DEF Spec, WritesInOrder

(* The types, with the disk and the plan of io_migrate, for tables that do *)
(* not wrap: one that does can send a block past the disk (hazard          *)
(* ept.c:982).                                                             *)
THEOREM TypeCorrect ==
  (\A r \in Requests : Unwrapped(r.old.parts) /\ Unwrapped(r.new.parts))
    => (Spec => []TypeOK)
<1> SUFFICES ASSUME \A r \in Requests : Unwrapped(r.old.parts) /\ Unwrapped(r.new.parts)
             PROVE  Spec => []TypeOK
  OBVIOUS
<1>1. IInv => TypeOK
  <2> SUFFICES ASSUME IInv PROVE TypeOK OBVIOUS
  <2>1. MP!TypeOK BY DEF IInv, PlanKept, BlocksIntact, NoneWraps, MP!IInv
  <2>2. M!TypeOK
    BY <2>1 DEF M!TypeOK, M!Block, M!Value, MP!TypeOK, MP!Block, MP!Value
  <2> QED BY <2>2 DEF IInv, InOrder, TypeOK
<1> QED BY <1>1, Invariance, PTL

(* The plan of two well-formed layouts is one io_migrate can carry out,    *)
(* for every disk size, every block size and any number of partitions.     *)
THEOREM PlansSound == Spec => []PlanSound
<1>1. IInv => PlanSound
  <2> SUFFICES ASSUME IInv, can_migrate,
                      WellFormed(request.old.parts), WellFormed(request.new.parts)
               PROVE  /\ M!Injective
                      /\ \A b \in planned : target[b] # b /\ target[b] \in 0 .. mhelper.count - 1
    BY DEF PlanSound
  <2> DEFINE old == request.old.parts
             new == request.new.parts
             all == request.migrate = "all"
  <2>1. /\ PlanKept /\ mhelper = Plan(old, new, all) /\ mhelper.ok
        /\ planned = mhelper.pending /\ Unwrapped(old) /\ Unwrapped(new)
    BY DEF IInv, PlanKept, can_migrate, WellFormed
  <2>2. /\ old \in Seq(Partition) /\ new \in Seq(Partition)
        /\ Fits(old, new) /\ Count < IdLimit
    BY <2>1, RequestFacts
  <2> HIDE DEF all
  <2>3. ASSUME NEW b \in planned
        PROVE  /\ target[b] = mhelper.target[b] /\ target[b] # b
               /\ target[b] \in 0 .. mhelper.count - 1
    <3>1. /\ b \in 0 .. Count - 1 /\ mhelper.target[b] # b
          /\ mhelper.target[b] \in 0 .. mhelper.count - 1
      BY <2>1, <2>2, PlanInRange
    <3>2. target[b] = mhelper.target[b] BY <2>1, <3>1, RequestFacts DEF PlanKept
    <3> QED BY <3>1, <3>2
  <2>4. ASSUME NEW a \in planned, NEW b \in planned, target[a] = target[b] PROVE a = b
    <3>1. mhelper.target[a] = mhelper.target[b] BY <2>3, <2>4
    <3> QED BY <2>1, <2>2, <3>1, PlanInjective
  <2> QED BY <2>3, <2>4 DEF M!Injective
<1> QED BY <1>1, Invariance, PTL

(* The new table is on the disk only when the data of every partition to   *)
(* be migrated is at its new place, and the partitions that stay have kept *)
(* theirs: for every pair of well-formed layouts, whatever cycles the      *)
(* moves form.                                                             *)
THEOREM DataFollows == Spec => []DataFollowsTable
<1>1. IInv /\ PlanSound => DataFollowsTable
  <2> DEFINE old == request.old.parts
             new == request.new.parts
             all == request.migrate = "all"
  <2> SUFFICES ASSUME IInv, PlanSound, ept = "new", can_migrate,
                      WellFormed(old), WellFormed(new), NEW n \in Moved(request),
                      NEW k \in Find(old, n), NEW l \in Find(new, n),
                      NEW b \in 0 .. (Least(old[k].size, new[l].size) \div mhelper.block) - 1
               PROVE  disk[new[l].offset \div mhelper.block + b]
                        = origin[old[k].offset \div mhelper.block + b]
    BY DEF DataFollowsTable, Kept
  <2>1. /\ PlanKept /\ mhelper = Plan(old, new, all) /\ mhelper.ok
        /\ planned = mhelper.pending /\ Unwrapped(old) /\ Unwrapped(new)
        /\ all \/ n \in Essential
    BY DEF IInv, PlanKept, can_migrate, WellFormed, Moved
  <2>2. /\ old \in Seq(Partition) /\ new \in Seq(Partition)
        /\ Fits(old, new) /\ Count < IdLimit
    BY <2>1, RequestFacts
  <2>3. /\ \A a \in planned : disk[target[a]] = origin[a]
        /\ \A a \in MP!Untouched : disk[a] = origin[a]
    <3>1. MP!IInv /\ status = "done" BY <2>1 DEF IInv, BlocksIntact, NoneWraps, InOrder
    <3>2. MP!Injective BY DEF PlanSound, M!Injective, MP!Injective
    <3>3. MP!Migrated BY <3>1, WriteAssumption, MP!DoneMigrated
    <3> QED BY <3>1, <3>2, <3>3 DEF MP!Migrated
  <2> HIDE DEF all
  <2> DEFINE block == BlockOf(old, new)
             p == <<k, l>>
             O == old[k].offset \div block
             S == old[k].size \div block
             P == new[l].offset \div block
             T == new[l].size \div block
  <2>4. /\ k \in DOMAIN old /\ l \in DOMAIN new /\ old[k].name = n /\ new[l].name = n
        /\ mhelper.block = block
    <3>1. mhelper.block = block BY <2>1, <2>2, PlanShape
    <3> QED BY <3>1 DEF Find
  <2>5. /\ block \in Nat \ {0}
        /\ \A j \in DOMAIN old : Divides(block, old[j].offset) /\ Divides(block, old[j].size)
        /\ \A j \in DOMAIN new : Divides(block, new[j].offset) /\ Divides(block, new[j].size)
    BY <2>2, BlockDivides
  <2>6. /\ O \in Nat /\ S \in Nat /\ O + S <= Capacity(old) \div block
        /\ P \in Nat /\ T \in Nat
    <3> HIDE DEF block
    <3> QED BY <2>1, <2>2, <2>4, <2>5, InBlocks
  <2>7. Least(old[k].size, new[l].size) \div block = Least(S, T)
    <3>1. old[k].size \in Nat /\ new[l].size \in Nat BY <2>2, <2>4, Fields
    <3> HIDE DEF block
    <3> QED BY <2>4, <2>5, <3>1, LeastInBlocks
  <2>8. b \in Nat /\ b < S /\ b < T
    <3>1. b \in 0 .. Least(S, T) - 1 BY <2>4, <2>7
    <3> HIDE DEF S, T
    <3> QED BY <2>6, <3>1 DEF Least
  <2>9. O + b \in 0 .. Count - 1
    <3>1. Capacity(old) \div block <= Count BY <2>2 DEF Fits, BlockOf
    <3> DEFINE c == Capacity(old) \div block
    <3>2. c \in Nat
      <4>1. Capacity(old) \in Nat BY <2>2, CapacityBounds
      <4> HIDE DEF block
      <4> QED BY <2>5, <4>1, Quotient
    <3>3. c <= Count /\ O + S <= c BY <2>6, <3>1
    <3> HIDE DEF c, O, S
    <3> QED BY <2>6, <2>8, <3>2, <3>3, WriteAssumption
  <2>10. CASE old[k].offset # new[l].offset
    <3>1. p \in Pairs(old, new, all) BY <2>1, <2>4, <2>10 DEF Pairs
    <3>2. /\ From(old, new, p) = O /\ Into(old, new, p) = P
          /\ Length(old, new, p) = Least(S, T)
      BY DEF From, Into, Length
    <3>3. Covers(old, new, p, O + b) /\ Goal(old, new, p, O + b) = P + b
      <4>1. O + b \in O .. O + Least(S, T) - 1 /\ P + ((O + b) - O) = P + b
        <5> HIDE DEF O, P, S, T
        <5> QED BY <2>6, <2>8 DEF Least
      <4> HIDE DEF O, P, S, T, p
      <4> QED BY <3>2, <4>1 DEF Covers, Goal
    <3>4. O + b \in mhelper.pending /\ mhelper.target[O + b] = P + b
      <4> HIDE DEF O, P, p
      <4> QED BY <2>1, <2>2, <3>1, <3>3, PlanExact
    <3>5. target[O + b] = P + b
      <4> HIDE DEF O, P
      <4> QED BY <2>1, <2>9, <3>4, RequestFacts DEF PlanKept
    <3> HIDE DEF O, P
    <3>6. disk[P + b] = origin[O + b] BY <2>1, <2>3, <3>4, <3>5
    <3> QED BY <2>4, <3>6 DEF O, P
  <2>11. CASE old[k].offset = new[l].offset
    <3>1. P = O BY <2>11
    <3>2. ASSUME NEW a \in planned PROVE target[a] # P + b
      <4>1. mhelper.target[a] # P + b
        <5>1. b \in 0 .. T - 1
          <6> HIDE DEF T
          <6> QED BY <2>6, <2>8
        <5> QED BY <2>1, <2>2, <2>4, <2>11, <5>1, PlanSpares
      <4>2. a \in 0 .. Count - 1 BY <2>1, <2>2, PlanInRange
      <4>3. target[a] = mhelper.target[a] BY <2>1, <4>2, RequestFacts DEF PlanKept
      <4> QED BY <4>1, <4>3
    <3> HIDE DEF O, P
    <3>3. O + b \in MP!Untouched BY <2>1, <2>9, <3>1, <3>2, RequestFacts DEF MP!Untouched
    <3>4. disk[P + b] = origin[O + b] BY <2>3, <3>1, <3>3
    <3> QED BY <2>4, <3>4 DEF O, P
  <2> QED BY <2>10, <2>11
<1> QED BY <1>1, Invariance, PlansSound, PTL
==============================================================================

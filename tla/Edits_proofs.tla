------------------------------ MODULE Edits_proofs ------------------------------
(***************************************************************************)
(* Proofs about the editing commands.  The first parts say what the        *)
(* operators on lists do - one argument at a time, then the loops of       *)
(* ept_ungap: picking, laying end to end, sorting, filling the gap - each  *)
(* by induction over the rounds of its loop; the last two hold the         *)
(* invariant and the theorems.                                             *)
(***************************************************************************)
EXTENDS Edits, Recursion

(* dedit edits the DTB's partitions, which have no offset.                 *)
Kind(m) == IF m = "dedit" THEN DPartition ELSE Partition

(* uint64_t arithmetic stays in 64 bits, and is exact where nothing wraps. *)
LEMMA Wrapping ==
  ASSUME NEW x \in Int, NEW y \in Int
  PROVE  /\ Add(x, y) \in Bytes /\ Sub(x, y) \in Bytes
         /\ x + y \in Bytes => Add(x, y) = x + y
         /\ x + y \in Word .. 2 * Word - 1 => Add(x, y) = x + y - Word
         /\ x - y \in Bytes => Sub(x, y) = x - y
<1>1. Word \in Nat \ {0} BY TableAssumption
<1>2. ASSUME NEW z \in Int
      PROVE  /\ z % Word \in Bytes
             /\ z \in Bytes => z % Word = z
             /\ z \in Word .. 2 * Word - 1 => z % Word = z - Word
  <2>1. z % Word \in Bytes BY <1>1 DEF Bytes
  <2>2. z \in Bytes => z % Word = z BY <1>1 DEF Bytes
  <2>3. z \in Word .. 2 * Word - 1 => z % Word = z - Word BY <1>1
  <2> QED BY <2>1, <2>2, <2>3
<1> DEFINE sum == x + y
           difference == x - y
<1>3. sum \in Int /\ difference \in Int OBVIOUS
<1>4. Add(x, y) = sum % Word /\ Sub(x, y) = difference % Word BY DEF Add, Sub
<1>5. /\ Add(x, y) \in Bytes /\ Sub(x, y) \in Bytes
      /\ sum \in Bytes => Add(x, y) = sum
      /\ sum \in Word .. 2 * Word - 1 => Add(x, y) = sum - Word
      /\ difference \in Bytes => Sub(x, y) = difference
  <2> HIDE DEF sum, difference
  <2> QED BY <1>2, <1>3, <1>4
<1> QED BY <1>1, <1>5

(* What a list of either kind holds: sizes, and where it has them offsets, *)
(* below 2^64.                                                             *)
LEMMA Fields ==
  ASSUME NEW m, NEW s \in Seq(Kind(m))
  PROVE  /\ Len(s) \in Nat /\ DOMAIN s = 1 .. Len(s)
         /\ \A k \in 1 .. Len(s) :
              /\ s[k] \in Kind(m) /\ s[k].size \in Nat /\ s[k].size < Word
              /\ m # "dedit" => s[k].offset \in Nat /\ s[k].offset < Word
<1>1. ASSUME NEW k \in 1 .. Len(s)
      PROVE  /\ s[k] \in Kind(m) /\ s[k].size \in Bytes
             /\ m # "dedit" => s[k].offset \in Bytes
  <2>1. s[k] \in Kind(m) OBVIOUS
  <2> QED BY <2>1 DEF Kind, Partition, DPartition
<1> QED BY <1>1, TableAssumption DEF Bytes

(* A number of an argument is a uint64_t, 0 where none was given.          *)
LEMMA ValueBytes ==
  ASSUME NEW n \in Numbers
  PROVE  Value(n) \in Bytes /\ (~Given(n) => Value(n) = 0)
<1>1. n.digits \in (-1) .. Word - 1
  <2> DEFINE Signs == {"", "-", "+"}
             Digits == (-1) .. Word - 1
  <2>1. n \in [sign : Signs, digits : Digits] BY DEF Numbers
  <2> HIDE DEF Signs, Digits
  <2>2. n.digits \in Digits BY <2>1
  <2> QED BY <2>2 DEF Digits
<1>2. Word \in Nat \ {0} /\ 0 \in Int BY TableAssumption
<1>3. n.digits \in Int BY <1>1, <1>2
<1>4. Sub(0, n.digits) \in Bytes BY <1>3, Wrapping
<1>5. Absent.digits = -1
  <2> DEFINE sign == ""
  <2>1. Absent = [sign |-> sign, digits |-> -1] BY DEF Absent, Number
  <2> HIDE DEF sign
  <2> QED BY <2>1
<1>6. ASSUME ~Given(n) PROVE n.digits = -1 BY <1>5, <1>6 DEF Given
<1>7. n.digits # -1 => n.digits \in Bytes BY <1>1, <1>2 DEF Bytes
<1>8. 0 \in Bytes BY <1>2 DEF Bytes
<1>9. CASE n.digits = -1 BY <1>8, <1>9 DEF Value
<1>10. CASE n.digits # -1 /\ n.sign = "-" BY <1>4, <1>6, <1>10 DEF Value
<1>11. CASE n.digits # -1 /\ n.sign # "-" BY <1>6, <1>7, <1>11 DEF Value
<1> QED BY <1>9, <1>10, <1>11

(* ept_sanitize_size: the end is cut off at the capacity, unless it wraps. *)
LEMMA Sanitized ==
  ASSUME NEW p \in Partition, p.offset <= Limit
  PROVE  LET q == SanitizedSize(p, Limit)
         IN /\ q \in Partition /\ q.name = p.name /\ q.offset = p.offset /\ q.mask = p.mask
            /\ \/ q.offset + q.size <= Limit
               \/ q.size = p.size /\ p.offset + p.size >= Word
<1> DEFINE o == p.offset
           z == p.size
           cut == Sub(z, Sub(End(p), Limit))
<1>1. /\ o \in Nat /\ z \in Nat /\ o < Word /\ z < Word /\ o <= Limit
      /\ Word \in Nat \ {0} /\ Limit \in Nat /\ Limit < Word
  BY TableAssumption, EditsAssumption DEF Partition, Bytes
<1>2. End(p) = Add(o, z) BY DEF End
<1>3. Add(o, z) = IF o + z < Word THEN o + z ELSE o + z - Word
  <2> HIDE DEF o, z
  <2>1. CASE o + z < Word
    <3>1. o + z \in Bytes BY <1>1, <2>1 DEF Bytes
    <3> QED BY <1>1, <2>1, <3>1, Wrapping
  <2>2. CASE o + z >= Word
    <3>1. o + z \in Word .. 2 * Word - 1 BY <1>1, <2>2
    <3> QED BY <1>1, <2>2, <3>1, Wrapping
  <2> QED BY <1>1, <2>1, <2>2
<1>4. End(p) > Limit => o + z < Word /\ Sub(End(p), Limit) = o + z - Limit /\ cut = Limit - o
  <2> HIDE DEF o, z
  <2> SUFFICES ASSUME End(p) > Limit
               PROVE o + z < Word /\ Sub(End(p), Limit) = o + z - Limit /\ cut = Limit - o
    OBVIOUS
  <2>1. o + z < Word /\ End(p) = o + z BY <1>1, <1>2, <1>3
  <2>2. Sub(o + z, Limit) = o + z - Limit BY <1>1, <1>2, <1>3, <2>1, Wrapping DEF Bytes
  <2>3. Sub(z, o + z - Limit) = Limit - o BY <1>1, Wrapping DEF Bytes
  <2> QED BY <2>1, <2>2, <2>3
<1>5. ASSUME End(p) > Limit
      PROVE  LET q == SanitizedSize(p, Limit)
             IN q = [name |-> p.name, offset |-> p.offset, size |-> cut, mask |-> p.mask]
  BY <1>5 DEF SanitizedSize, Partition
<1>6. ASSUME ~(End(p) > Limit) PROVE SanitizedSize(p, Limit) = p BY <1>6 DEF SanitizedSize
<1>7. CASE End(p) > Limit
  <2>1. cut \in Bytes /\ o + cut <= Limit
    <3> HIDE DEF o, cut
    <3> QED BY <1>1, <1>4, <1>7 DEF Bytes
  <2> HIDE DEF cut
  <2> QED BY <1>5, <1>7, <2>1 DEF Partition
<1>8. CASE ~(End(p) > Limit)
  <2>1. o + z <= Limit \/ o + z >= Word
    <3> HIDE DEF o, z
    <3> QED BY <1>1, <1>2, <1>3, <1>8
  <2> QED BY <1>6, <1>8, <2>1
<1> QED BY <1>7, <1>8

(* What the parser makes of an argument has fields of these types.         *)
LEMMA Parts ==
  ASSUME NEW a \in Arguments
  PROVE  /\ a.name \in STRING /\ a.offset \in Numbers /\ a.size \in Numbers /\ a.masks \in Int
         /\ a.select.by \in {"none", "name", "index"} /\ a.select.index \in Int
         /\ a.place.by \in Int
<1> DEFINE Ops == {"define", "adjust", "delete", "clone", "place", "nothing"}
           By == {"none", "name", "index"}
           How == {"none", "absolute", "relative"}
           Select == [by : By, name : STRING, index : Int]
           Place == [how : How, by : Int]
<1>1. a \in [op : Ops, select : Select, name : STRING, offset : Numbers, size : Numbers,
             masks : Int, place : Place]
  BY DEF Arguments
<1> HIDE DEF Ops, Select, Place
<1>2. /\ a.name \in STRING /\ a.offset \in Numbers /\ a.size \in Numbers /\ a.masks \in Int
      /\ a.select \in Select /\ a.place \in Place
  BY <1>1
<1>3. a.select.by \in By /\ a.select.index \in Int BY <1>2 DEF Select
<1>4. a.place.by \in Int BY <1>2 DEF Place
<1> QED BY <1>2, <1>3, <1>4

(* The end of a partition lies on the disk, or wraps: then the size was    *)
(* very large, be it named by the argument or there before.                *)
Wraps(p) == p.offset <= Limit /\ p.offset + p.size >= Word
Large(a) == Value(a.size) >= Word - 2 * Limit

(* Defining a partition leaves one on the disk, whatever the numbers, but  *)
(* for a size that wraps; without an offset it begins behind all others.   *)
LEMMA NewPart ==
  ASSUME NEW a \in Arguments, NEW end \in Bytes
  PROVE  LET p == Defined(a, end, Limit)
         IN /\ p \in Partition /\ p.name = a.name
            /\ Within(p) \/ (Wraps(p) /\ Large(a))
            /\ ~Given(a.offset) /\ end <= Limit => p.offset = end
<1> DEFINE offset == CASE ~Given(a.offset) -> end
                       [] Given(a.offset) /\ a.offset.sign = "+" -> Add(end, Value(a.offset))
                       [] OTHER -> Value(a.offset)
           at == Least(offset, Limit)
           size == IF Given(a.size) THEN Value(a.size) ELSE Limit - at
           mask == IF a.masks = -1 THEN 4 ELSE a.masks
           q == Part(a.name, at, size, mask)
           p == SanitizedSize(q, Limit)
<1>1. p = Defined(a, end, Limit) BY DEF Defined
<1>2. /\ Word \in Nat \ {0} /\ Limit \in Nat /\ Limit < Word
  BY TableAssumption, EditsAssumption
<1>3. /\ a.name \in STRING /\ a.offset \in Numbers /\ a.size \in Numbers /\ a.masks \in Int
  BY Parts
<1>4. Value(a.offset) \in Bytes /\ Value(a.size) \in Bytes BY <1>3, ValueBytes
<1>5. offset \in Bytes
  <2>1. Add(end, Value(a.offset)) \in Bytes
    <3>1. end \in Int /\ Value(a.offset) \in Int BY <1>2, <1>4 DEF Bytes
    <3> QED BY <3>1, Wrapping
  <2> QED BY <1>4, <2>1
<1>6. at \in Bytes /\ at <= Limit /\ (offset <= Limit => at = offset)
  <2> HIDE DEF offset
  <2> QED BY <1>2, <1>5 DEF Least, Bytes
<1>7. size \in Bytes /\ (Given(a.size) => size = Value(a.size))
      /\ (~Given(a.size) => at + size = Limit)
  <2> HIDE DEF at
  <2> QED BY <1>2, <1>4, <1>6 DEF Bytes
<1>8. mask \in Int BY <1>3
<1>9. ~Given(a.offset) => offset = end OBVIOUS
<1> HIDE DEF offset, at, size, mask
<1>10. q \in Partition /\ q.offset = at /\ q.size = size /\ q.name = a.name
  BY <1>3, <1>6, <1>7, <1>8 DEF Part, Partition
<1> HIDE DEF q
<1>11. /\ p \in Partition /\ p.name = a.name /\ p.offset = at
       /\ \/ at + p.size <= Limit
          \/ p.size = size /\ at + size >= Word
  BY <1>6, <1>10, Sanitized
<1> HIDE DEF p
<1>12. at + size >= Word => Large(a)
  <2>1. size \in Nat /\ at \in Nat BY <1>2, <1>6, <1>7 DEF Bytes
  <2> QED BY <1>2, <1>6, <1>7, <2>1 DEF Large
<1>13. Within(p) \/ (Wraps(p) /\ Large(a)) BY <1>6, <1>11, <1>12 DEF Within, Wraps
<1> QED BY <1>1, <1>6, <1>9, <1>11, <1>13

(* A legal adjustment that is possible leaves a number of 64 bits, which   *)
(* it makes larger by no more than the number it names.                    *)
LEMMA AdjustedValue ==
  ASSUME NEW v \in Bytes, NEW n \in Numbers, LegalAdjustment(n), CanAdjust(v, n)
  PROVE  Adjusted(v, n) \in Bytes /\ Adjusted(v, n) <= v + Value(n)
<1> DEFINE d == n.digits
<1>1. Value(n) \in Bytes /\ (~Given(n) => Value(n) = 0) BY ValueBytes
<1>2. Word \in Nat \ {0} /\ Value(n) \in Nat /\ v \in Nat
  BY <1>1, TableAssumption DEF Bytes
<1>3. Given(n) => d # -1 BY DEF LegalAdjustment
<1>4. d # -1 => d \in Bytes
  <2> DEFINE Signs == {"", "-", "+"}
             Digits == (-1) .. Word - 1
  <2>1. n \in [sign : Signs, digits : Digits] BY DEF Numbers
  <2> HIDE DEF Signs, Digits
  <2>2. n.digits \in Digits BY <2>1
  <2> QED BY <1>2, <2>2 DEF Digits, Bytes
<1>5. CASE ~Given(n) BY <1>2, <1>5 DEF Adjusted
<1>6. CASE Given(n) /\ n.sign = "+"
  <2>1. Adjusted(v, n) = Add(v, d) BY <1>6 DEF Adjusted
  <2>2. d \in Bytes /\ Value(n) = d BY <1>3, <1>4, <1>6 DEF Value
  <2> HIDE DEF d
  <2>3. Add(v, d) \in Bytes /\ Add(v, d) <= v + d
    <3>1. d \in Nat /\ d < Word /\ v < Word BY <1>2, <2>2 DEF Bytes
    <3>2. v + d \in Bytes \/ v + d \in Word .. 2 * Word - 1 BY <1>2, <3>1 DEF Bytes
    <3> QED BY <1>2, <3>1, <3>2, Wrapping
  <2> QED BY <2>1, <2>2, <2>3
<1>7. CASE Given(n) /\ n.sign = "-"
  <2>1. Adjusted(v, n) = v - d BY <1>7 DEF Adjusted
  <2>2. d \in Bytes /\ v >= d BY <1>3, <1>4, <1>7 DEF CanAdjust
  <2> HIDE DEF d
  <2>3. v - d \in Bytes /\ v - d <= v + Value(n) BY <1>2, <2>2 DEF Bytes
  <2> QED BY <2>1, <2>3
<1>8. CASE Given(n) /\ n.sign # "+" /\ n.sign # "-"
  <2>1. Adjusted(v, n) = d BY <1>8 DEF Adjusted
  <2>2. d \in Bytes /\ Value(n) = d BY <1>3, <1>4, <1>8 DEF Value
  <2> HIDE DEF d
  <2> QED BY <1>2, <2>1, <2>2 DEF Bytes
<1> QED BY <1>5, <1>6, <1>7, <1>8

(* ept_eedit_adjust changes the one partition and leaves it on the disk.   *)
LEMMA AdjustedKeeps ==
  ASSUME NEW s \in Seq(Partition), NEW h \in 1 .. Len(s), NEW a \in Arguments,
         LegalAdjustment(a.offset), LegalAdjustment(a.size),
         AdjustedPart(s, h, a, Limit).ok
  PROVE  \E p \in Partition :
           /\ AdjustedPart(s, h, a, Limit).parts = [s EXCEPT ![h] = p]
           /\ Within(p) \/ (Wraps(p) /\ (Large(a) \/ ~Within(s[h])))
<1> DEFINE named == IF a.name = "" THEN s[h] ELSE [s[h] EXCEPT !.name = a.name]
           moved == SanitizedOffset([named EXCEPT !.offset = Adjusted(@, a.offset)], Limit)
           full == [moved EXCEPT !.size = Adjusted(@, a.size)]
           sized == SanitizedSize(full, Limit)
           p == IF a.masks = -1 THEN sized ELSE [sized EXCEPT !.mask = a.masks]
           can == CanAdjust(s[h].offset, a.offset) /\ CanAdjust(s[h].size, a.size)
<1>1. AdjustedPart(s, h, a, Limit) = IF can THEN Done([s EXCEPT ![h] = p]) ELSE Failed
  BY DEF AdjustedPart
<1>2. can
  <2> HIDE DEF can, p
  <2> QED BY <1>1 DEF Failed
<1>3. AdjustedPart(s, h, a, Limit).parts = [s EXCEPT ![h] = p]
  <2> HIDE DEF can, p
  <2> QED BY <1>1, <1>2 DEF Done
<1>4. /\ a.name \in STRING /\ a.offset \in Numbers /\ a.size \in Numbers /\ a.masks \in Int
  BY Parts
<1>5. s[h] \in Partition OBVIOUS
<1>6. named \in Partition /\ named.offset = s[h].offset /\ named.size = s[h].size
  <2> DEFINE none == ""
  <2>1. named = IF a.name = none THEN s[h] ELSE [s[h] EXCEPT !.name = a.name] OBVIOUS
  <2> HIDE DEF none, named
  <2> QED BY <1>4, <1>5, <2>1 DEF Partition
<1> HIDE DEF named
<1>7. /\ Adjusted(named.offset, a.offset) \in Bytes
      /\ Adjusted(named.size, a.size) \in Bytes
      /\ Adjusted(named.size, a.size) <= named.size + Value(a.size)
  <2>1. named.offset \in Bytes /\ named.size \in Bytes BY <1>6 DEF Partition
  <2> QED BY <1>2, <1>4, <1>6, <2>1, AdjustedValue
<1>8. /\ Word \in Nat \ {0} /\ Limit \in Nat /\ Limit < Word
  BY TableAssumption, EditsAssumption
<1>9. moved \in Partition /\ moved.offset <= Limit /\ moved.size = named.size
  <2> DEFINE o == Least(Adjusted(named.offset, a.offset), Limit)
  <2>1. o \in Bytes /\ o <= Limit BY <1>7, <1>8 DEF Least, Bytes
  <2>2. moved = [named EXCEPT !.offset = o] BY <1>6 DEF SanitizedOffset, Partition
  <2> HIDE DEF o, moved
  <2> QED BY <1>6, <2>1, <2>2 DEF Partition
<1> HIDE DEF moved
<1>10. /\ full \in Partition /\ full.offset <= Limit
       /\ full.size <= s[h].size + Value(a.size)
  BY <1>6, <1>7, <1>9 DEF Partition
<1> HIDE DEF full
<1>11. /\ sized \in Partition /\ sized.offset = full.offset
       /\ \/ sized.offset + sized.size <= Limit
          \/ sized.size = full.size /\ full.offset + full.size >= Word
  BY <1>10, Sanitized
<1> HIDE DEF sized
<1>12. p \in Partition /\ p.offset = sized.offset /\ p.size = sized.size
  BY <1>4, <1>11 DEF Partition
<1> HIDE DEF p
<1>13. ASSUME full.offset + full.size >= Word, Within(s[h]) PROVE Large(a)
  <2>1. s[h].offset \in Nat /\ s[h].size \in Nat /\ full.offset \in Nat /\ full.size \in Nat
    BY <1>5, <1>8, <1>10 DEF Partition, Bytes
  <2>2. s[h].size <= Limit BY <1>8, <1>13, <2>1 DEF Within
  <2>3. Value(a.size) \in Nat BY <1>4, <1>8, ValueBytes DEF Bytes
  <2> QED BY <1>8, <1>10, <1>13, <2>1, <2>2, <2>3 DEF Large
<1>14. Within(p) \/ (Wraps(p) /\ (Large(a) \/ ~Within(s[h])))
  <2>1. CASE sized.offset + sized.size <= Limit BY <1>12, <2>1 DEF Within
  <2>2. CASE sized.size = full.size /\ full.offset + full.size >= Word
    BY <1>10, <1>11, <1>12, <1>13, <2>2 DEF Wraps
  <2> QED BY <1>11, <2>1, <2>2
<1> QED BY <1>3, <1>12, <1>14

(***************************************************************************)
(* Lists: what every operation leaves of them                              *)
(***************************************************************************)
(* The first partition of a name.                                          *)
First(S) == CHOOSE j \in S : \A k \in S : j <= k

(* The least of some places.                                               *)
LEMMA FirstIs ==
  ASSUME NEW T \in SUBSET Nat, T # {}
  PROVE  First(T) \in T /\ \A k \in T : First(T) <= k
  BY LeastElement DEF First

(* A selector that was given selects a partition of the list or none.      *)
LEMMA SelectedIn ==
  ASSUME NEW S, NEW s \in Seq(S), NEW a \in Arguments, a.select.by # "none"
  PROVE  Selected(s, a.select) \in 0 .. Len(s)
<1> DEFINE found == Find(s, a.select.name)
           x == a.select.index
           n == Len(s)
<1>1. found \in SUBSET (1 .. n) /\ n \in Nat BY DEF Find
<1>2. a.select.by \in {"name", "index"} /\ x \in Int BY Parts
<1>3. CASE a.select.by = "name"
  <2>1. Selected(s, a.select) = IF found = {} THEN 0 ELSE First(found)
    BY <1>3 DEF Selected, First
  <2> HIDE DEF found, n
  <2>2. found \in SUBSET Nat BY <1>1
  <2>3. found # {} => First(found) \in 1 .. n BY <1>1, <2>2, FirstIs
  <2>4. Selected(s, a.select) \in 0 .. n BY <1>1, <2>1, <2>3
  <2> QED BY <2>4 DEF n
<1>4. CASE a.select.by # "name" /\ x >= 0
  <2>1. Selected(s, a.select) = IF x + 1 > n THEN 0 ELSE x + 1
    BY <1>2, <1>4 DEF Selected
  <2> HIDE DEF x, n
  <2>2. Selected(s, a.select) \in 0 .. n BY <1>1, <1>2, <1>4, <2>1
  <2> QED BY <2>2 DEF n
<1>5. CASE a.select.by # "name" /\ ~(x >= 0)
  <2>1. Selected(s, a.select) = IF -x > n THEN 0 ELSE n + x + 1
    BY <1>2, <1>5 DEF Selected
  <2> HIDE DEF x, n
  <2>2. Selected(s, a.select) \in 0 .. n BY <1>1, <1>2, <1>5, <2>1
  <2> QED BY <2>2 DEF n
<1> QED BY <1>3, <1>4, <1>5

(* Apart from one place in each, the two lists are the same.               *)
Touched(s, t) == \E h \in 0 .. Len(s), j \in 0 .. Len(t) : Without(s, h) = Without(t, j)

(* Appending, replacing, deleting and moving one partition leave the       *)
(* others as they are and in their order.                                  *)
LEMMA AppendTouches ==
  ASSUME NEW S, NEW s \in Seq(S), NEW x \in S
  PROVE  /\ Append(s, x) \in Seq(S) /\ Touched(s, Append(s, x))
         /\ Without(Append(s, x), Len(s) + 1) = s
<1>1. Len(Append(s, x)) = Len(s) + 1 /\ Len(s) \in Nat OBVIOUS
<1>2. Deleted(Append(s, x), Len(s) + 1) = s
  <2>1. Deleted(Append(s, x), Len(s) + 1) =
          [k \in 1 .. Len(s) + 1 - 1 |-> IF k < Len(s) + 1 THEN Append(s, x)[k]
                                                          ELSE Append(s, x)[k + 1]]
    BY <1>1 DEF Deleted
  <2>2. Len(s) + 1 - 1 = Len(s) BY <1>1
  <2> QED BY <1>1, <2>1, <2>2
<1>3. Without(s, 0) = s BY DEF Without
<1>4. Without(Append(s, x), Len(s) + 1) = s
  <2>1. Len(s) + 1 # 0 BY <1>1
  <2> QED BY <1>2, <2>1 DEF Without
<1>5. 0 \in 0 .. Len(s) /\ Len(s) + 1 \in 0 .. Len(Append(s, x)) BY <1>1
<1> QED BY <1>3, <1>4, <1>5 DEF Touched

(* Replacing one touches no other.                                         *)
LEMMA ReplaceTouches ==
  ASSUME NEW S, NEW s \in Seq(S), NEW h \in 1 .. Len(s), NEW x \in S
  PROVE  /\ [s EXCEPT ![h] = x] \in Seq(S) /\ Len([s EXCEPT ![h] = x]) = Len(s)
         /\ Touched(s, [s EXCEPT ![h] = x])
<1> DEFINE t == [s EXCEPT ![h] = x]
<1>1. t \in Seq(S) /\ Len(t) = Len(s) /\ Len(s) \in Nat OBVIOUS
<1>2. \A k \in 1 .. Len(s) : k # h => t[k] = s[k] OBVIOUS
<1> HIDE DEF t
<1>3. Deleted(t, h) = Deleted(s, h) BY <1>1, <1>2 DEF Deleted
<1>4. h # 0 /\ h \in 0 .. Len(s) BY <1>1
<1>5. Touched(s, t) BY <1>1, <1>3, <1>4 DEF Touched, Without
<1> QED BY <1>1, <1>5 DEF t

(* Deleting one touches no other.                                          *)
LEMMA DeleteTouches ==
  ASSUME NEW S, NEW s \in Seq(S), NEW h \in 1 .. Len(s)
  PROVE  /\ Deleted(s, h) \in Seq(S) /\ Len(Deleted(s, h)) = Len(s) - 1
         /\ Touched(s, Deleted(s, h))
<1>1. Len(s) \in Nat /\ Len(s) - 1 \in Nat /\ h \in Nat OBVIOUS
<1>2. ASSUME NEW k \in 1 .. Len(s) - 1 PROVE (IF k < h THEN s[k] ELSE s[k + 1]) \in S
  BY <1>1
<1>3. Deleted(s, h) \in [1 .. Len(s) - 1 -> S] BY <1>2 DEF Deleted
<1>4. Deleted(s, h) \in Seq(S) /\ Len(Deleted(s, h)) = Len(s) - 1 BY <1>1, <1>3
<1>5. Without(s, h) = Without(Deleted(s, h), 0) BY <1>1 DEF Without
<1>6. h \in 0 .. Len(s) /\ 0 \in 0 .. Len(Deleted(s, h)) BY <1>1, <1>4
<1> QED BY <1>4, <1>5, <1>6 DEF Touched

(* Moving one to another place touches no other, and nobody is lost or     *)
(* invented.                                                               *)
LEMMA PlaceTouches ==
  ASSUME NEW S, NEW s \in Seq(S), NEW h \in 1 .. Len(s), NEW to \in 1 .. Len(s)
  PROVE  /\ Placed(s, h, to) \in Seq(S) /\ Len(Placed(s, h, to)) = Len(s)
         /\ Touched(s, Placed(s, h, to))
         /\ \A k \in 1 .. Len(s) : \E j \in 1 .. Len(s) : Placed(s, h, to)[k] = s[j]
<1> DEFINE t == Placed(s, h, to)
           n == Len(s)
<1>1. n \in Nat /\ DOMAIN s = 1 .. n /\ h \in Int /\ to \in Int OBVIOUS
<1>2. ASSUME NEW k \in 1 .. n
      PROVE  /\ k = to => t[k] = s[h]
             /\ k # to /\ h <= k /\ k < to => k + 1 \in 1 .. n /\ t[k] = s[k + 1]
             /\ k # to /\ to < k /\ k <= h => k - 1 \in 1 .. n /\ t[k] = s[k - 1]
             /\ k # to /\ ~(h <= k /\ k < to) /\ ~(to < k /\ k <= h) => t[k] = s[k]
  <2>1. t[k] = CASE k = to -> s[h]
                 [] h <= k /\ k < to -> s[k + 1]
                 [] to < k /\ k <= h -> s[k - 1]
                 [] OTHER -> s[k]
    BY DEF Placed
  <2> HIDE DEF t, n
  <2> QED BY <1>1, <2>1
<1>3. DOMAIN t = 1 .. n BY DEF Placed
<1>4. t = [k \in 1 .. n |-> t[k]] BY DEF Placed
<1> HIDE DEF t
<1>5. ASSUME NEW k \in 1 .. n PROVE \E j \in 1 .. n : t[k] = s[j]
  <2> HIDE DEF n
  <2> QED BY <1>1, <1>2 DEF n
<1>6. \A k \in 1 .. n : t[k] \in S
  <2>1. \A j \in 1 .. n : s[j] \in S OBVIOUS
  <2> HIDE DEF n
  <2> QED BY <1>5, <2>1
<1>7. t \in [1 .. n -> S] BY <1>4, <1>6
<1>8. t \in Seq(S) /\ Len(t) = n BY <1>1, <1>7
<1>9. Deleted(t, to) = Deleted(s, h)
  <2>1. ASSUME NEW k \in 1 .. n - 1
        PROVE  (IF k < to THEN t[k] ELSE t[k + 1]) = IF k < h THEN s[k] ELSE s[k + 1]
    <3>1. k \in 1 .. n /\ k + 1 \in 1 .. n /\ (k + 1) - 1 = k BY <1>1
    <3> HIDE DEF n
    <3>2. CASE k < to BY <1>1, <1>2, <3>1, <3>2
    <3>3. CASE ~(k < to) BY <1>1, <1>2, <3>1, <3>3
    <3> QED BY <3>2, <3>3
  <2> HIDE DEF n
  <2> QED BY <1>8, <2>1 DEF Deleted, n
<1>10. Touched(s, t)
  <2>1. h # 0 /\ to # 0 /\ h \in 0 .. Len(s) /\ to \in 0 .. Len(t) BY <1>1, <1>8
  <2> QED BY <1>9, <2>1 DEF Touched, Without
<1> QED BY <1>5, <1>8, <1>10 DEF t

(***************************************************************************)
(* One argument                                                            *)
(***************************************************************************)
(* An argument that changes a partition selects one, and what it adds is a *)
(* number.                                                                 *)
LEMMA LegalIs ==
  ASSUME NEW a, NEW eedit, LegalModifier(a, eedit)
  PROVE  /\ a.select.by # "none" /\ a.op \in {"adjust", "clone", "place", "delete"}
         /\ a.op = "adjust" => LegalAdjustment(a.offset) /\ LegalAdjustment(a.size)
<1>1. LegalAdjustorPrefix(a, eedit) => LegalAdjustment(a.offset)
  <2>1. LegalAdjustorPrefix(a, eedit) => (Given(a.offset) => LegalAdjustment(a.offset))
    BY Zenon DEF LegalAdjustorPrefix
  <2>2. ~Given(a.offset) => LegalAdjustment(a.offset) BY DEF LegalAdjustment
  <2> QED BY <2>1, <2>2
<1> DEFINE named == a.name # ""
<1>2. /\ a.select.by # "none"
      /\ CASE a.op = "adjust" -> LegalAdjustorPrefix(a, eedit) /\ LegalAdjustment(a.size)
           [] a.op = "clone"  -> named
           [] a.op = "place"  -> a.place.how # "none"
           [] a.op = "delete" -> TRUE
           [] OTHER -> FALSE
  BY Zenon DEF LegalModifier
<1> HIDE DEF named
<1> QED BY <1>1, <1>2

(* The capacity of a table is 0 or the end of a partition, and no          *)
(* partition that lies on the disk ends behind it.                         *)
LEMMA CapacityBytes ==
  ASSUME NEW s \in Seq(Partition)
  PROVE  /\ Capacity(s) \in Bytes
         /\ (\A k \in DOMAIN s : Within(s[k])) =>
              /\ Capacity(s) <= Limit
              /\ \A k \in DOMAIN s : s[k].offset + s[k].size <= Capacity(s)
<1> DEFINE T == {0} \union {End(s[k]) : k \in DOMAIN s}
<1>1. Word \in Nat \ {0} /\ Limit \in Nat /\ Limit < Word BY TableAssumption, EditsAssumption
<1>2. ASSUME NEW k \in DOMAIN s
      PROVE  /\ s[k].offset \in Nat /\ s[k].size \in Nat /\ End(s[k]) \in Bytes
             /\ Within(s[k]) => End(s[k]) = s[k].offset + s[k].size /\ End(s[k]) <= Limit
  <2>1. s[k] \in Partition OBVIOUS
  <2> DEFINE o == s[k].offset
             z == s[k].size
  <2>2. o \in Nat /\ z \in Nat BY <1>1, <2>1 DEF Partition, Bytes
  <2>3. End(s[k]) = Add(o, z) /\ (Within(s[k]) <=> o + z <= Limit) BY DEF End, Within
  <2> HIDE DEF o, z
  <2>4. Add(o, z) \in Bytes BY <2>2, Wrapping
  <2>5. o + z <= Limit => o + z \in Bytes BY <1>1, <2>2 DEF Bytes
  <2>6. o + z <= Limit => Add(o, z) = o + z BY <2>2, <2>5, Wrapping
  <2> QED BY <1>1, <2>2, <2>3, <2>4, <2>6 DEF o, z
<1>3. T \in SUBSET Bytes
  <2>1. 0 \in Bytes BY <1>1 DEF Bytes
  <2> QED BY <1>2, <2>1
<1>4. Capacity(s) \in T /\ \A e \in T : e <= Capacity(s)
  <2>1. Capacity(s) = Greatest(T) BY DEF Capacity
  <2>2. 0 \in T OBVIOUS
  <2> HIDE DEF T
  <2>3. T \in SUBSET Nat /\ \A e \in T : e <= Word BY <1>1, <1>3 DEF Bytes
  <2>4. \E e \in T : \A f \in T : f <= e BY <1>1, <2>2, <2>3, GreatestElement
  <2>5. \E e \in T : \A f \in T : e >= f BY <2>3, <2>4
  <2>6. Greatest(T) \in T /\ \A f \in T : Greatest(T) >= f BY <2>5 DEF Greatest
  <2> QED BY <2>1, <2>3, <2>6
<1>5. ASSUME \A k \in DOMAIN s : Within(s[k])
      PROVE  /\ Capacity(s) <= Limit
             /\ \A k \in DOMAIN s : s[k].offset + s[k].size <= Capacity(s)
  <2>1. \A e \in T : e <= Limit BY <1>1, <1>2, <1>5
  <2>2. ASSUME NEW k \in DOMAIN s PROVE s[k].offset + s[k].size <= Capacity(s)
    <3>1. End(s[k]) \in T OBVIOUS
    <3> HIDE DEF T
    <3> QED BY <1>2, <1>4, <1>5, <3>1
  <2> QED BY <1>4, <2>1, <2>2
<1> QED BY <1>3, <1>4, <1>5

(* What becomes of a partition's place: it was there before, is on the     *)
(* disk, or wraps.                                                         *)
Fine(p, s, a) ==
  \/ \E k \in DOMAIN s : p.offset = s[k].offset /\ p.size = s[k].size
  \/ Within(p)
  \/ Wraps(p) /\ (Large(a) \/ \E k \in DOMAIN s : ~Within(s[k]))

(* eedit: one argument.                                                    *)
LEMMA EeditedKeeps ==
  ASSUME NEW s \in Seq(Partition), Len(s) <= MaxParts, NEW a \in Arguments,
         LegalFor("eedit", a), Eedited(s, Limit, a).ok
  PROVE  LET t == Eedited(s, Limit, a).parts
         IN /\ t \in Seq(Partition) /\ Len(t) <= MaxParts /\ Touched(s, t)
            /\ \A k \in 1 .. Len(t) : Fine(t[k], s, a)
<1> DEFINE h == Selected(s, a.select)
           to == PlaceTarget(a.place, h, Len(s))
           t == Eedited(s, Limit, a).parts
           Good(u) == /\ u \in Seq(Partition) /\ Len(u) <= MaxParts /\ Touched(s, u)
                      /\ \A k \in 1 .. Len(u) : Fine(u[k], s, a)
<1>0. Len(s) \in Nat /\ DOMAIN s = 1 .. Len(s) /\ MaxParts \in Nat BY TableAssumption
<1>1. ASSUME ~Full(s), NEW x \in Partition, Fine(x, s, a) PROVE Good(Append(s, x))
  <2>1. Append(s, x) \in Seq(Partition) /\ Touched(s, Append(s, x)) BY AppendTouches
  <2>2. Len(Append(s, x)) = Len(s) + 1 /\ Len(s) < MaxParts BY <1>0, <1>1 DEF Full
  <2>3. ASSUME NEW k \in 1 .. Len(s) PROVE Fine(Append(s, x)[k], s, a)
    <3>1. Append(s, x)[k] = s[k] /\ k \in DOMAIN s OBVIOUS
    <3> QED BY <3>1 DEF Fine
  <2>4. Append(s, x)[Len(s) + 1] = x OBVIOUS
  <2>5. \A k \in 1 .. Len(s) + 1 : k \in 1 .. Len(s) \/ k = Len(s) + 1 BY <1>0
  <2>6. \A k \in 1 .. Len(s) + 1 : Fine(Append(s, x)[k], s, a) BY <1>1, <2>3, <2>4, <2>5
  <2> QED BY <1>0, <2>1, <2>2, <2>6
<1>2. CASE a.op = "define"
  <2> DEFINE x == Defined(a, Capacity(s), Limit)
  <2>1. Eedited(s, Limit, a) = IF Full(s) THEN Failed ELSE Done(Append(s, x))
    BY <1>2 DEF Eedited
  <2>2. ~Full(s) /\ t = Append(s, x) BY <2>1 DEF Failed, Done
  <2>3. Capacity(s) \in Bytes BY CapacityBytes
  <2>4. x \in Partition /\ (Within(x) \/ (Wraps(x) /\ Large(a))) BY <2>3, NewPart
  <2> HIDE DEF x, t
  <2>5. Good(Append(s, x)) BY <1>1, <2>2, <2>4 DEF Fine
  <2> QED BY <2>2, <2>5 DEF t
<1>3. CASE a.op # "define"
  <2>1. LegalModifier(a, TRUE) BY <1>3 DEF LegalFor
  <2>2. /\ a.select.by # "none" /\ a.op \in {"adjust", "clone", "place", "delete"}
        /\ a.op = "adjust" => LegalAdjustment(a.offset) /\ LegalAdjustment(a.size)
    BY <2>1, LegalIs
  <2>3. h \in 0 .. Len(s) BY <2>2, SelectedIn
  <2>4. h # 0 BY <1>3 DEF Eedited, Failed
  <2>5. h \in 1 .. Len(s) BY <1>0, <2>3, <2>4
  <2>6. CASE a.op = "adjust"
    <3>1. Eedited(s, Limit, a) = AdjustedPart(s, h, a, Limit) BY <2>4, <2>6 DEF Eedited
    <3> HIDE DEF h
    <3>2. PICK p \in Partition : /\ t = [s EXCEPT ![h] = p]
                                 /\ Within(p) \/ (Wraps(p) /\ (Large(a) \/ ~Within(s[h])))
      BY <2>2, <2>5, <2>6, <3>1, AdjustedKeeps
    <3> HIDE DEF t
    <3>3. t \in Seq(Partition) /\ Len(t) = Len(s) /\ Touched(s, t)
      <4> DEFINE u == [s EXCEPT ![h] = p]
      <4>1. u \in Seq(Partition) /\ Len(u) = Len(s) /\ Touched(s, u)
        BY <2>5, ReplaceTouches
      <4>2. t = u BY <3>2
      <4> HIDE DEF u
      <4> QED BY <4>1, <4>2
    <3>4. ASSUME NEW k \in 1 .. Len(t) PROVE Fine(t[k], s, a)
      <4>1. k \in DOMAIN s /\ (k # h => t[k] = s[k]) /\ (k = h => t[k] = p)
        BY <1>0, <2>5, <3>2, <3>3
      <4> QED BY <1>0, <2>5, <3>2, <4>1 DEF Fine
    <3> QED BY <3>3, <3>4 DEF t
  <2>7. CASE a.op = "delete"
    <3>1. t = Deleted(s, h) BY <2>4, <2>7 DEF Eedited, Done
    <3> HIDE DEF h, t
    <3>2. t \in Seq(Partition) /\ Len(t) = Len(s) - 1 /\ Touched(s, t)
      <4>1. /\ Deleted(s, h) \in Seq(Partition) /\ Len(Deleted(s, h)) = Len(s) - 1
            /\ Touched(s, Deleted(s, h))
        BY <2>5, DeleteTouches
      <4> QED BY <3>1, <4>1
    <3>3. ASSUME NEW k \in 1 .. Len(t) PROVE Fine(t[k], s, a)
      <4>1. t[k] = s[k] \/ t[k] = s[k + 1] BY <3>1, <3>2 DEF Deleted
      <4>2. k \in DOMAIN s /\ k + 1 \in DOMAIN s BY <1>0, <3>2
      <4> QED BY <4>1, <4>2 DEF Fine
    <3>4. Len(t) <= MaxParts BY <1>0, <3>2
    <3> QED BY <3>2, <3>3, <3>4 DEF t
  <2>8. CASE a.op = "clone"
    <3> DEFINE x == [s[h] EXCEPT !.name = a.name]
    <3>1. Eedited(s, Limit, a) = IF Full(s) THEN Failed ELSE Done(Append(s, x))
      BY <2>4, <2>8 DEF Eedited
    <3>2. ~Full(s) /\ t = Append(s, x) BY <3>1 DEF Failed, Done
    <3> HIDE DEF h
    <3>3. s[h] \in Partition /\ a.name \in STRING BY <2>5, Parts
    <3>4. x \in Partition /\ x.offset = s[h].offset /\ x.size = s[h].size
      BY <3>3 DEF Partition
    <3> HIDE DEF x, t
    <3>5. Fine(x, s, a) BY <1>0, <2>5, <3>4 DEF Fine
    <3>6. Good(Append(s, x)) BY <1>1, <3>2, <3>4, <3>5
    <3> QED BY <3>2, <3>6 DEF t
  <2>9. CASE a.op = "place"
    <3>1. Eedited(s, Limit, a) = IF to \in DOMAIN s THEN Done(Placed(s, h, to)) ELSE Failed
      BY <2>4, <2>9 DEF Eedited
    <3>2. to \in 1 .. Len(s) /\ t = Placed(s, h, to) BY <1>0, <3>1 DEF Failed, Done
    <3> HIDE DEF h, to, t
    <3>3. /\ t \in Seq(Partition) /\ Len(t) = Len(s) /\ Touched(s, t)
          /\ \A k \in 1 .. Len(s) : \E j \in 1 .. Len(s) : t[k] = s[j]
      <4> DEFINE u == Placed(s, h, to)
      <4>1. /\ u \in Seq(Partition) /\ Len(u) = Len(s) /\ Touched(s, u)
            /\ \A k \in 1 .. Len(s) : \E j \in 1 .. Len(s) : u[k] = s[j]
        BY <2>5, <3>2, PlaceTouches
      <4> HIDE DEF u
      <4>2. t = u BY <3>2 DEF u
      <4> QED BY <4>1, <4>2
    <3>4. \A k \in 1 .. Len(t) : Fine(t[k], s, a) BY <1>0, <3>3 DEF Fine
    <3> QED BY <3>3, <3>4 DEF t
  <2> QED BY <2>2, <2>6, <2>7, <2>8, <2>9
<1> QED BY <1>2, <1>3

(* dedit: one argument.                                                    *)
LEMMA DeditedKeeps ==
  ASSUME NEW s \in Seq(DPartition), Len(s) <= MaxParts, NEW a \in Arguments,
         LegalFor("dedit", a), Dedited(s, a).ok
  PROVE  LET t == Dedited(s, a).parts
         IN t \in Seq(DPartition) /\ Len(t) <= MaxParts /\ Touched(s, t)
<1> DEFINE h == Selected(s, a.select)
           to == PlaceTarget(a.place, h, Len(s))
           t == Dedited(s, a).parts
           Good(u) == u \in Seq(DPartition) /\ Len(u) <= MaxParts /\ Touched(s, u)
<1>0. Len(s) \in Nat /\ DOMAIN s = 1 .. Len(s) /\ MaxParts \in Nat BY TableAssumption
<1>1. ASSUME ~Full(s), NEW x \in DPartition PROVE Good(Append(s, x))
  <2>1. Append(s, x) \in Seq(DPartition) /\ Touched(s, Append(s, x)) BY AppendTouches
  <2>2. Len(Append(s, x)) = Len(s) + 1 /\ Len(s) < MaxParts BY <1>0, <1>1 DEF Full
  <2> QED BY <1>0, <2>1, <2>2
<1>2. ASSUME NEW h0 \in 1 .. Len(s), NEW x \in DPartition PROVE Good([s EXCEPT ![h0] = x])
  <2> DEFINE u == [s EXCEPT ![h0] = x]
  <2>1. u \in Seq(DPartition) /\ Len(u) = Len(s) /\ Touched(s, u) BY ReplaceTouches
  <2> HIDE DEF u
  <2>2. Good(u) BY <2>1
  <2> QED BY <2>2 DEF u
<1>3. /\ a.name \in STRING /\ a.size \in Numbers /\ a.masks \in Int
  BY Parts
<1>4. CASE a.op = "define"
  <2> DEFINE x == DPartDefined(a)
  <2>1. Dedited(s, a) = IF Full(s) THEN Failed ELSE Done(Append(s, x)) BY <1>4 DEF Dedited
  <2>2. ~Full(s) /\ t = Append(s, x) BY <2>1 DEF Failed, Done
  <2>3. x \in DPartition BY <1>3, ValueBytes DEF DPartDefined, DPart, DPartition
  <2> HIDE DEF x, t
  <2>4. Good(Append(s, x)) BY <1>1, <2>2, <2>3
  <2> QED BY <2>2, <2>4 DEF t
<1>5. CASE a.op # "define"
  <2>1. LegalModifier(a, FALSE) BY <1>5 DEF LegalFor
  <2>2. /\ a.select.by # "none" /\ a.op \in {"adjust", "clone", "place", "delete"}
        /\ a.op = "adjust" => LegalAdjustment(a.size)
    BY <2>1, LegalIs
  <2>3. h \in 0 .. Len(s) BY <2>2, SelectedIn
  <2>4. h # 0 BY <1>5 DEF Dedited, Failed
  <2>5. h \in 1 .. Len(s) BY <1>0, <2>3, <2>4
  <2>6. CASE a.op = "adjust"
    <3> DEFINE named == IF a.name = "" THEN s[h] ELSE [s[h] EXCEPT !.name = a.name]
               sized == [named EXCEPT !.size = Adjusted(@, a.size)]
               x == IF a.masks = -1 THEN sized ELSE [sized EXCEPT !.mask = a.masks]
               can == CanAdjust(s[h].size, a.size)
    <3>1. AdjustedDPart(s, h, a) = IF can THEN Done([s EXCEPT ![h] = x]) ELSE Failed
      BY DEF AdjustedDPart
    <3>2. Dedited(s, a) = AdjustedDPart(s, h, a) BY <2>4, <2>6 DEF Dedited
    <3>3. can /\ t = [s EXCEPT ![h] = x]
      <4> HIDE DEF can, x
      <4> QED BY <3>1, <3>2 DEF Failed, Done
    <3> HIDE DEF h
    <3>4. s[h] \in DPartition BY <2>5
    <3>5. named \in DPartition /\ named.size = s[h].size
      <4> DEFINE none == ""
      <4>1. named = IF a.name = none THEN s[h] ELSE [s[h] EXCEPT !.name = a.name] OBVIOUS
      <4> HIDE DEF none, named
      <4> QED BY <1>3, <3>4, <4>1 DEF DPartition
    <3> HIDE DEF named
    <3>6. Adjusted(named.size, a.size) \in Bytes
      <4>1. named.size \in Bytes BY <3>5 DEF DPartition
      <4> QED BY <1>3, <2>2, <2>6, <3>3, <3>5, <4>1, AdjustedValue
    <3>7. x \in DPartition BY <1>3, <3>5, <3>6 DEF DPartition
    <3> HIDE DEF x, t
    <3>8. Good([s EXCEPT ![h] = x]) BY <1>2, <2>5, <3>7
    <3> QED BY <3>3, <3>8 DEF t
  <2>7. CASE a.op = "delete"
    <3>1. t = Deleted(s, h) BY <2>4, <2>7 DEF Dedited, Done
    <3> HIDE DEF h, t
    <3> DEFINE u == Deleted(s, h)
    <3>2. u \in Seq(DPartition) /\ Len(u) = Len(s) - 1 /\ Touched(s, u)
      BY <2>5, DeleteTouches
    <3> HIDE DEF u
    <3>3. Good(u) BY <1>0, <3>2
    <3> QED BY <3>1, <3>3 DEF t, u
  <2>8. CASE a.op = "clone"
    <3> DEFINE x == [s[h] EXCEPT !.name = a.name]
    <3>1. Dedited(s, a) = IF Full(s) THEN Failed ELSE Done(Append(s, x))
      BY <2>4, <2>8 DEF Dedited
    <3>2. ~Full(s) /\ t = Append(s, x) BY <3>1 DEF Failed, Done
    <3> HIDE DEF h
    <3>3. s[h] \in DPartition BY <2>5
    <3>4. x \in DPartition BY <1>3, <3>3 DEF DPartition
    <3> HIDE DEF x, t
    <3>5. Good(Append(s, x)) BY <1>1, <3>2, <3>4
    <3> QED BY <3>2, <3>5 DEF t
  <2>9. CASE a.op = "place"
    <3>1. Dedited(s, a) = IF to \in DOMAIN s THEN Done(Placed(s, h, to)) ELSE Failed
      BY <2>4, <2>9 DEF Dedited
    <3>2. to \in 1 .. Len(s) /\ t = Placed(s, h, to) BY <1>0, <3>1 DEF Failed, Done
    <3> HIDE DEF h, to, t
    <3> DEFINE u == Placed(s, h, to)
    <3>3. u \in Seq(DPartition) /\ Len(u) = Len(s) /\ Touched(s, u)
      BY <2>5, <3>2, PlaceTouches
    <3> HIDE DEF u
    <3>4. Good(u) BY <3>3
    <3> QED BY <3>2, <3>4 DEF t, u
  <2> QED BY <2>2, <2>6, <2>7, <2>8, <2>9
<1> QED BY <1>4, <1>5

(* ecreate: what is there has one partition of a name, which makes way for *)
(* the one defined; the others stay as they are.                           *)
LEMMA EcreatedKeeps ==
  ASSUME NEW s \in Seq(Partition), Len(s) >= 2, NamesUnique(s), NEW a \in Arguments,
         Ecreated(s, Limit, a).ok
  PROVE  LET t == Ecreated(s, Limit, a).parts
         IN /\ t \in Seq(Partition) /\ Len(t) \in 2 .. MaxParts /\ NamesUnique(t) /\ Touched(s, t)
            /\ \A k \in 1 .. Len(t) :
                 \/ t[k].name # a.name /\ \E j \in 1 .. Len(s) : t[k] = s[j]
                 \/ t[k].name = a.name /\ (Within(t[k]) \/ (Wraps(t[k]) /\ Large(a)))
            /\ \A j \in 1 .. Len(s) :
                 s[j].name # a.name => \E k \in 1 .. Len(t) : t[k] = s[j]
<1> DEFINE there == Find(s, a.name)
           d == First(there)
           left == IF there = {} THEN s ELSE Deleted(s, d)
           x == Defined(a, End(left[Len(left)]), Limit)
           t == Append(left, x)
           n == Len(s)
           m == Len(left)
<1>0. n \in Nat /\ DOMAIN s = 1 .. n /\ MaxParts \in Nat BY TableAssumption
<1>1. Ecreated(s, Limit, a) = IF Len(left) >= MaxParts THEN Failed ELSE Done(t)
  BY DEF Ecreated, First
<1>2. ~(Len(left) >= MaxParts) /\ Ecreated(s, Limit, a).parts = t
  <2> HIDE DEF t, left
  <2> QED BY <1>1 DEF Failed, Done
<1>3. there \in SUBSET (1 .. n) /\ \A j \in 1 .. n : j \in there <=> s[j].name = a.name
  BY DEF Find
<1>4. ASSUME there = {}
      PROVE  /\ left = s
             /\ \A k \in 1 .. m : left[k] = s[k] /\ s[k].name # a.name
  BY <1>3, <1>4
<1>5. ASSUME there # {}
      PROVE  /\ d \in 1 .. n /\ left = Deleted(s, d) /\ left \in Seq(Partition) /\ m = n - 1
             /\ \A k \in 1 .. m : left[k] = IF k < d THEN s[k] ELSE s[k + 1]
             /\ \A j \in 1 .. n : s[j].name = a.name <=> j = d
  <2>1. there \in SUBSET Nat BY <1>3
  <2>2. d \in there
    <3> HIDE DEF there
    <3> QED BY <1>5, <2>1, FirstIs
  <2>3. d \in 1 .. n /\ left = Deleted(s, d) BY <1>3, <1>5, <2>2
  <2>4. \A j \in 1 .. n : s[j].name = a.name <=> j = d
    <3>1. s[d].name = a.name BY <1>3, <2>2, <2>3
    <3> HIDE DEF d
    <3> QED BY <1>0, <2>3, <3>1 DEF NamesUnique
  <2> HIDE DEF d, there, left
  <2>5. Deleted(s, d) \in Seq(Partition) /\ Len(Deleted(s, d)) = n - 1 BY <2>3, DeleteTouches
  <2>6. \A k \in 1 .. n - 1 : Deleted(s, d)[k] = IF k < d THEN s[k] ELSE s[k + 1] BY DEF Deleted
  <2> QED BY <2>3, <2>4, <2>5, <2>6
<1> HIDE DEF there, left, d
<1>6. left \in Seq(Partition) /\ m \in 1 .. n /\ m + 1 >= n /\ DOMAIN left = 1 .. m
  <2>1. CASE there = {}
    <3>1. left = s /\ m = n /\ n >= 2 BY <1>4, <2>1
    <3>2. DOMAIN left = 1 .. m /\ left \in Seq(Partition) BY <3>1
    <3> HIDE DEF n, m
    <3> QED BY <1>0, <3>1, <3>2
  <2>2. CASE there # {}
    <3>1. left \in Seq(Partition) /\ m = n - 1 /\ n >= 2 BY <1>5, <2>2
    <3>2. DOMAIN left = 1 .. m BY <3>1
    <3> HIDE DEF n, m
    <3> QED BY <1>0, <3>1, <3>2
  <2> QED BY <2>1, <2>2
<1>7. \A k \in 1 .. m : left[k].name # a.name /\ \E j \in 1 .. n : left[k] = s[j]
  <2>1. CASE there = {} BY <1>0, <1>4, <1>6, <2>1
  <2>2. CASE there # {}
    <3> TAKE k \in 1 .. m
    <3>1. m = n - 1 BY <1>5, <2>2
    <3> HIDE DEF n, m
    <3>2. k \in 1 .. n /\ k + 1 \in 1 .. n BY <1>0, <1>6, <3>1
    <3> QED BY <1>5, <2>2, <3>2
  <2> QED BY <2>1, <2>2
<1>8. \A j \in 1 .. n : s[j].name # a.name => \E k \in 1 .. m : left[k] = s[j]
  <2>1. CASE there = {} BY <1>0, <1>4, <1>6, <2>1
  <2>2. CASE there # {}
    <3> TAKE j \in 1 .. n
    <3> HAVE s[j].name # a.name
    <3>1. j # d /\ d \in 1 .. n /\ m = n - 1 BY <1>5, <2>2
    <3>2. CASE j < d
      <4>1. j \in 1 .. m BY <1>0, <3>1, <3>2
      <4> QED BY <1>5, <2>2, <3>2, <4>1
    <3>3. CASE ~(j < d)
      <4>1. j - 1 \in 1 .. m /\ (j - 1) + 1 = j /\ ~(j - 1 < d) BY <1>0, <3>1, <3>3
      <4>2. left[j - 1] = s[(j - 1) + 1] BY <1>5, <2>2, <4>1
      <4> QED BY <4>1, <4>2
    <3> QED BY <3>2, <3>3
  <2> QED BY <2>1, <2>2
<1>9. \A k, l \in 1 .. m : left[k].name = left[l].name => k = l
  <2>1. CASE there = {} BY <1>0, <1>4, <1>6, <2>1 DEF NamesUnique
  <2>2. CASE there # {}
    <3> TAKE k, l \in 1 .. m
    <3> HAVE left[k].name = left[l].name
    <3> DEFINE u == IF k < d THEN k ELSE k + 1
               v == IF l < d THEN l ELSE l + 1
    <3>1. u \in 1 .. n /\ v \in 1 .. n
      <4>1. m = n - 1 BY <1>5, <2>2
      <4> HIDE DEF n, m
      <4> QED BY <1>0, <1>6, <4>1
    <3>2. left[k] = s[u] /\ left[l] = s[v] BY <1>5, <2>2
    <3>3. s[u].name = s[v].name BY <3>2
    <3>4. d \in Int /\ k \in Int /\ l \in Int BY <1>5, <2>2
    <3>5. u = v => k = l BY <3>4
    <3> HIDE DEF u, v
    <3> QED BY <1>0, <3>1, <3>3, <3>5 DEF NamesUnique
  <2> QED BY <2>1, <2>2
<1>10. x \in Partition /\ x.name = a.name /\ (Within(x) \/ (Wraps(x) /\ Large(a)))
  <2> DEFINE p == left[m]
  <2>1. p \in Partition BY <1>6
  <2>2. End(p) \in Bytes
    <3> HIDE DEF p
    <3>1. p.offset \in Int /\ p.size \in Int BY <2>1, TableAssumption DEF Partition, Bytes
    <3> QED BY <3>1, Wrapping DEF End
  <2> HIDE DEF p
  <2> QED BY <2>2, NewPart DEF p
<1> HIDE DEF x
<1>11. /\ t \in Seq(Partition) /\ Len(t) = m + 1 /\ t[m + 1] = x /\ DOMAIN t = 1 .. m + 1
       /\ \A k \in 1 .. m : t[k] = left[k]
  BY <1>6, <1>10
<1>12. Touched(s, t)
  <2>1. Touched(left, t) /\ Without(t, m + 1) = left BY <1>6, <1>10, AppendTouches
  <2>2. CASE there = {} BY <1>4, <2>1, <2>2
  <2>3. CASE there # {}
    <3>1. d \in 0 .. n /\ Without(s, d) = left
      <4>1. d \in 1 .. n /\ left = Deleted(s, d) BY <1>5, <2>3
      <4> HIDE DEF n
      <4> QED BY <1>0, <4>1 DEF Without
    <3>2. m + 1 \in 0 .. Len(t) BY <1>6, <1>11
    <3> HIDE DEF t, m
    <3> QED BY <2>1, <3>1, <3>2 DEF Touched
  <2> QED BY <2>2, <2>3
<1> HIDE DEF t, n, m
<1>13. \A k \in 1 .. m + 1 : k \in 1 .. m \/ k = m + 1 BY <1>6
<1>14. Len(t) \in 2 .. MaxParts BY <1>0, <1>2, <1>6, <1>11 DEF m
<1>15. NamesUnique(t)
  <2> SUFFICES ASSUME NEW k \in 1 .. m + 1, NEW l \in 1 .. m + 1, t[k].name = t[l].name
               PROVE  k = l
    BY <1>11 DEF NamesUnique
  <2> QED BY <1>7, <1>9, <1>10, <1>11, <1>13
<1>16. \A k \in 1 .. Len(t) :
         \/ t[k].name # a.name /\ \E j \in 1 .. n : t[k] = s[j]
         \/ t[k].name = a.name /\ (Within(t[k]) \/ (Wraps(t[k]) /\ Large(a)))
  BY <1>7, <1>10, <1>11, <1>13
<1>17. \A j \in 1 .. n : s[j].name # a.name => \E k \in 1 .. Len(t) : t[k] = s[j]
  <2>1. \A k \in 1 .. m : k \in 1 .. m + 1 BY <1>6
  <2> QED BY <1>8, <1>11, <2>1
<1> QED BY <1>2, <1>11, <1>12, <1>14, <1>15, <1>16, <1>17 DEF n

(***************************************************************************)
(* The loops                                                               *)
(***************************************************************************)
(* The loop that collects the partitions at chosen places can be run.      *)
LEMMA PickedLoop ==
  ASSUME NEW T, NEW s \in Seq(T), NEW chosen
  PROVE  \E f \in [0 .. Len(s) -> Seq(T)] :
           /\ Picked(s, chosen) = f[Len(s)]
           /\ f[0] = <<>>
           /\ \A h \in 1 .. Len(s) :
                f[h] = IF h \in chosen THEN Append(f[h - 1], s[h]) ELSE f[h - 1]
<1> DEFINE n == Len(s)
           S == Seq(T)
           base == <<>>
           New(x, h) == IF h \in chosen THEN Append(x, s[h]) ELSE x
           round == [x \in (1 .. n) \X S |-> New(x[2], x[1])]
           Is(f) == f = [h \in 0 .. n |-> IF h = 0 THEN base ELSE New(f[h - 1], h)]
           loop == CHOOSE f : Is(f)
<1>1. n \in Nat OBVIOUS
<1>2. base \in S OBVIOUS
<1>3. ASSUME NEW h \in 1 .. n, NEW x \in S PROVE New(x, h) \in S
  <2>1. s[h] \in T OBVIOUS
  <2> QED BY <2>1
<1>4. Picked(s, chosen) = loop[n] BY DEF Picked
<1> HIDE DEF n, New, base
<1>5. round \in [(1 .. n) \X S -> S] BY <1>3
<1>6. \A h \in 1 .. n, x \in S : round[<<h, x>>] = New(x, h) OBVIOUS
<1> HIDE DEF round, S
<1>7. PICK f \in [0 .. n -> S] : Recurses(f, n, base, round) BY <1>1, <1>2, <1>5, Recursion
<1>8. Is(f)
  <2>1. ASSUME NEW h \in 0 .. n PROVE f[h] = IF h = 0 THEN base ELSE New(f[h - 1], h)
    <3>1. CASE h = 0 BY <1>7, <3>1 DEF Recurses
    <3>2. CASE h # 0
      <4>1. h \in 1 .. n /\ h - 1 \in 0 .. n BY <1>1, <3>2
      <4>2. f[h] = round[<<h, f[h - 1]>>] BY <1>7, <4>1 DEF Recurses
      <4> QED BY <1>6, <3>2, <4>1, <4>2
    <3> QED BY <3>1, <3>2
  <2> QED BY <2>1
<1>9. Is(loop)
  <2> HIDE DEF Is
  <2> QED BY <1>8
<1> HIDE DEF loop
<1>10. loop[0] = base /\ \A h \in 1 .. n : loop[h] = New(loop[h - 1], h) BY <1>1, <1>9
<1>11. loop \in [0 .. n -> S]
  <2>1. loop = [h \in 0 .. n |-> loop[h]] BY <1>9
  <2>2. \A h \in 1 .. n : loop[h - 1] \in S => loop[h] \in S BY <1>3, <1>10
  <2> HIDE DEF Is
  <2> QED BY <1>1, <1>2, <1>10, <2>1, <2>2, LoopStays
<1> QED BY <1>4, <1>10, <1>11 DEF n, New, base, S

(* The loop that lays partitions end to end can be run.                    *)
LEMMA ChainedLoop ==
  ASSUME NEW s \in Seq(Partition), NEW o \in Bytes
  PROVE  \E f \in [0 .. Len(s) -> [at : Bytes, parts : Seq(Partition)]] :
           /\ Chained(s, o) = f[Len(s)].parts
           /\ f[0] = [at |-> o, parts |-> <<>>]
           /\ \A h \in 1 .. Len(s) :
                f[h] = [at |-> Add(f[h - 1].at, s[h].size),
                        parts |-> Append(f[h - 1].parts, [s[h] EXCEPT !.offset = f[h - 1].at])]
<1> DEFINE n == Len(s)
           S == [at : Bytes, parts : Seq(Partition)]
           base == [at |-> o, parts |-> <<>>]
           New(x, h) == [at |-> Add(x.at, s[h].size),
                        parts |-> Append(x.parts, [s[h] EXCEPT !.offset = x.at])]
           round == [x \in (1 .. n) \X S |-> New(x[2], x[1])]
           Is(f) == f = [h \in 0 .. n |-> IF h = 0 THEN base ELSE New(f[h - 1], h)]
           loop == CHOOSE f : Is(f)
<1>1. n \in Nat OBVIOUS
<1>2. base \in S OBVIOUS
<1>3. ASSUME NEW h \in 1 .. n, NEW x \in S PROVE New(x, h) \in S
  <2>1. s[h] \in Partition /\ x.at \in Bytes /\ x.parts \in Seq(Partition) OBVIOUS
  <2>2. Add(x.at, s[h].size) \in Bytes
    <3>1. Word - 1 \in Int BY TableAssumption
    <3>2. s[h].size \in Bytes BY <2>1 DEF Partition
    <3>3. x.at \in Int /\ s[h].size \in Int BY <2>1, <3>1, <3>2 DEF Bytes
    <3> QED BY <3>3, Wrapping
  <2>3. [s[h] EXCEPT !.offset = x.at] \in Partition BY <2>1 DEF Partition
  <2>4. Append(x.parts, [s[h] EXCEPT !.offset = x.at]) \in Seq(Partition) BY <2>1, <2>3
  <2> QED BY <2>2, <2>4
<1>4. Chained(s, o) = loop[n].parts BY DEF Chained
<1> HIDE DEF n, New, base
<1>5. round \in [(1 .. n) \X S -> S] BY <1>3
<1>6. \A h \in 1 .. n, x \in S : round[<<h, x>>] = New(x, h) OBVIOUS
<1> HIDE DEF round, S
<1>7. PICK f \in [0 .. n -> S] : Recurses(f, n, base, round) BY <1>1, <1>2, <1>5, Recursion
<1>8. Is(f)
  <2>1. ASSUME NEW h \in 0 .. n PROVE f[h] = IF h = 0 THEN base ELSE New(f[h - 1], h)
    <3>1. CASE h = 0 BY <1>7, <3>1 DEF Recurses
    <3>2. CASE h # 0
      <4>1. h \in 1 .. n /\ h - 1 \in 0 .. n BY <1>1, <3>2
      <4>2. f[h] = round[<<h, f[h - 1]>>] BY <1>7, <4>1 DEF Recurses
      <4> QED BY <1>6, <3>2, <4>1, <4>2
    <3> QED BY <3>1, <3>2
  <2> QED BY <2>1
<1>9. Is(loop)
  <2> HIDE DEF Is
  <2> QED BY <1>8
<1> HIDE DEF loop
<1>10. loop[0] = base /\ \A h \in 1 .. n : loop[h] = New(loop[h - 1], h) BY <1>1, <1>9
<1>11. loop \in [0 .. n -> S]
  <2>1. loop = [h \in 0 .. n |-> loop[h]] BY <1>9
  <2>2. \A h \in 1 .. n : loop[h - 1] \in S => loop[h] \in S BY <1>3, <1>10
  <2> HIDE DEF Is
  <2> QED BY <1>1, <1>2, <1>10, <2>1, <2>2, LoopStays
<1> QED BY <1>4, <1>10, <1>11 DEF n, New, base, S

(***************************************************************************)
(* Picking from a list: each chosen place once, in order                   *)
(***************************************************************************)
(* f takes the places of the new list u to the places of s that they were  *)
(* picked from.                                                            *)
Picks(f, u, s, n, chosen) ==
  /\ f \in [1 .. Len(u) -> 1 .. n]
  /\ \A k \in 1 .. Len(u) : u[k] = s[f[k]] /\ f[k] \in chosen
  /\ \A k, l \in 1 .. Len(u) : k < l => f[k] < f[l]
  /\ \A j \in 1 .. n : j \in chosen => \E k \in 1 .. Len(u) : f[k] = j

(* Picked returns the members at the chosen places.                        *)
LEMMA PickedIs ==
  ASSUME NEW T, NEW s \in Seq(T), NEW chosen
  PROVE  /\ Picked(s, chosen) \in Seq(T)
         /\ \E f : Picks(f, Picked(s, chosen), s, Len(s), chosen)
<1> DEFINE n == Len(s)
<1>0. n \in Nat OBVIOUS
<1>1. PICK pick \in [0 .. n -> Seq(T)] :
           /\ Picked(s, chosen) = pick[n]
           /\ pick[0] = <<>>
           /\ \A h \in 1 .. n :
                pick[h] = IF h \in chosen THEN Append(pick[h - 1], s[h]) ELSE pick[h - 1]
  BY PickedLoop
<1> DEFINE Made(h) == \E f : Picks(f, pick[h], s, h, chosen)
           H == {h \in 0 .. n : Made(h)}
<1>2. Made(0)
  <2> DEFINE f == [k \in 1 .. 0 |-> k]
  <2>1. f \in [1 .. 0 -> 1 .. 0] /\ 1 .. 0 = {} /\ Len(pick[0]) = 0 BY <1>1
  <2> HIDE DEF f
  <2>2. Picks(f, pick[0], s, 0, chosen) BY <2>1 DEF Picks
  <2> QED BY <2>2
<1>3. ASSUME NEW h \in 1 .. n, Made(h - 1) PROVE Made(h)
  <2>1. PICK f : Picks(f, pick[h - 1], s, h - 1, chosen) BY <1>3
  <2> DEFINE u == pick[h - 1]
             m == Len(u)
  <2>2. u \in Seq(T) /\ m \in Nat /\ s[h] \in T /\ h \in Nat
    <3>1. h - 1 \in 0 .. n BY <1>0
    <3>2. u \in Seq(T) BY <1>1, <3>1
    <3> QED BY <3>2
  <2>3. /\ f \in [1 .. m -> 1 .. h - 1]
        /\ \A k \in 1 .. m : u[k] = s[f[k]] /\ f[k] \in chosen
        /\ \A k, l \in 1 .. m : k < l => f[k] < f[l]
        /\ \A j \in 1 .. h - 1 : j \in chosen => \E k \in 1 .. m : f[k] = j
    BY <2>1 DEF Picks
  <2>4. CASE h \notin chosen
    <3>1. pick[h] = u BY <1>1, <2>4
    <3> HIDE DEF u
    <3>2. 1 .. h - 1 \subseteq 1 .. h /\ \A j \in 1 .. h : j \in chosen => j \in 1 .. h - 1
      BY <2>2, <2>4
    <3>3. f \in [1 .. m -> 1 .. h] BY <2>3, <3>2
    <3>4. Picks(f, u, s, h, chosen) BY <2>3, <3>2, <3>3 DEF Picks
    <3> QED BY <3>1, <3>4
  <2>5. CASE h \in chosen
    <3> DEFINE v == Append(u, s[h])
               g == [k \in 1 .. m + 1 |-> IF k = m + 1 THEN h ELSE f[k]]
    <3>1. pick[h] = v BY <1>1, <2>5
    <3> HIDE DEF u
    <3>2. Len(v) = m + 1 /\ v[m + 1] = s[h] /\ \A k \in 1 .. m : v[k] = u[k] BY <2>2
    <3> HIDE DEF v, m
    <3>3. g[m + 1] = h /\ \A k \in 1 .. m : g[k] = f[k] BY <2>2
    <3>4. \A k \in 1 .. m + 1 : k \in 1 .. m \/ k = m + 1 BY <2>2
    <3>5. g \in [1 .. m + 1 -> 1 .. h]
      <4>1. \A k \in 1 .. m : f[k] \in 1 .. h BY <2>2, <2>3
      <4> QED BY <2>2, <3>4, <4>1
    <3> HIDE DEF g
    <3>6. \A k \in 1 .. m + 1 : v[k] = s[g[k]] /\ g[k] \in chosen
      BY <2>3, <2>5, <3>2, <3>3, <3>4
    <3>7. ASSUME NEW k \in 1 .. m + 1, NEW l \in 1 .. m + 1, k < l PROVE g[k] < g[l]
      <4>1. k \in 1 .. m BY <2>2, <3>7
      <4>2. f[k] \in 1 .. h - 1 /\ g[k] = f[k] BY <2>3, <3>3, <4>1
      <4>3. CASE l = m + 1 BY <2>2, <3>3, <4>2, <4>3
      <4>4. CASE l \in 1 .. m
        <5>1. g[l] = f[l] BY <3>3, <4>4
        <5> QED BY <2>3, <3>7, <4>1, <4>2, <4>4, <5>1
      <4> QED BY <3>4, <4>3, <4>4
    <3>8. ASSUME NEW j \in 1 .. h, j \in chosen PROVE \E k \in 1 .. m + 1 : g[k] = j
      <4>1. j \in 1 .. h - 1 \/ j = h BY <2>2
      <4>2. 1 .. m \subseteq 1 .. m + 1 /\ m + 1 \in 1 .. m + 1 BY <2>2
      <4> QED BY <2>3, <3>3, <3>8, <4>1, <4>2
    <3>9. Picks(g, v, s, h, chosen) BY <3>2, <3>5, <3>6, <3>7, <3>8 DEF Picks
    <3> QED BY <3>1, <3>9
  <2> QED BY <2>4, <2>5
<1>4. Made(n)
  <2> HIDE DEF Made
  <2>1. 0 \in H BY <1>0, <1>2
  <2>2. \A h \in 1 .. n : h - 1 \in H => h \in H BY <1>3
  <2> HIDE DEF H, n
  <2>3. \A h \in 0 .. n : h \in H BY <1>0, <2>1, <2>2, Induction
  <2>4. n \in H BY <1>0, <2>3
  <2> QED BY <2>4 DEF H
<1>5. pick[n] \in Seq(T)
  <2>1. n \in 0 .. n BY <1>0
  <2> HIDE DEF n
  <2> QED BY <1>1, <2>1
<1> QED BY <1>1, <1>4, <1>5

(* What is chosen and what is not add up to the list.                      *)
LEMMA PickedSplits ==
  ASSUME NEW T, NEW s \in Seq(T), NEW C, NEW D,
         \A j \in 1 .. Len(s) : j \in C <=> j \notin D
  PROVE  Len(Picked(s, C)) + Len(Picked(s, D)) = Len(s)
<1> DEFINE n == Len(s)
<1>0. n \in Nat OBVIOUS
<1>1. PICK p \in [0 .. n -> Seq(T)] :
           /\ Picked(s, C) = p[n]
           /\ p[0] = <<>>
           /\ \A h \in 1 .. n : p[h] = IF h \in C THEN Append(p[h - 1], s[h]) ELSE p[h - 1]
  BY PickedLoop
<1>2. PICK q \in [0 .. n -> Seq(T)] :
           /\ Picked(s, D) = q[n]
           /\ q[0] = <<>>
           /\ \A h \in 1 .. n : q[h] = IF h \in D THEN Append(q[h - 1], s[h]) ELSE q[h - 1]
  BY PickedLoop
<1> DEFINE H == {h \in 0 .. n : Len(p[h]) + Len(q[h]) = h}
<1>3. 0 \in H
  <2>1. Len(p[0]) = 0 /\ Len(q[0]) = 0 BY <1>1, <1>2
  <2> QED BY <1>0, <2>1
<1>4. ASSUME NEW h \in 1 .. n, h - 1 \in H PROVE h \in H
  <2>1. h - 1 \in 0 .. n /\ h \in 0 .. n BY <1>0
  <2>2. p[h - 1] \in Seq(T) /\ q[h - 1] \in Seq(T) /\ s[h] \in T
    <3>1. s[h] \in T OBVIOUS
    <3> HIDE DEF n
    <3> QED BY <1>1, <1>2, <2>1, <3>1
  <2>3. /\ Len(p[h - 1]) \in Nat /\ Len(q[h - 1]) \in Nat
        /\ Len(Append(p[h - 1], s[h])) = Len(p[h - 1]) + 1
        /\ Len(Append(q[h - 1], s[h])) = Len(q[h - 1]) + 1
    BY <2>2
  <2>4. Len(p[h - 1]) + Len(q[h - 1]) = h - 1 BY <1>4
  <2>5. Len(p[h]) + Len(q[h]) = h
    <3>1. CASE h \in C
      <4>1. Len(p[h]) = Len(p[h - 1]) + 1 /\ Len(q[h]) = Len(q[h - 1]) BY <1>1, <1>2, <2>3, <3>1
      <4> QED BY <2>3, <2>4, <4>1
    <3>2. CASE h \notin C
      <4>1. Len(q[h]) = Len(q[h - 1]) + 1 /\ Len(p[h]) = Len(p[h - 1]) BY <1>1, <1>2, <2>3, <3>2
      <4> QED BY <2>3, <2>4, <4>1
    <3> QED BY <3>1, <3>2
  <2> QED BY <2>1, <2>5
<1> HIDE DEF H, n
<1>5. \A h \in 0 .. n : h \in H BY <1>0, <1>3, <1>4, Induction
<1>6. n \in H BY <1>0, <1>5
<1> QED BY <1>1, <1>2, <1>6 DEF H, n

(* All but the first two are two less.                                     *)
LEMMA PickedTail ==
  ASSUME NEW T, NEW s \in Seq(T), Len(s) >= 2
  PROVE  Len(Picked(s, DOMAIN s \ {1, 2})) = Len(s) - 2
<1> DEFINE n == Len(s)
           C == DOMAIN s \ {1, 2}
<1>0. n \in Nat /\ n >= 2 /\ \A h \in 1 .. n : h \in C <=> h > 2 OBVIOUS
<1> HIDE DEF C
<1>1. PICK p \in [0 .. n -> Seq(T)] :
           /\ Picked(s, C) = p[n]
           /\ p[0] = <<>>
           /\ \A h \in 1 .. n : p[h] = IF h \in C THEN Append(p[h - 1], s[h]) ELSE p[h - 1]
  BY PickedLoop
<1> DEFINE H == {h \in 0 .. n : Len(p[h]) = IF h > 2 THEN h - 2 ELSE 0}
<1>2. 0 \in H
  <2>1. Len(p[0]) = 0 BY <1>1
  <2> QED BY <1>0, <2>1
<1>3. ASSUME NEW h \in 1 .. n, h - 1 \in H PROVE h \in H
  <2>1. h - 1 \in 0 .. n /\ h \in 0 .. n BY <1>0
  <2>2. p[h - 1] \in Seq(T) /\ s[h] \in T BY <2>1
  <2>3. Len(p[h - 1]) \in Nat /\ Len(Append(p[h - 1], s[h])) = Len(p[h - 1]) + 1 BY <2>2
  <2>4. Len(p[h - 1]) = IF h - 1 > 2 THEN (h - 1) - 2 ELSE 0 BY <1>3
  <2>5. Len(p[h]) = IF h > 2 THEN h - 2 ELSE 0
    <3>1. CASE h > 2
      <4>1. Len(p[h]) = Len(p[h - 1]) + 1 BY <1>0, <1>1, <2>3, <3>1
      <4>2. Len(p[h - 1]) = h - 3 BY <2>1, <2>4, <3>1
      <4> QED BY <3>1, <4>1, <4>2
    <3>2. CASE ~(h > 2)
      <4>1. Len(p[h]) = Len(p[h - 1]) BY <1>0, <1>1, <3>2
      <4> QED BY <2>1, <2>4, <3>2, <4>1
    <3> QED BY <3>1, <3>2
  <2> QED BY <2>1, <2>5
<1> HIDE DEF H, n
<1>4. \A h \in 0 .. n : h \in H BY <1>0, <1>2, <1>3, Induction
<1>5. n \in H BY <1>0, <1>4
<1>6. Len(p[n]) = IF n > 2 THEN n - 2 ELSE 0 BY <1>5 DEF H
<1>7. Len(Picked(s, C)) = n - 2 BY <1>0, <1>1, <1>6
<1> QED BY <1>7 DEF C, n

(***************************************************************************)
(* Laying end to end                                                       *)
(***************************************************************************)
(* Only the offsets change: the first is given, each of the others is the  *)
(* end of the one before.                                                  *)
Chains(t, s, o) ==
  /\ t \in Seq(Partition) /\ Len(t) = Len(s)
  /\ \A k \in 1 .. Len(s) :
       /\ t[k].name = s[k].name /\ t[k].size = s[k].size /\ t[k].mask = s[k].mask
       /\ t[k].offset = IF k = 1 THEN o ELSE End(t[k - 1])

(* Chained lays them end to end.                                           *)
LEMMA ChainedIs ==
  ASSUME NEW s \in Seq(Partition), NEW o \in Bytes
  PROVE  Chains(Chained(s, o), s, o)
<1> DEFINE n == Len(s)
           S == [at : Bytes, parts : Seq(Partition)]
<1>0. n \in Nat OBVIOUS
<1>1. PICK f \in [0 .. n -> S] :
           /\ Chained(s, o) = f[n].parts
           /\ f[0] = [at |-> o, parts |-> <<>>]
           /\ \A h \in 1 .. n :
                f[h] = [at |-> Add(f[h - 1].at, s[h].size),
                        parts |-> Append(f[h - 1].parts, [s[h] EXCEPT !.offset = f[h - 1].at])]
  BY ChainedLoop
<1> DEFINE Good(h) ==
             LET t == f[h].parts
             IN /\ Len(t) = h
                /\ \A k \in 1 .. h :
                     /\ t[k].name = s[k].name /\ t[k].size = s[k].size /\ t[k].mask = s[k].mask
                     /\ t[k].offset = IF k = 1 THEN o ELSE End(t[k - 1])
                /\ f[h].at = IF h = 0 THEN o ELSE End(t[h])
           H == {h \in 0 .. n : Good(h)}
<1>2. Good(0)
  <2>1. f[0].parts = <<>> /\ f[0].at = o /\ 1 .. 0 = {} BY <1>1
  <2>2. Len(f[0].parts) = 0 BY <2>1
  <2> QED BY <2>1, <2>2
<1>3. ASSUME NEW h \in 1 .. n, Good(h - 1) PROVE Good(h)
  <2> DEFINE t == f[h - 1].parts
             at == f[h - 1].at
             p == [s[h] EXCEPT !.offset = at]
             u == Append(t, p)
  <2>1. f[h - 1] \in S /\ h \in Nat
    <3>1. h - 1 \in 0 .. n BY <1>0
    <3> HIDE DEF n, S
    <3> QED BY <1>0, <1>1, <3>1
  <2>2. t \in Seq(Partition) /\ at \in Bytes BY <2>1
  <2>3. f[h].parts = u /\ f[h].at = Add(at, s[h].size)
    <3>1. f[h] = [at |-> Add(at, s[h].size), parts |-> u] BY <1>1
    <3> HIDE DEF u, at
    <3> QED BY <3>1
  <2>4. s[h] \in Partition OBVIOUS
  <2>5. /\ Len(t) = h - 1
        /\ \A k \in 1 .. h - 1 :
             /\ t[k].name = s[k].name /\ t[k].size = s[k].size /\ t[k].mask = s[k].mask
             /\ t[k].offset = IF k = 1 THEN o ELSE End(t[k - 1])
        /\ at = IF h - 1 = 0 THEN o ELSE End(t[h - 1])
    BY <1>3
  <2> HIDE DEF t, at, Good
  <2>6. /\ p.name = s[h].name /\ p.size = s[h].size /\ p.mask = s[h].mask /\ p.offset = at
        /\ p \in Partition
    BY <2>2, <2>4 DEF Partition
  <2> HIDE DEF p
  <2>7. /\ Len(u) = h /\ u[h] = p /\ \A k \in 1 .. h - 1 : u[k] = t[k]
    BY <2>1, <2>2, <2>5, <2>6
  <2> HIDE DEF u
  <2>8. ASSUME NEW k \in 1 .. h
        PROVE  /\ u[k].name = s[k].name /\ u[k].size = s[k].size /\ u[k].mask = s[k].mask
               /\ u[k].offset = IF k = 1 THEN o ELSE End(u[k - 1])
    <3>1. k \in 1 .. h - 1 \/ k = h BY <2>1
    <3>2. CASE k \in 1 .. h - 1
      <4>1. k # 1 => k - 1 \in 1 .. h - 1 BY <2>1, <3>2
      <4> QED BY <2>5, <2>7, <3>2, <4>1
    <3>3. CASE k = h
      <4>1. k # 1 => k - 1 \in 1 .. h - 1 /\ ~(h - 1 = 0) BY <2>1, <3>3
      <4>2. k = 1 => h - 1 = 0 BY <3>3
      <4> QED BY <2>5, <2>6, <2>7, <3>3, <4>1, <4>2
    <3> QED BY <3>1, <3>2, <3>3
  <2>9. Add(at, s[h].size) = End(u[h]) /\ h # 0 BY <2>1, <2>6, <2>7 DEF End
  <2> QED BY <2>3, <2>7, <2>8, <2>9 DEF Good
<1>4. Good(n)
  <2> HIDE DEF Good
  <2>1. 0 \in H BY <1>0, <1>2
  <2>2. \A h \in 1 .. n : h - 1 \in H => h \in H BY <1>3
  <2> HIDE DEF H, n
  <2>3. \A h \in 0 .. n : h \in H BY <1>0, <2>1, <2>2, Induction
  <2>4. n \in H BY <1>0, <2>3
  <2> QED BY <2>4 DEF H
<1>5. f[n].parts \in Seq(Partition)
  <2>1. n \in 0 .. n BY <1>0
  <2>2. f[n] \in S
    <3> HIDE DEF n, S
    <3> QED BY <1>1, <2>1
  <2> HIDE DEF n
  <2> QED BY <2>2
<1> HIDE DEF n
<1>6. Chains(f[n].parts, s, o) BY <1>4, <1>5 DEF Chains, n
<1> QED BY <1>1, <1>6

(***************************************************************************)
(* Sorting by size                                                         *)
(***************************************************************************)
(* The rounds of the two nested loops, numbered from 1.                    *)
Outer(k, n) == ((k - 1) \div n) + 1
Inner(k, n) == ((k - 1) % n) + 1

(* The numbers of a round's two indices are those of the list.             *)
LEMMA Rounds ==
  ASSUME NEW n \in Nat, NEW k \in 1 .. n * n
  PROVE  /\ Outer(k, n) \in 1 .. n /\ Inner(k, n) \in 1 .. n
         /\ (Outer(k, n) - 1) * n + Inner(k, n) = k
<1> DEFINE q == (k - 1) \div n
           r == (k - 1) % n
<1>1. n \in Nat \ {0} /\ n * n \in Nat
  <2>1. n * n \in Nat OBVIOUS
  <2>2. n # 0
    <3>1. ASSUME n = 0 PROVE FALSE
      <4>1. n * n = 0 BY <3>1
      <4> QED BY <4>1
    <3> QED BY <3>1
  <2> QED BY <2>1, <2>2
<1>2. k - 1 \in Nat /\ k - 1 < n * n BY <1>1
<1>3. q \in Nat /\ r \in 0 .. n - 1 /\ k - 1 = n * q + r BY <1>1, <1>2
<1> HIDE DEF q, r
<1>4. q < n
  <2> SUFFICES ASSUME q >= n PROVE FALSE BY <1>1, <1>3
  <2>1. n * q >= n * n BY <1>1, <1>3
  <2>2. n * q \in Nat BY <1>1, <1>3
  <2> QED BY <1>1, <1>2, <1>3, <2>1, <2>2
<1>5. (q + 1 - 1) * n = n * q
  <2>1. q + 1 - 1 = q BY <1>3
  <2> QED BY <1>1, <1>3, <2>1
<1>6. n * q \in Nat BY <1>1, <1>3
<1> QED BY <1>1, <1>3, <1>4, <1>5, <1>6 DEF Outer, Inner, q, r

(* A pair of a later round of the outer loop is a later round.             *)
LEMMA RoundsOrdered ==
  ASSUME NEW n \in Nat, NEW a \in 1 .. n, NEW c \in 1 .. n, a < c
  PROVE  (a - 1) * n + n <= (c - 1) * n /\ (a - 1) * n \in Nat /\ (c - 1) * n \in Nat
<1>1. a - 1 \in Nat /\ c - 1 \in Nat /\ a <= c - 1 OBVIOUS
<1>2. (a - 1) * n + n = a * n OBVIOUS
<1>3. a * n <= (c - 1) * n BY <1>1
<1>4. (a - 1) * n \in Nat /\ (c - 1) * n \in Nat BY <1>1
<1> QED BY <1>2, <1>3, <1>4

(* The loops that sort can be run.                                         *)
LEMMA SortLoop ==
  ASSUME NEW s \in Seq(Partition)
  PROVE  \E f \in [0 .. Len(s) * Len(s) -> [1 .. Len(s) -> Partition]] :
           /\ SortedDown(s) = f[Len(s) * Len(s)]
           /\ f[0] = s
           /\ \A h \in 1 .. Len(s) * Len(s) :
                f[h] = 
                  IF Outer(h, Len(s)) < Inner(h, Len(s))
                     /\ f[h - 1][Outer(h, Len(s))].size < f[h - 1][Inner(h, Len(s))].size
                    THEN [f[h - 1] EXCEPT ![Outer(h, Len(s))] = f[h - 1][Inner(h, Len(s))],
                                     ![Inner(h, Len(s))] = f[h - 1][Outer(h, Len(s))]]
                    ELSE f[h - 1]
<1> DEFINE n == Len(s) * Len(s)
           S == [1 .. Len(s) -> Partition]
           base == s
           New(x, h) == 
                  IF Outer(h, Len(s)) < Inner(h, Len(s))
                     /\ x[Outer(h, Len(s))].size < x[Inner(h, Len(s))].size
                    THEN [x EXCEPT ![Outer(h, Len(s))] = x[Inner(h, Len(s))],
                                     ![Inner(h, Len(s))] = x[Outer(h, Len(s))]]
                    ELSE x
           round == [x \in (1 .. n) \X S |-> New(x[2], x[1])]
           Is(f) == f = [h \in 0 .. n |-> IF h = 0 THEN base ELSE New(f[h - 1], h)]
           loop == CHOOSE f : Is(f)
<1>1. n \in Nat
  <2>1. Len(s) \in Nat OBVIOUS
  <2> QED BY <2>1
<1>2. base \in S OBVIOUS
<1>3. ASSUME NEW h \in 1 .. n, NEW x \in S PROVE New(x, h) \in S
  <2> DEFINE a == Outer(h, Len(s))
             b == Inner(h, Len(s))
             m == Len(s)
  <2>1. m \in Nat OBVIOUS
  <2>2. a \in 1 .. m /\ b \in 1 .. m BY <2>1, Rounds
  <2>3. New(x, h) = IF a < b /\ x[a].size < x[b].size
                      THEN [x EXCEPT ![a] = x[b], ![b] = x[a]] ELSE x
    OBVIOUS
  <2> HIDE DEF a, b, m, New
  <2>4. x \in [1 .. m -> Partition] BY DEF m
  <2>5. New(x, h) \in [1 .. m -> Partition] BY <2>2, <2>3, <2>4
  <2> QED BY <2>5 DEF m
<1>4. SortedDown(s) = loop[n] BY DEF SortedDown, Outer, Inner
<1> HIDE DEF n, New, base
<1>5. round \in [(1 .. n) \X S -> S] BY <1>3
<1>6. \A h \in 1 .. n, x \in S : round[<<h, x>>] = New(x, h) OBVIOUS
<1> HIDE DEF round, S
<1>7. PICK f \in [0 .. n -> S] : Recurses(f, n, base, round) BY <1>1, <1>2, <1>5, Recursion
<1>8. Is(f)
  <2>1. ASSUME NEW h \in 0 .. n PROVE f[h] = IF h = 0 THEN base ELSE New(f[h - 1], h)
    <3>1. CASE h = 0 BY <1>7, <3>1 DEF Recurses
    <3>2. CASE h # 0
      <4>1. h \in 1 .. n /\ h - 1 \in 0 .. n BY <1>1, <3>2
      <4>2. f[h] = round[<<h, f[h - 1]>>] BY <1>7, <4>1 DEF Recurses
      <4> QED BY <1>6, <3>2, <4>1, <4>2
    <3> QED BY <3>1, <3>2
  <2> QED BY <2>1
<1>9. Is(loop)
  <2> HIDE DEF Is
  <2> QED BY <1>8
<1> HIDE DEF loop
<1>10. loop[0] = base /\ \A h \in 1 .. n : loop[h] = New(loop[h - 1], h) BY <1>1, <1>9
<1>11. loop \in [0 .. n -> S]
  <2>1. loop = [h \in 0 .. n |-> loop[h]] BY <1>9
  <2>2. \A h \in 1 .. n : loop[h - 1] \in S => loop[h] \in S BY <1>3, <1>10
  <2> HIDE DEF Is
  <2> QED BY <1>1, <1>2, <1>10, <2>1, <2>2, LoopStays
<1> QED BY <1>4, <1>10, <1>11 DEF n, New, base, S

(* The larger partitions come first, and no partition is lost, doubled or  *)
(* changed.                                                                *)
LEMMA SortedIs ==
  ASSUME NEW s \in Seq(Partition)
  PROVE  LET t == SortedDown(s)
         IN /\ t \in Seq(Partition) /\ Len(t) = Len(s)
            /\ \A k \in 1 .. Len(s) : \E j \in 1 .. Len(s) : t[k] = s[j]
            /\ \A j \in 1 .. Len(s) : \E k \in 1 .. Len(s) : t[k] = s[j]
            /\ NamesUnique(s) => NamesUnique(t)
            /\ \A k, l \in 1 .. Len(s) : k < l => t[k].size >= t[l].size
<1> DEFINE n == Len(s)
           N == n * n
           S == [1 .. n -> Partition]
<1>0. n \in Nat OBVIOUS
<1>1. PICK f \in [0 .. N -> S] :
           /\ SortedDown(s) = f[N]
           /\ f[0] = s
           /\ \A h \in 1 .. N :
                f[h] = IF Outer(h, n) < Inner(h, n)
                          /\ f[h - 1][Outer(h, n)].size < f[h - 1][Inner(h, n)].size
                         THEN [f[h - 1] EXCEPT ![Outer(h, n)] = f[h - 1][Inner(h, n)],
                                               ![Inner(h, n)] = f[h - 1][Outer(h, n)]]
                         ELSE f[h - 1]
  BY SortLoop
<1> DEFINE Good(h) ==
             LET t == f[h]
             IN /\ \A k \in 1 .. n : \E j \in 1 .. n : t[k] = s[j]
                /\ \A j \in 1 .. n : \E k \in 1 .. n : t[k] = s[j]
                /\ NamesUnique(s) => \A k, l \in 1 .. n : t[k].name = t[l].name => k = l
                /\ \A k, l \in 1 .. n : k < l /\ (k - 1) * n + l <= h => t[k].size >= t[l].size
           H == {h \in 0 .. N : Good(h)}
<1>2. N \in Nat
  <2> HIDE DEF n
  <2> QED BY <1>0
<1>3. \A k, l \in 1 .. n : k < l => (k - 1) * n + n <= (l - 1) * n
                                /\ (k - 1) * n \in Nat /\ (l - 1) * n \in Nat
  BY <1>0, RoundsOrdered
<1>4. Good(0)
  <2>1. f[0] = s /\ DOMAIN s = 1 .. n BY <1>1
  <2>2. \A k, l \in 1 .. n : k < l /\ (k - 1) * n + l <= 0 => FALSE
    <3> HIDE DEF n
    <3>1. ASSUME NEW k \in 1 .. n, NEW l \in 1 .. n, k < l, (k - 1) * n + l <= 0 PROVE FALSE
      <4> DEFINE p == (k - 1) * n
      <4>1. p \in Nat /\ p + l <= 0 BY <1>3, <3>1
      <4> HIDE DEF p
      <4> QED BY <1>0, <4>1
    <3> QED BY <3>1
  <2> HIDE DEF n
  <2> QED BY <2>1, <2>2 DEF NamesUnique
<1>5. ASSUME NEW h \in 1 .. N, Good(h - 1) PROVE Good(h)
  <2> DEFINE a == Outer(h, n)
             b == Inner(h, n)
             x == f[h - 1]
             y == f[h]
  <2>1. a \in 1 .. n /\ b \in 1 .. n /\ (a - 1) * n + b = h BY <1>0, Rounds
  <2>2. y = IF a < b /\ x[a].size < x[b].size THEN [x EXCEPT ![a] = x[b], ![b] = x[a]] ELSE x
    BY <1>1
  <2>3. x \in S
    <3>1. h - 1 \in 0 .. N BY <1>2
    <3> HIDE DEF N, S
    <3> QED BY <1>1, <3>1
  <2>4. /\ \A k \in 1 .. n : \E j \in 1 .. n : x[k] = s[j]
        /\ \A j \in 1 .. n : \E k \in 1 .. n : x[k] = s[j]
        /\ NamesUnique(s) => \A k, l \in 1 .. n : x[k].name = x[l].name => k = l
        /\ \A k, l \in 1 .. n : k < l /\ (k - 1) * n + l <= h - 1 => x[k].size >= x[l].size
    BY <1>5
  <2>5. h \in Nat BY <1>2
  <2>6. \A k \in 1 .. n : x[k].size \in Nat
    <3> HIDE DEF n
    <3>1. \A k \in 1 .. n : x[k] \in Partition BY <2>3
    <3> QED BY <3>1, TableAssumption DEF Partition, Bytes
  <2> HIDE DEF Good, x, y, a, b, n, N
  <2>7. CASE ~(a < b /\ x[a].size < x[b].size)
    <3>1. y = x BY <2>2, <2>7
    <3>2. ASSUME NEW k \in 1 .. n, NEW l \in 1 .. n, k < l, (k - 1) * n + l <= h
          PROVE  x[k].size >= x[l].size
      <4>1. CASE (k - 1) * n + l <= h - 1 BY <2>4, <3>2, <4>1
      <4>2. CASE ~((k - 1) * n + l <= h - 1)
        <5>1. k = a /\ l = b
          <6> DEFINE u == (k - 1) * n
                     v == (a - 1) * n
          <6>1. u \in Nat /\ u + l = h /\ v + b = h
            <7>1. u \in Nat BY <1>3, <3>2
            <7> QED BY <1>0, <2>1, <2>5, <3>2, <4>2, <7>1
          <6>2. k < a => u + n <= v /\ v \in Nat BY <1>3, <2>1
          <6>3. a < k => v + n <= u /\ v \in Nat BY <1>3, <2>1
          <6> HIDE DEF u, v
          <6>4. ~(k < a) BY <1>0, <2>1, <2>5, <6>1, <6>2
          <6>5. ~(a < k) BY <1>0, <2>1, <2>5, <6>1, <6>3
          <6>6. k = a BY <1>0, <2>1, <6>4, <6>5
          <6>7. u = v BY <6>6 DEF u, v
          <6>8. l = b BY <1>0, <2>1, <6>1, <6>7
          <6> QED BY <6>6, <6>8
        <5> QED BY <2>1, <2>6, <2>7, <3>2, <5>1
      <4> QED BY <4>1, <4>2
    <3> QED BY <2>4, <3>1, <3>2 DEF Good, y
  <2>8. CASE a < b /\ x[a].size < x[b].size
    <3>1. y = [x EXCEPT ![a] = x[b], ![b] = x[a]] BY <2>2, <2>8
    <3>2. /\ y[a] = x[b] /\ y[b] = x[a] /\ a # b
          /\ \A k \in 1 .. n : k # a /\ k # b => y[k] = x[k]
      <4>1. a # b BY <1>0, <2>1, <2>8
      <4>2. DOMAIN x = 1 .. n BY <2>3
      <4> QED BY <2>1, <3>1, <4>1, <4>2
    <3>3. \A k \in 1 .. n : \E j \in 1 .. n : y[k] = s[j]
      <4> TAKE k \in 1 .. n
      <4>1. \E l \in 1 .. n : y[k] = x[l] BY <2>1, <3>2
      <4> QED BY <2>4, <4>1
    <3>4. \A j \in 1 .. n : \E k \in 1 .. n : y[k] = s[j]
      <4> TAKE j \in 1 .. n
      <4>1. PICK k \in 1 .. n : x[k] = s[j] BY <2>4
      <4> QED BY <2>1, <3>2, <4>1
    <3>5. NamesUnique(s) => \A k, l \in 1 .. n : y[k].name = y[l].name => k = l
      <4> SUFFICES ASSUME NamesUnique(s), NEW k \in 1 .. n, NEW l \in 1 .. n,
                          y[k].name = y[l].name
                   PROVE  k = l
        OBVIOUS
      <4> DEFINE Was(u) == IF u = a THEN b ELSE IF u = b THEN a ELSE u
      <4>1. \A u \in 1 .. n : Was(u) \in 1 .. n /\ y[u] = x[Was(u)] BY <2>1, <3>2
      <4>2. Was(k) = Was(l) => k = l BY <3>2
      <4> DEFINE u == Was(k)
                 v == Was(l)
      <4>3. u \in 1 .. n /\ v \in 1 .. n /\ x[u].name = x[v].name BY <4>1
      <4> HIDE DEF Was, u, v
      <4>4. u = v BY <2>4, <4>3
      <4> QED BY <4>2, <4>4 DEF u, v
    <3>6. ASSUME NEW k \in 1 .. n, NEW l \in 1 .. n, k < l, (k - 1) * n + l <= h
          PROVE  y[k].size >= y[l].size
      <4> DEFINE Before(u, v) == u < v /\ (u - 1) * n + v <= h - 1
      <4>1. \A u, v \in 1 .. n : Before(u, v) => x[u].size >= x[v].size BY <2>4
      <4>2. k <= a
        <5> SUFFICES ASSUME a < k PROVE FALSE BY <1>0, <2>1
        <5> DEFINE u == (k - 1) * n
                   v == (a - 1) * n
        <5>1. v + n <= u /\ v \in Nat /\ u \in Nat BY <1>3, <2>1
        <5>2. v + b = h /\ u + l <= h BY <2>1, <3>6
        <5> HIDE DEF u, v
        <5> QED BY <1>0, <2>1, <2>5, <5>1, <5>2
      <4>3. CASE k = a
        <5>1. l <= b
          <6> DEFINE v == (a - 1) * n
          <6>1. v \in Nat /\ v + b = h /\ v + l <= h BY <1>3, <2>1, <2>8, <3>6, <4>3
          <6> HIDE DEF v
          <6> QED BY <1>0, <2>1, <2>5, <6>1
        <5>2. CASE l = b BY <2>1, <2>6, <2>8, <3>2, <4>3, <5>2
        <5>3. CASE l # b
          <6>1. Before(a, l)
            <7> DEFINE v == (a - 1) * n
            <7>1. v \in Nat /\ v + b = h BY <1>3, <2>1, <2>8
            <7>2. v + l <= h - 1
              <8> HIDE DEF v
              <8> QED BY <1>0, <2>1, <2>5, <5>1, <5>3, <7>1
            <7> QED BY <3>6, <4>3, <7>2
          <6>2. y[l] = x[l] /\ y[k] = x[b] BY <3>2, <3>6, <4>3, <5>3
          <6>3. x[a].size >= x[l].size BY <2>1, <4>1, <6>1
          <6> QED BY <2>1, <2>6, <2>8, <6>2, <6>3
        <5> QED BY <5>2, <5>3
      <4>4. CASE k # a
        <5>1. k < a /\ k # b BY <1>0, <2>1, <2>8, <4>2, <4>4
        <5>2. \A v \in 1 .. n : k < v => Before(k, v)
          <6> TAKE v \in 1 .. n
          <6> HAVE k < v
          <6> DEFINE p == (k - 1) * n
                     q == (a - 1) * n
          <6>1. p + n <= q /\ p \in Nat /\ q \in Nat /\ q + b = h BY <1>3, <2>1, <5>1
          <6>2. p + v <= h - 1
            <7> HIDE DEF p, q
            <7> QED BY <1>0, <2>1, <2>5, <6>1
          <6> QED BY <6>2
        <5>3. y[k] = x[k] BY <3>2, <4>4, <5>1
        <5>4. k < a /\ k < b BY <1>0, <2>1, <2>8, <5>1
        <5> HIDE DEF Before
        <5> QED BY <2>1, <3>2, <3>6, <4>1, <5>2, <5>3, <5>4
      <4> QED BY <4>3, <4>4
    <3> QED BY <3>3, <3>4, <3>5, <3>6 DEF Good, y
  <2> QED BY <2>7, <2>8
<1>6. Good(N)
  <2> HIDE DEF Good
  <2>1. 0 \in H BY <1>2, <1>4
  <2>2. \A h \in 1 .. N : h - 1 \in H => h \in H BY <1>5
  <2> HIDE DEF H, N
  <2>3. \A h \in 0 .. N : h \in H BY <1>2, <2>1, <2>2, Induction
  <2>4. N \in H BY <1>2, <2>3
  <2> QED BY <2>4 DEF H
<1>7. f[N] \in S
  <2>1. N \in 0 .. N BY <1>2
  <2> HIDE DEF N, S
  <2> QED BY <1>1, <2>1
<1> DEFINE t == f[N]
<1>8. \A k, l \in 1 .. n : k < l => (k - 1) * n + l <= N
  <2> TAKE k, l \in 1 .. n
  <2> HAVE k < l
  <2>1. (k - 1) * n + n <= (l - 1) * n /\ (l - 1) * n + n = l * n /\ (l - 1) * n \in Nat
        /\ (k - 1) * n \in Nat
    <3> HIDE DEF n
    <3>1. (l - 1) * n + n = l * n BY <1>0
    <3> QED BY <1>3, <3>1
  <2>2. l * n <= n * n /\ l * n \in Nat
    <3> HIDE DEF n
    <3> QED BY <1>0
  <2> DEFINE p == (k - 1) * n
             q == (l - 1) * n
  <2>3. p + n <= q /\ q + n <= N /\ p \in Nat /\ q \in Nat BY <2>1, <2>2
  <2>4. p + l <= N
    <3> HIDE DEF p, q, n, N
    <3> QED BY <1>0, <1>2, <2>3
  <2> QED BY <2>4
<1>9. t \in Seq(Partition) /\ Len(t) = n
  <2> HIDE DEF n, N, t
  <2>1. t \in [1 .. n -> Partition] BY <1>7 DEF t
  <2> QED BY <1>0, <2>1
<1> HIDE DEF N
<1>10. DOMAIN t = 1 .. n BY <1>7
<1>11. /\ \A k \in 1 .. n : \E j \in 1 .. n : t[k] = s[j]
       /\ \A j \in 1 .. n : \E k \in 1 .. n : t[k] = s[j]
       /\ NamesUnique(s) => \A k, l \in 1 .. n : t[k].name = t[l].name => k = l
       /\ \A k, l \in 1 .. n : k < l /\ (k - 1) * n + l <= N => t[k].size >= t[l].size
  BY <1>6
<1> HIDE DEF n, t
<1>12. \A k, l \in 1 .. n : k < l => t[k].size >= t[l].size BY <1>8, <1>11
<1>13. NamesUnique(s) => NamesUnique(t) BY <1>10, <1>11 DEF NamesUnique
<1>14. SortedDown(s) = t BY <1>1 DEF t
<1> QED BY <1>9, <1>11, <1>12, <1>13, <1>14 DEF n

(***************************************************************************)
(* Filling the gap                                                         *)
(***************************************************************************)
(* The loop that fills the gap from one start on can be run.               *)
LEMMA FillLoop ==
  ASSUME NEW s \in Seq(Partition), NEW gap \in Nat, NEW start \in Nat, start > 0
  PROVE  \E f \in [0 .. Len(s) -> [left : Nat, taken : SUBSET (1 .. Len(s))]] :
           /\ Fills(s, gap, start) = f[Len(s)]
           /\ f[0] = [left |-> gap, taken |-> {}]
           /\ \A h \in 1 .. Len(s) :
                f[h] = 
                  IF h < start THEN [left |-> gap, taken |-> {}]
                  ELSE IF s[h].size > f[h - 1].left \/ f[h - 1].left = 0 THEN f[h - 1]
                  ELSE [left |-> f[h - 1].left - s[h].size, taken |-> f[h - 1].taken \union {h}]
<1> DEFINE n == Len(s)
           S == [left : Nat, taken : SUBSET (1 .. Len(s))]
           base == [left |-> gap, taken |-> {}]
           New(x, h) == 
                  IF h < start THEN [left |-> gap, taken |-> {}]
                  ELSE IF s[h].size > x.left \/ x.left = 0 THEN x
                  ELSE [left |-> x.left - s[h].size, taken |-> x.taken \union {h}]
           round == [x \in (1 .. n) \X S |-> New(x[2], x[1])]
           Is(f) == f = [h \in 0 .. n |-> New(f[h - 1], h)]
           loop == CHOOSE f : Is(f)
<1>1. n \in Nat OBVIOUS
<1>2. base \in S OBVIOUS
<1>3. ASSUME NEW h \in 1 .. n, NEW x \in S PROVE New(x, h) \in S
  <2>1. s[h] \in Partition OBVIOUS
  <2>2. s[h].size \in Nat BY <2>1, TableAssumption DEF Partition, Bytes
  <2>3. x.left \in Nat /\ x.taken \subseteq 1 .. n OBVIOUS
  <2>4. CASE h < start BY <2>4
  <2>5. CASE ~(h < start) /\ (s[h].size > x.left \/ x.left = 0) BY <2>5
  <2>6. CASE ~(h < start) /\ ~(s[h].size > x.left \/ x.left = 0)
    <3>1. x.left - s[h].size \in Nat BY <2>2, <2>3, <2>6
    <3>2. x.taken \union {h} \subseteq 1 .. n BY <2>3
    <3> QED BY <2>6, <3>1, <3>2
  <2> QED BY <2>4, <2>5, <2>6
<1>4. Fills(s, gap, start) = loop[n] BY DEF Fills
<1>12. \A x : New(x, 0) = base
  <2>1. 0 < start OBVIOUS
  <2> QED BY <2>1
<1> HIDE DEF n, New, base
<1>5. round \in [(1 .. n) \X S -> S] BY <1>3
<1>6. \A h \in 1 .. n, x \in S : round[<<h, x>>] = New(x, h) OBVIOUS
<1> HIDE DEF round, S
<1>7. PICK f \in [0 .. n -> S] : Recurses(f, n, base, round) BY <1>1, <1>2, <1>5, Recursion
<1>8. Is(f)
  <2>1. ASSUME NEW h \in 0 .. n PROVE f[h] = New(f[h - 1], h)
    <3>1. CASE h = 0 BY <1>7, <1>12, <3>1 DEF Recurses
    <3>2. CASE h # 0
      <4>1. h \in 1 .. n /\ h - 1 \in 0 .. n BY <1>1, <3>2
      <4>2. f[h] = round[<<h, f[h - 1]>>] BY <1>7, <4>1 DEF Recurses
      <4> QED BY <1>6, <3>2, <4>1, <4>2
    <3> QED BY <3>1, <3>2
  <2> QED BY <2>1
<1>9. Is(loop)
  <2> HIDE DEF Is
  <2> QED BY <1>8
<1> HIDE DEF loop
<1>10. loop[0] = base /\ \A h \in 1 .. n : loop[h] = New(loop[h - 1], h)
  BY <1>1, <1>9, <1>12
<1>11. loop \in [0 .. n -> S]
  <2>1. loop = [h \in 0 .. n |-> loop[h]] BY <1>9
  <2>2. \A h \in 1 .. n : loop[h - 1] \in S => loop[h] \in S BY <1>3, <1>10
  <2> HIDE DEF Is
  <2> QED BY <1>1, <1>2, <1>10, <2>1, <2>2, LoopStays
<1> QED BY <1>4, <1>10, <1>11 DEF n, New, base, S

(* What a fill takes from its start on is whatever fits in what is left.   *)
(* left[h] is what is left after the h-th partition.                       *)
Leaves(left, taken, s, gap, start) ==
  /\ left \in [0 .. Len(s) -> Nat] /\ left[0] = gap
  /\ \A h \in 1 .. Len(s) :
       /\ h \in taken <=> h >= start /\ s[h].size <= left[h - 1] /\ left[h - 1] # 0
       /\ left[h] = left[h - 1] - (IF h \in taken THEN s[h].size ELSE 0)
       /\ left[Len(s)] <= left[h] /\ left[h] <= left[h - 1]
  /\ \A h \in 0 .. Len(s) : h < start => left[h] = gap

(* Fills returns what such a fill leaves and takes.                        *)
LEMMA FillsIs ==
  ASSUME NEW s \in Seq(Partition), NEW gap \in Nat, NEW start \in Nat, start > 0
  PROVE  LET F == Fills(s, gap, start)
         IN /\ F \in [left : Nat, taken : SUBSET (1 .. Len(s))]
            /\ \E left : Leaves(left, F.taken, s, gap, start) /\ left[Len(s)] = F.left
<1> DEFINE n == Len(s)
           S == [left : Nat, taken : SUBSET (1 .. n)]
<1>0. n \in Nat /\ n \in 0 .. n OBVIOUS
<1>1. \A h \in 1 .. n : s[h].size \in Nat
  <2>1. \A h \in 1 .. n : s[h] \in Partition OBVIOUS
  <2> QED BY <2>1, TableAssumption DEF Partition, Bytes
<1>2. PICK f \in [0 .. n -> S] :
           /\ Fills(s, gap, start) = f[n]
           /\ f[0] = [left |-> gap, taken |-> {}]
           /\ \A h \in 1 .. n :
                f[h] = IF h < start THEN [left |-> gap, taken |-> {}]
                       ELSE IF s[h].size > f[h - 1].left \/ f[h - 1].left = 0 THEN f[h - 1]
                       ELSE [left |-> f[h - 1].left - s[h].size,
                             taken |-> f[h - 1].taken \union {h}]
  BY FillLoop
<1> DEFINE left == [h \in 0 .. n |-> f[h].left]
           Takes(h) == h >= start /\ s[h].size <= left[h - 1] /\ left[h - 1] # 0
           All == {h \in 1 .. n : Takes(h)}
           H == {h \in 0 .. n : f[h].taken = {j \in All : j <= h}}
           B == {h \in 0 .. n : h < start => left[h] = gap}
<1>3. \A h \in 0 .. n : f[h] \in S
  <2> HIDE DEF S, n
  <2> QED BY <1>2
<1>4. left \in [0 .. n -> Nat] /\ left[0] = gap /\ left[n] = f[n].left
      /\ \A h \in 0 .. n : left[h] = f[h].left
  BY <1>0, <1>2, <1>3
<1>5. \A h \in 0 .. n : h < start => left[h] = gap
  <2>1. ASSUME NEW h \in 1 .. n, h < start PROVE left[h] = gap
    <3>1. f[h] = [left |-> gap, taken |-> {}] BY <1>2, <2>1
    <3> QED BY <3>1
  <2>2. \A h \in 0 .. n : h = 0 \/ h \in 1 .. n BY <1>0
  <2> HIDE DEF left
  <2> QED BY <1>4, <2>1, <2>2
<1>6. ASSUME NEW h \in 1 .. n
      PROVE  /\ left[h] = left[h - 1] - (IF Takes(h) THEN s[h].size ELSE 0)
             /\ left[h] \in Nat /\ left[h - 1] \in Nat /\ left[h] <= left[h - 1]
             /\ f[h].taken = (IF h < start THEN {} ELSE f[h - 1].taken)
                               \union (IF Takes(h) THEN {h} ELSE {})
  <2>1. h - 1 \in 0 .. n /\ h \in 0 .. n BY <1>0
  <2>2. left[h] \in Nat /\ left[h - 1] \in Nat /\ left[h - 1] = f[h - 1].left /\ left[h] = f[h].left
        /\ s[h].size \in Nat
    BY <1>1, <1>4, <2>1
  <2>3. h < start => left[h] = gap /\ left[h - 1] = gap
    <3>1. h < start => h - 1 < start BY <2>1
    <3> HIDE DEF left
    <3> QED BY <1>5, <2>1, <3>1
  <2> HIDE DEF left
  <2>4. CASE h < start
    <3>1. ~Takes(h) BY <2>1, <2>4
    <3>2. f[h].taken = {}
      <4>1. f[h] = [left |-> gap, taken |-> {}] BY <1>2, <2>4
      <4> QED BY <4>1
    <3> HIDE DEF Takes
    <3> QED BY <2>2, <2>3, <2>4, <3>1, <3>2
  <2>5. CASE ~(h < start) /\ (s[h].size > f[h - 1].left \/ f[h - 1].left = 0)
    <3>1. ~Takes(h) BY <2>2, <2>5
    <3>2. f[h] = f[h - 1] BY <1>2, <2>5
    <3> HIDE DEF Takes
    <3> QED BY <2>2, <2>5, <3>1, <3>2
  <2>6. CASE ~(h < start) /\ ~(s[h].size > f[h - 1].left \/ f[h - 1].left = 0)
    <3>1. Takes(h) BY <2>1, <2>2, <2>6
    <3>2. f[h].left = f[h - 1].left - s[h].size /\ f[h].taken = f[h - 1].taken \union {h}
      <4>1. f[h] = [left |-> f[h - 1].left - s[h].size, taken |-> f[h - 1].taken \union {h}]
        BY <1>2, <2>6
      <4> QED BY <4>1
    <3> HIDE DEF Takes
    <3> QED BY <2>2, <2>6, <3>1, <3>2
  <2> QED BY <2>4, <2>5, <2>6
<1> HIDE DEF left
<1>7. f[n].taken = All
  <2>1. 0 \in H
    <3>1. f[0].taken = {} BY <1>2
    <3>2. {j \in All : j <= 0} = {} OBVIOUS
    <3> QED BY <1>0, <3>1, <3>2
  <2>2. ASSUME NEW h \in 1 .. n, h - 1 \in H PROVE h \in H
    <3>1. h \in 0 .. n /\ f[h - 1].taken = {j \in All : j <= h - 1} BY <1>0, <2>2
    <3>2. h < start => {j \in All : j <= h} = {} OBVIOUS
    <3>3. {j \in All : j <= h} = {j \in All : j <= h - 1} \union (IF Takes(h) THEN {h} ELSE {})
      <4>1. \A j \in All : j <= h <=> j <= h - 1 \/ j = h OBVIOUS
      <4>2. h \in All <=> Takes(h) OBVIOUS
      <4> HIDE DEF All, Takes
      <4> QED BY <4>1, <4>2
    <3>4. h < start => ~Takes(h) OBVIOUS
    <3> HIDE DEF All, Takes
    <3> QED BY <1>6, <3>1, <3>2, <3>3, <3>4
  <2> HIDE DEF H
  <2>3. \A h \in 0 .. n : h \in H BY <1>0, <2>1, <2>2, Induction
  <2>4. n \in H BY <1>0, <2>3
  <2>5. f[n].taken = {j \in All : j <= n} BY <2>4 DEF H
  <2> QED BY <1>0, <2>5
<1>8. \A h \in 0 .. n : left[n] <= left[n - h]
  <2> DEFINE D == {h \in 0 .. n : left[n] <= left[n - h]}
  <2>1. 0 \in D BY <1>0, <1>4
  <2>2. ASSUME NEW h \in 1 .. n, h - 1 \in D PROVE h \in D
    <3>1. n - (h - 1) \in 1 .. n /\ n - (h - 1) - 1 = n - h /\ h \in 0 .. n BY <1>0
    <3>2. left[n] <= left[n - (h - 1)] /\ left[n] \in Nat BY <1>0, <1>4, <2>2
    <3>3. left[n - (h - 1)] <= left[n - h] /\ left[n - (h - 1)] \in Nat /\ left[n - h] \in Nat
      BY <1>6, <3>1
    <3> QED BY <3>1, <3>2, <3>3
  <2> HIDE DEF D
  <2>3. \A h \in 0 .. n : h \in D BY <1>0, <2>1, <2>2, Induction
  <2> QED BY <2>3 DEF D
<1>9. ASSUME NEW h \in 1 .. n
      PROVE  /\ h \in f[n].taken <=> h >= start /\ s[h].size <= left[h - 1] /\ left[h - 1] # 0
             /\ left[h] = left[h - 1] - (IF h \in f[n].taken THEN s[h].size ELSE 0)
             /\ left[n] <= left[h] /\ left[h] <= left[h - 1]
  <2>1. n - h \in 0 .. n /\ n - (n - h) = h BY <1>0
  <2>2. left[n] <= left[h] BY <1>8, <2>1
  <2>3. h \in f[n].taken <=> Takes(h) BY <1>7
  <2> HIDE DEF All
  <2> QED BY <1>6, <2>2, <2>3
<1> HIDE DEF n, All
<1>10. Leaves(left, f[n].taken, s, gap, start) BY <1>4, <1>5, <1>9 DEF Leaves, n
<1>11. f[n] \in S BY <1>0, <1>3
<1> QED BY <1>2, <1>4, <1>10, <1>11 DEF n

(* The loop over the starts can be run.                                    *)
LEMMA BestLoop ==
  ASSUME NEW s \in Seq(Partition), NEW gap \in Nat
  PROVE  \E f \in [0 .. Len(s) -> [left : Nat, taken : SUBSET (1 .. Len(s))]] :
           /\ BestFill(s, gap) = f[Len(s)].taken
           /\ f[0] = [left |-> gap, taken |-> {}]
           /\ \A h \in 1 .. Len(s) :
                f[h] = IF Fills(s, gap, h).left < f[h - 1].left THEN Fills(s, gap, h) ELSE f[h - 1]
<1> DEFINE n == Len(s)
           S == [left : Nat, taken : SUBSET (1 .. Len(s))]
           base == [left |-> gap, taken |-> {}]
           New(x, h) == IF Fills(s, gap, h).left < x.left THEN Fills(s, gap, h) ELSE x
           round == [x \in (1 .. n) \X S |-> New(x[2], x[1])]
           Is(f) == f = [h \in 0 .. n |-> IF h = 0 THEN base ELSE New(f[h - 1], h)]
           loop == CHOOSE f : Is(f)
<1>1. n \in Nat OBVIOUS
<1>2. base \in S OBVIOUS
<1>3. ASSUME NEW h \in 1 .. n, NEW x \in S PROVE New(x, h) \in S
  <2>1. h \in Nat /\ h > 0 OBVIOUS
  <2>2. Fills(s, gap, h) \in S BY <2>1, FillsIs
  <2> QED BY <2>2
<1>4. BestFill(s, gap) = loop[n].taken BY DEF BestFill
<1> HIDE DEF n, New, base
<1>5. round \in [(1 .. n) \X S -> S] BY <1>3
<1>6. \A h \in 1 .. n, x \in S : round[<<h, x>>] = New(x, h) OBVIOUS
<1> HIDE DEF round, S
<1>7. PICK f \in [0 .. n -> S] : Recurses(f, n, base, round) BY <1>1, <1>2, <1>5, Recursion
<1>8. Is(f)
  <2>1. ASSUME NEW h \in 0 .. n PROVE f[h] = IF h = 0 THEN base ELSE New(f[h - 1], h)
    <3>1. CASE h = 0 BY <1>7, <3>1 DEF Recurses
    <3>2. CASE h # 0
      <4>1. h \in 1 .. n /\ h - 1 \in 0 .. n BY <1>1, <3>2
      <4>2. f[h] = round[<<h, f[h - 1]>>] BY <1>7, <4>1 DEF Recurses
      <4> QED BY <1>6, <3>2, <4>1, <4>2
    <3> QED BY <3>1, <3>2
  <2> QED BY <2>1
<1>9. Is(loop)
  <2> HIDE DEF Is
  <2> QED BY <1>8
<1> HIDE DEF loop
<1>10. loop[0] = base /\ \A h \in 1 .. n : loop[h] = New(loop[h - 1], h) BY <1>1, <1>9
<1>11. loop \in [0 .. n -> S]
  <2>1. loop = [h \in 0 .. n |-> loop[h]] BY <1>9
  <2>2. \A h \in 1 .. n : loop[h - 1] \in S => loop[h] \in S BY <1>3, <1>10
  <2> HIDE DEF Is
  <2> QED BY <1>1, <1>2, <1>10, <2>1, <2>2, LoopStays
<1> QED BY <1>4, <1>10, <1>11 DEF n, New, base, S

(* What Leaves says of one partition, its numbers being natural ones.      *)
LEMMA SizesNat ==
  ASSUME NEW s \in Seq(Partition)
  PROVE  \A h \in 1 .. Len(s) : s[h].size \in Nat
<1> SUFFICES ASSUME NEW h \in 1 .. Len(s) PROVE s[h].size \in Nat OBVIOUS
<1>1. s[h] \in Partition OBVIOUS
<1>2. s[h].size \in Bytes BY <1>1 DEF Partition
<1> QED BY <1>2, TableAssumption DEF Bytes

(* What a fill does with one partition.                                    *)
LEMMA LeavesAt ==
  ASSUME NEW s \in Seq(Partition), NEW gap \in Nat, NEW start \in Nat, NEW left, NEW taken,
         Leaves(left, taken, s, gap, start), NEW h \in 1 .. Len(s)
  PROVE  /\ left[h] \in Nat /\ left[h - 1] \in Nat /\ left[Len(s)] \in Nat /\ s[h].size \in Nat
         /\ left[Len(s)] <= left[h] /\ left[h] <= left[h - 1]
         /\ h \in taken <=> h >= start /\ s[h].size <= left[h - 1] /\ left[h - 1] # 0
         /\ h \in taken => left[h] = left[h - 1] - s[h].size
         /\ h \notin taken => left[h] = left[h - 1]
         /\ h < start => left[h] = gap /\ left[h - 1] = gap
<1>1. s[h].size \in Nat BY SizesNat
<1>2. h \in 0 .. Len(s) /\ h - 1 \in 0 .. Len(s) /\ Len(s) \in 0 .. Len(s) /\ (h < start => h - 1 < start)
  OBVIOUS
<1>3. left[h] \in Nat /\ left[h - 1] \in Nat /\ left[Len(s)] \in Nat
  BY <1>2 DEF Leaves
<1>4. /\ left[Len(s)] <= left[h] /\ left[h] <= left[h - 1]
      /\ h \in taken <=> h >= start /\ s[h].size <= left[h - 1] /\ left[h - 1] # 0
      /\ left[h] = left[h - 1] - (IF h \in taken THEN s[h].size ELSE 0)
  BY DEF Leaves
<1>5. h < start => left[h] = gap /\ left[h - 1] = gap BY <1>2 DEF Leaves
<1>6. h \notin taken => left[h] = left[h - 1] BY <1>3, <1>4
<1>7. h \in taken => left[h] = left[h - 1] - s[h].size BY <1>4
<1> QED BY <1>1, <1>3, <1>4, <1>5, <1>6, <1>7

(* What is left does not change where nothing is taken.                    *)
LEMMA LeftSteady ==
  ASSUME NEW s \in Seq(Partition), NEW gap \in Nat, NEW start \in Nat, NEW left, NEW taken,
         Leaves(left, taken, s, gap, start),
         NEW a \in 0 .. Len(s), NEW c \in 0 .. Len(s), a <= c,
         \A h \in a + 1 .. c : h \in taken => s[h].size = 0
  PROVE  left[c] = left[a]
<1> DEFINE H == {h \in 0 .. c : h >= a => left[h] = left[a]}
<1>0. a \in Nat /\ c \in Nat /\ Len(s) \in Nat /\ c <= Len(s) OBVIOUS
<1>1. 0 \in H BY <1>0
<1>2. ASSUME NEW h \in 1 .. c, h - 1 \in H PROVE h \in H
  <2>1. h \in 1 .. Len(s) /\ h - 1 \in 0 .. c BY <1>0
  <2>2. /\ h \in taken => left[h] = left[h - 1] - s[h].size
        /\ h \notin taken => left[h] = left[h - 1]
        /\ left[h - 1] \in Nat
    BY <2>1, LeavesAt
  <2>4. CASE h >= a + 1
    <3>1. h - 1 >= a /\ h \in a + 1 .. c BY <1>0, <2>4
    <3>2. left[h - 1] = left[a] BY <1>2, <3>1
    <3>3. h \in taken => s[h].size = 0 BY <3>1
    <3>4. left[h] = left[h - 1] BY <2>2, <3>3
    <3>5. h \in 0 .. c BY <1>0
    <3> QED BY <3>2, <3>4, <3>5
  <2>5. CASE h = a BY <1>0, <2>5
  <2>6. CASE h < a BY <1>0, <2>6
  <2> QED BY <1>0, <2>4, <2>5, <2>6
<1> HIDE DEF H
<1>3. \A h \in 0 .. c : h \in H BY <1>0, <1>1, <1>2, Induction
<1>4. c \in H BY <1>0, <1>3
<1> QED BY <1>0, <1>4 DEF H

(* The best fill is one from some start (n + 1 stands for filling in none) *)
(* and leaves no more than any other.                                      *)
LEMMA BestIs ==
  ASSUME NEW s \in Seq(Partition), NEW gap \in Nat
  PROVE  \E start \in 1 .. Len(s) + 1 : \E left :
           /\ Leaves(left, BestFill(s, gap), s, gap, start)
           /\ \A k \in 1 .. Len(s) : left[Len(s)] <= Fills(s, gap, k).left
<1> DEFINE n == Len(s)
           S == [left : Nat, taken : SUBSET (1 .. n)]
           F(k) == Fills(s, gap, k)
<1>0. n \in Nat OBVIOUS
<1>1. PICK f \in [0 .. n -> S] :
           /\ BestFill(s, gap) = f[n].taken
           /\ f[0] = [left |-> gap, taken |-> {}]
           /\ \A h \in 1 .. n : f[h] = IF F(h).left < f[h - 1].left THEN F(h) ELSE f[h - 1]
  BY BestLoop
<1>2. ASSUME NEW k \in 1 .. n
      PROVE  F(k) \in S /\ \E left : Leaves(left, F(k).taken, s, gap, k) /\ left[n] = F(k).left
  <2>1. k \in Nat /\ k > 0 OBVIOUS
  <2> QED BY <2>1, FillsIs
<1> HIDE DEF F
<1> DEFINE From(x, start) == \E left : Leaves(left, x.taken, s, gap, start) /\ left[n] = x.left
           Good(h) == /\ \E start \in 1 .. n + 1 : From(f[h], start)
                      /\ \A k \in 1 .. h : f[h].left <= F(k).left
           H == {h \in 0 .. n : Good(h)}
<1>3. Good(0)
  <2> DEFINE left == [h \in 0 .. n |-> gap]
  <2>1. f[0].taken = {} /\ f[0].left = gap BY <1>1
  <2>2. left \in [0 .. n -> Nat] /\ \A h \in 0 .. n : left[h] = gap OBVIOUS
  <2> HIDE DEF left
  <2>3. \A h \in 1 .. n : h \in 0 .. n /\ h - 1 \in 0 .. n /\ ~(h >= n + 1) BY <1>0
  <2>4. 0 \in 0 .. n /\ n \in 0 .. n BY <1>0
  <2>5. Leaves(left, {}, s, gap, n + 1)
    <3> HIDE DEF n
    <3>1. \A h \in 1 .. n :
            /\ h \in {} <=> h >= n + 1 /\ s[h].size <= left[h - 1] /\ left[h - 1] # 0
            /\ left[h] = left[h - 1] - (IF h \in {} THEN s[h].size ELSE 0)
            /\ left[n] <= left[h] /\ left[h] <= left[h - 1]
      <4> SUFFICES ASSUME NEW h \in 1 .. n
                   PROVE  /\ ~(h >= n + 1)
                          /\ left[h] = left[h - 1] - 0
                          /\ left[n] <= left[h] /\ left[h] <= left[h - 1]
        OBVIOUS
      <4>1. left[h] = gap /\ left[h - 1] = gap /\ left[n] = gap BY <2>2, <2>3, <2>4
      <4> QED BY <2>3, <4>1
    <3> QED BY <2>2, <2>4, <3>1 DEF Leaves, n
  <2>6. From(f[0], n + 1) BY <2>1, <2>2, <2>4, <2>5
  <2>7. n + 1 \in 1 .. n + 1 /\ 1 .. 0 = {} BY <1>0
  <2> HIDE DEF From
  <2> QED BY <2>6, <2>7
<1>4. ASSUME NEW h \in 1 .. n, Good(h - 1) PROVE Good(h)
  <2>1. h - 1 \in 0 .. n /\ \A k \in 1 .. h : k \in 1 .. h - 1 \/ k = h BY <1>0
  <2>2. f[h - 1] \in S
    <3> HIDE DEF S, n
    <3> QED BY <1>1, <2>1
  <2>3. f[h - 1].left \in Nat /\ \A k \in 1 .. n : F(k).left \in Nat BY <1>2, <2>2
  <2>4. 1 .. h - 1 \subseteq 1 .. n /\ 1 .. n \subseteq 1 .. n + 1 BY <1>0
  <2>5. CASE F(h).left < f[h - 1].left
    <3>1. f[h] = F(h) BY <1>1, <2>5
    <3>2. From(F(h), h) BY <1>2
    <3> HIDE DEF From
    <3>3. \A k \in 1 .. h : F(h).left <= F(k).left BY <1>4, <2>1, <2>3, <2>4, <2>5
    <3> QED BY <2>4, <3>1, <3>2, <3>3
  <2>6. CASE ~(F(h).left < f[h - 1].left)
    <3>1. f[h] = f[h - 1] BY <1>1, <2>6
    <3> HIDE DEF From
    <3>2. \A k \in 1 .. h : f[h - 1].left <= F(k).left BY <1>4, <2>1, <2>3, <2>6
    <3> QED BY <1>4, <3>1, <3>2
  <2> QED BY <2>5, <2>6
<1>5. Good(n)
  <2> HIDE DEF Good
  <2>1. 0 \in H BY <1>0, <1>3
  <2>2. \A h \in 1 .. n : h - 1 \in H => h \in H BY <1>4
  <2> HIDE DEF H, n
  <2>3. \A h \in 0 .. n : h \in H BY <1>0, <2>1, <2>2, Induction
  <2>4. n \in H BY <1>0, <2>3
  <2> QED BY <2>4 DEF H
<1>6. PICK start \in 1 .. n + 1 : From(f[n], start) BY <1>5
<1>7. PICK left : Leaves(left, f[n].taken, s, gap, start) /\ left[n] = f[n].left BY <1>6
<1>8. \A k \in 1 .. n : left[n] <= F(k).left BY <1>5, <1>7
<1> QED BY <1>1, <1>7, <1>8 DEF F

(* What the best fill leaves is too small for any partition it left out:   *)
(* if one fitted, the fill from that one on would leave less.              *)
LEMMA BestIsFull ==
  ASSUME NEW s \in Seq(Partition), NEW gap \in Nat,
         \A k, l \in 1 .. Len(s) : k < l => s[k].size >= s[l].size,
         NEW start \in 1 .. Len(s) + 1, NEW left, NEW taken,
         Leaves(left, taken, s, gap, start),
         \A k \in 1 .. Len(s) : left[Len(s)] <= Fills(s, gap, k).left,
         NEW k \in 1 .. Len(s), k \notin taken, s[k].size > 0
  PROVE  s[k].size > left[Len(s)]
<1> DEFINE n == Len(s)
           size == s[k].size
<1>0. n \in Nat /\ k \in Nat /\ k - 1 \in 0 .. n /\ n \in 0 .. n /\ \A h \in 1 .. n : h \in 0 .. n
  OBVIOUS
<1>1. start \in Nat OBVIOUS
<1>2. \A h \in 1 .. n :
        /\ left[h] \in Nat /\ left[h - 1] \in Nat /\ left[n] \in Nat /\ s[h].size \in Nat
        /\ left[n] <= left[h] /\ left[h] <= left[h - 1]
        /\ h \in taken <=> h >= start /\ s[h].size <= left[h - 1] /\ left[h - 1] # 0
        /\ h \in taken => left[h] = left[h - 1] - s[h].size
        /\ h \notin taken => left[h] = left[h - 1]
        /\ h < start => left[h] = gap /\ left[h - 1] = gap
  BY <1>1, LeavesAt
<1>3. /\ left[n] \in Nat /\ left[k] \in Nat /\ left[k - 1] \in Nat /\ size \in Nat /\ size > 0
      /\ left[n] <= left[k] /\ left[k] <= left[k - 1]
  BY <1>2
<1> HIDE DEF n
<1> SUFFICES ASSUME size <= left[n] PROVE FALSE
  BY <1>3 DEF n
<1>4. k < start
  <2>1. s[k].size <= left[k - 1] /\ left[k - 1] # 0 BY <1>3
  <2>2. k \in 1 .. n BY DEF n
  <2>3. ~(k >= start) BY <1>2, <2>1, <2>2
  <2> QED BY <1>0, <1>1, <2>3
<1>5. left[k] = gap /\ left[k - 1] = gap
  <2>1. k \in 1 .. n BY DEF n
  <2> QED BY <1>2, <1>4, <2>1
<1>6. k \in Nat /\ k > 0 OBVIOUS
<1> DEFINE T == Fills(s, gap, k).taken
<1>7. PICK M : Leaves(M, T, s, gap, k) /\ M[n] = Fills(s, gap, k).left
  BY <1>6, FillsIs DEF n
<1>8. left[n] <= M[n] BY <1>7 DEF n
<1> HIDE DEF T, size
<1>9. \A h \in 1 .. n :
        /\ M[h] \in Nat /\ M[h - 1] \in Nat /\ M[n] \in Nat
        /\ M[n] <= M[h] /\ M[h] <= M[h - 1]
        /\ h \in T <=> h >= k /\ s[h].size <= M[h - 1] /\ M[h - 1] # 0
        /\ h \in T => M[h] = M[h - 1] - s[h].size
        /\ M[0] = gap
  <2>1. M[0] = gap BY <1>7 DEF Leaves
  <2> SUFFICES ASSUME NEW h \in 1 .. Len(s)
               PROVE  /\ M[h] \in Nat /\ M[h - 1] \in Nat /\ M[Len(s)] \in Nat
                      /\ M[Len(s)] <= M[h] /\ M[h] <= M[h - 1]
                      /\ h \in T <=> h >= k /\ s[h].size <= M[h - 1] /\ M[h - 1] # 0
                      /\ h \in T => M[h] = M[h - 1] - s[h].size
    BY <2>1 DEF n
  <2> QED BY <1>6, <1>7, LeavesAt
<1>10. M[n] \in Nat /\ M[k] = gap - size /\ M[k] \in Nat
  <2>1. M[k - 1] = gap
    <3>1. k - 1 < k BY <1>0
    <3> QED BY <1>0, <1>7, <3>1 DEF Leaves, n
  <2>2. k \in 1 .. n BY DEF n
  <2>3. k >= k /\ s[k].size <= M[k - 1] /\ M[k - 1] # 0 BY <1>0, <1>3, <1>5, <2>1 DEF size
  <2>4. k \in T BY <1>9, <2>2, <2>3
  <2> QED BY <1>9, <2>1, <2>2, <2>4 DEF size
<1> DEFINE H == {h \in 0 .. n : h >= k => M[h] < left[h]}
<1>11. 0 \in H BY <1>0
<1>12. ASSUME NEW h \in 1 .. n, h - 1 \in H PROVE h \in H
  <2>1. h \in 0 .. n /\ h \in Nat BY <1>0
  <2>2. /\ M[h] \in Nat /\ M[h - 1] \in Nat /\ left[h] \in Nat /\ left[h - 1] \in Nat
        /\ s[h].size \in Nat
    BY <1>2, <1>9
  <2>3. CASE h < k BY <1>0, <2>1, <2>3
  <2>4. CASE h = k
    <3>1. M[h] < left[h] BY <1>3, <1>5, <1>10, <2>4
    <3> QED BY <2>1, <3>1
  <2>5. CASE h > k
    <3>1. M[h - 1] < left[h - 1]
      <4>1. h - 1 >= k BY <1>0, <2>1, <2>5
      <4> QED BY <1>12, <4>1
    <3>2. left[h] >= left[h - 1] - s[h].size
      <4>1. left[h] = left[h - 1] - s[h].size \/ left[h] = left[h - 1] BY <1>2
      <4> QED BY <2>2, <4>1
    <3>3. h \in T
      <4>1. s[h].size <= size
        <5>1. h \in 1 .. Len(s) BY DEF n
        <5>2. s[k].size >= s[h].size BY <2>5, <5>1
        <5> QED BY <1>3, <2>2, <5>2 DEF size
      <4>2. M[n] <= M[h - 1]
        <5>1. M[n] <= M[h] /\ M[h] <= M[h - 1] BY <1>9
        <5> QED BY <1>10, <2>2, <5>1
      <4>3. s[h].size <= M[h - 1] /\ M[h - 1] # 0
        <5>1. size <= M[n] BY <1>3, <1>8, <1>10
        <5>2. size <= M[h - 1] BY <1>3, <1>10, <2>2, <4>2, <5>1
        <5>3. \A a, b, c \in Nat : a <= b /\ b <= c => a <= c OBVIOUS
        <5>4. s[h].size <= M[h - 1] BY <1>3, <2>2, <4>1, <5>2, <5>3, Zenon
        <5>5. \A a, b \in Nat : a > 0 /\ a <= b => b # 0 OBVIOUS
        <5>6. M[h - 1] # 0 BY <1>3, <2>2, <5>2, <5>5, Zenon
        <5> QED BY <5>4, <5>6
      <4>4. h >= k BY <1>0, <2>1, <2>5
      <4> QED BY <1>9, <4>3, <4>4
    <3>4. M[h] = M[h - 1] - s[h].size BY <1>9, <3>3
    <3>5. M[h] < left[h]
      <4> DEFINE a == M[h - 1]
                 b == left[h - 1]
                 c == left[h]
                 d == M[h]
                 z == s[h].size
      <4>1. a \in Nat /\ b \in Nat /\ c \in Nat /\ d \in Nat /\ z \in Nat BY <2>2
      <4>2. a < b /\ c >= b - z /\ d = a - z BY <3>1, <3>2, <3>4
      <4> HIDE DEF a, b, c, d, z
      <4>3. d < c BY <4>1, <4>2
      <4> QED BY <4>3 DEF c, d
    <3> QED BY <2>1, <3>5
  <2> QED BY <1>0, <2>1, <2>3, <2>4, <2>5
<1> HIDE DEF H
<1>13. \A h \in 0 .. n : h \in H BY <1>0, <1>11, <1>12, Induction
<1>14. n \in H /\ n >= k BY <1>0, <1>13 DEF n
<1>15. M[n] < left[n] BY <1>14 DEF H
<1> QED BY <1>3, <1>8, <1>10, <1>15

(***************************************************************************)
(* The default table with the essential partitions of the old one          *)
(***************************************************************************)
(* What one partition p of the old table makes of the table so far.        *)
Took(so, p) ==
  IF p.name \notin Essential \/ ~so.ok THEN so
  ELSE IF Find(so.parts, p.name) # {} THEN
    Done([so.parts EXCEPT ![First(Find(so.parts, p.name))] = p])
  ELSE IF Len(so.parts) >= MaxParts THEN Failed
  ELSE Done(Append(so.parts, p))

(* A place found by name is one of the list, and the first of its name.    *)
LEMMA FoundIs ==
  ASSUME NEW s \in Seq(Partition), NEW name, Find(s, name) # {}
  PROVE  First(Find(s, name)) \in 1 .. Len(s) /\ s[First(Find(s, name))].name = name
<1>1. Find(s, name) \in SUBSET Nat /\ Find(s, name) \subseteq 1 .. Len(s) BY DEF Find
<1>2. First(Find(s, name)) \in Find(s, name) BY <1>1, FirstIs
<1> QED BY <1>1, <1>2 DEF Find

(* The result of one partition is a table of the same kind.                *)
LEMMA TookKind ==
  ASSUME NEW so \in [ok : BOOLEAN, parts : Seq(Partition)], NEW p \in Partition
  PROVE  Took(so, p) \in [ok : BOOLEAN, parts : Seq(Partition)]
<1> DEFINE c == First(Find(so.parts, p.name))
<1>1. so.parts \in Seq(Partition) OBVIOUS
<1>2. Find(so.parts, p.name) # {} => [so.parts EXCEPT ![c] = p] \in Seq(Partition)
  BY <1>1, FoundIs, ReplaceTouches
<1>3. Append(so.parts, p) \in Seq(Partition) BY <1>1
<1>4. Failed \in [ok : BOOLEAN, parts : Seq(Partition)] BY DEF Failed
<1>5. \A t \in Seq(Partition) : Done(t) \in [ok : BOOLEAN, parts : Seq(Partition)] BY DEF Done
<1> QED BY <1>2, <1>3, <1>4, <1>5 DEF Took


(* The loop over the old table can be run.                                 *)
LEMMA RetainedLoop ==
  ASSUME NEW s \in Seq(Partition)
  PROVE  \E f \in [0 .. Len(s) -> [ok : BOOLEAN, parts : Seq(Partition)]] :
           /\ Retained(s) = f[Len(s)]
           /\ f[0] = Done(EmptyParts)
           /\ \A h \in 1 .. Len(s) :
                f[h] = Took(f[h - 1], s[h])
<1> DEFINE n == Len(s)
           S == [ok : BOOLEAN, parts : Seq(Partition)]
           base == Done(EmptyParts)
           New(x, h) == Took(x, s[h])
           round == [x \in (1 .. n) \X S |-> New(x[2], x[1])]
           Is(f) == f = [h \in 0 .. n |-> IF h = 0 THEN base ELSE New(f[h - 1], h)]
           loop == CHOOSE f : Is(f)
<1>1. n \in Nat OBVIOUS
<1>2. base \in S
  <2>1. \A v \in 0 .. Word - 1 : v \in Bytes BY DEF Bytes
  <2>2. 0 \in Bytes /\ BootloaderSize \in Bytes /\ ReservedSize \in Bytes /\ EnvSize \in Bytes
    BY TableAssumption DEF Bytes
  <2>3. \A name \in STRING, v \in Bytes : Part(name, 0, v, 0) \in Partition
    BY <2>2 DEF Part, Partition
  <2>4. EmptyParts \in Seq(Partition)
    <3>0. "bootloader" \in STRING /\ "reserved" \in STRING /\ "cache" \in STRING /\ "env" \in STRING
      <4>1. /\ 1 \in 1 .. 4 /\ 2 \in 1 .. 4 /\ 3 \in 1 .. 4 /\ 4 \in 1 .. 4
            /\ PedanticNames[1] = "bootloader" /\ PedanticNames[2] = "reserved"
            /\ PedanticNames[3] = "cache" /\ PedanticNames[4] = "env"
        BY DEF PedanticNames
      <4> QED BY <4>1, NamesAssumption
    <3>1. /\ Part("bootloader", 0, BootloaderSize, 0) \in Partition
          /\ Part("reserved", 0, ReservedSize, 0) \in Partition
          /\ Part("cache", 0, 0, 0) \in Partition /\ Part("env", 0, EnvSize, 0) \in Partition
      BY <2>2, <2>3, <3>0, Zenon
    <3>2. \A a, b, c, d \in Partition : <<a, b, c, d>> \in Seq(Partition) OBVIOUS
    <3> QED BY <3>1, <3>2 DEF EmptyParts
  <2> QED BY <2>4 DEF Done
<1>3. ASSUME NEW h \in 1 .. n, NEW x \in S PROVE New(x, h) \in S
  <2>1. s[h] \in Partition OBVIOUS
  <2> QED BY <2>1, TookKind
<1>4. Retained(s) = loop[n] BY DEF Retained, Took, First
<1> HIDE DEF n, New, base
<1>5. round \in [(1 .. n) \X S -> S] BY <1>3
<1>6. \A h \in 1 .. n, x \in S : round[<<h, x>>] = New(x, h) OBVIOUS
<1> HIDE DEF round, S
<1>7. PICK f \in [0 .. n -> S] : Recurses(f, n, base, round) BY <1>1, <1>2, <1>5, Recursion
<1>8. Is(f)
  <2>1. ASSUME NEW h \in 0 .. n PROVE f[h] = IF h = 0 THEN base ELSE New(f[h - 1], h)
    <3>1. CASE h = 0 BY <1>7, <3>1 DEF Recurses
    <3>2. CASE h # 0
      <4>1. h \in 1 .. n /\ h - 1 \in 0 .. n BY <1>1, <3>2
      <4>2. f[h] = round[<<h, f[h - 1]>>] BY <1>7, <4>1 DEF Recurses
      <4> QED BY <1>6, <3>2, <4>1, <4>2
    <3> QED BY <3>1, <3>2
  <2> QED BY <2>1
<1>9. Is(loop)
  <2> HIDE DEF Is
  <2> QED BY <1>8
<1> HIDE DEF loop
<1>10. loop[0] = base /\ \A h \in 1 .. n : loop[h] = New(loop[h - 1], h) BY <1>1, <1>9
<1>11. loop \in [0 .. n -> S]
  <2>1. loop = [h \in 0 .. n |-> loop[h]] BY <1>9
  <2>2. \A h \in 1 .. n : loop[h - 1] \in S => loop[h] \in S BY <1>3, <1>10
  <2> HIDE DEF Is
  <2> QED BY <1>1, <1>2, <1>10, <2>1, <2>2, LoopStays
<1> QED BY <1>4, <1>10, <1>11 DEF n, New, base, S

(* The default table stays at the front, no name comes twice, and nothing  *)
(* essential is left out.                                                  *)
LEMMA RetainedIs ==
  ASSUME NEW s \in Seq(Partition), Retained(s).ok
  PROVE  LET t == Retained(s).parts
         IN /\ t \in Seq(Partition) /\ Len(t) \in 4 .. MaxParts
            /\ t[1].name = "bootloader" /\ t[2].name = "reserved"
            /\ NamesUnique(t)
            /\ NamesUnique(s) =>
                 \A j \in 1 .. Len(s) :
                   s[j].name \in Essential => \E k \in 1 .. Len(t) : t[k] = s[j]
<1> DEFINE n == Len(s)
           S == [ok : BOOLEAN, parts : Seq(Partition)]
<1>0. n \in Nat /\ \A h \in 1 .. n : s[h] \in Partition OBVIOUS
<1>1. PICK f \in [0 .. n -> S] :
           /\ Retained(s) = f[n]
           /\ f[0] = Done(EmptyParts)
           /\ \A h \in 1 .. n : f[h] = Took(f[h - 1], s[h])
  BY RetainedLoop
<1> DEFINE Kept(t, h) ==
             NamesUnique(s) =>
               \A j \in 1 .. h :
                 s[j].name \in Essential => \E k \in 1 .. Len(t) : t[k] = s[j]
           Good(x, h) ==
             x.ok =>
               /\ Len(x.parts) \in 4 .. MaxParts
               /\ x.parts[1].name = "bootloader" /\ x.parts[2].name = "reserved"
               /\ NamesUnique(x.parts)
               /\ Kept(x.parts, h)
           H == {h \in 0 .. n : Good(f[h], h)}
<1>2. Good(f[0], 0)
  <2>1. f[0].parts = EmptyParts BY <1>1 DEF Done
  <2>2. /\ Len(EmptyParts) = 4 /\ EmptyParts[1].name = "bootloader"
        /\ EmptyParts[2].name = "reserved" /\ EmptyParts[3].name = "cache"
        /\ EmptyParts[4].name = "env"
    BY DEF EmptyParts, Part
  <2>3. DOMAIN EmptyParts = 1 .. 4 BY DEF EmptyParts
  <2>4. \A k \in 1 .. 4 : k = 1 \/ k = 2 \/ k = 3 \/ k = 4 OBVIOUS
  <2>5. NamesUnique(EmptyParts) BY <2>2, <2>3, <2>4 DEF NamesUnique
  <2>6. 4 \in 4 .. MaxParts /\ 1 .. 0 = {} BY TableAssumption
  <2> QED BY <2>1, <2>2, <2>5, <2>6
<1>3. ASSUME NEW h \in 1 .. n, Good(f[h - 1], h - 1) PROVE Good(f[h], h)
  <2> DEFINE x == f[h - 1]
             u == x.parts
             p == s[h]
             c == First(Find(u, p.name))
  <2>1. x \in S /\ p \in Partition /\ f[h] = Took(x, p)
    <3>1. h - 1 \in 0 .. n BY <1>0
    <3> HIDE DEF n, S
    <3> QED BY <1>0, <1>1, <3>1
  <2>2. u \in Seq(Partition) /\ DOMAIN u = 1 .. Len(u) /\ Len(u) \in Nat BY <2>1
  <2>3. \A j \in 1 .. h : j \in 1 .. h - 1 \/ j = h BY <1>0
  <2>4. Good(x, h - 1) BY <1>3
  <2>15. h \in 1 .. n /\ 1 .. h - 1 \subseteq 1 .. n /\ h \notin 1 .. h - 1 BY <1>0
  <2> HIDE DEF x
  <2>5. CASE p.name \notin Essential \/ ~x.ok
    <3>1. f[h] = x BY <2>1, <2>5 DEF Took
    <3>2. Kept(u, h - 1) /\ p.name \notin Essential => Kept(u, h) BY <2>3
    <3> HIDE DEF Kept, p
    <3>3. Good(x, h) BY <2>4, <2>5, <3>2
    <3> QED BY <3>1, <3>3
  <2>6. CASE p.name \in Essential /\ x.ok /\ Find(u, p.name) # {}
    <3> DEFINE v == [u EXCEPT ![c] = p]
    <3>1. f[h] = Done(v) BY <2>1, <2>6 DEF Took
    <3>2. c \in 1 .. Len(u) /\ u[c].name = p.name BY <2>2, <2>6, FoundIs
    <3> HIDE DEF u, p, c
    <3>3. Len(v) = Len(u) /\ DOMAIN v = 1 .. Len(u) /\ v[c] = p
          /\ \A k \in 1 .. Len(u) : k # c => v[k] = u[k]
      BY <2>2, <3>2
    <3> HIDE DEF v
    <3>4. \A k \in 1 .. Len(u) : v[k].name = u[k].name BY <3>2, <3>3
    <3>5. NamesUnique(v)
      <4>1. NamesUnique(u) BY <2>4, <2>6 DEF u
      <4> QED BY <2>2, <3>3, <3>4, <4>1 DEF NamesUnique, u
    <3>6. Kept(v, h)
      <4> SUFFICES ASSUME NamesUnique(s), NEW j \in 1 .. h, s[j].name \in Essential
                   PROVE  \E k \in 1 .. Len(v) : v[k] = s[j]
        OBVIOUS
      <4>1. CASE j = h BY <3>2, <3>3, <4>1 DEF p
      <4>2. CASE j \in 1 .. h - 1
        <5>1. PICK k \in 1 .. Len(u) : u[k] = s[j] BY <2>4, <2>6, <4>2 DEF u
        <5>2. s[j].name # p.name
          <6>1. j \in DOMAIN s /\ h \in DOMAIN s /\ j # h BY <2>15, <4>2
          <6> QED BY <6>1 DEF NamesUnique, p
        <5>3. k # c BY <3>2, <5>1, <5>2
        <5> QED BY <3>3, <5>1, <5>3
      <4> QED BY <2>3, <4>1, <4>2
    <3>7. Len(v) \in 4 .. MaxParts /\ v[1].name = "bootloader" /\ v[2].name = "reserved"
      <4>1. 1 \in 1 .. Len(u) /\ 2 \in 1 .. Len(u) BY <2>4, <2>6 DEF u
      <4> QED BY <2>4, <2>6, <3>3, <3>4, <4>1 DEF u
    <3> HIDE DEF Kept
    <3>8. Done(v).parts = v BY DEF Done
    <3> QED BY <3>1, <3>5, <3>6, <3>7, <3>8
  <2>7. CASE p.name \in Essential /\ x.ok /\ Find(u, p.name) = {}
    <3>1. CASE Len(u) >= MaxParts
      <4>1. f[h] = Failed BY <2>1, <2>7, <3>1 DEF Took
      <4>2. ~Failed.ok BY DEF Failed
      <4> HIDE DEF Kept
      <4> QED BY <4>1, <4>2
    <3>2. CASE ~(Len(u) >= MaxParts)
      <4> DEFINE v == Append(u, p)
      <4>1. f[h] = Done(v) BY <2>1, <2>7, <3>2 DEF Took
      <4>2. \A k \in 1 .. Len(u) : u[k].name # p.name BY <2>2, <2>7 DEF Find
      <4> HIDE DEF u, p
      <4>3. Len(v) = Len(u) + 1 /\ DOMAIN v = 1 .. Len(u) + 1 /\ v[Len(u) + 1] = p
            /\ \A k \in 1 .. Len(u) : v[k] = u[k]
        BY <2>1, <2>2
      <4> HIDE DEF v
      <4>4. Len(u) \in 4 .. MaxParts /\ NamesUnique(u) /\ u[1].name = "bootloader"
            /\ u[2].name = "reserved" /\ Kept(u, h - 1)
        BY <2>4, <2>7 DEF u
      <4>5. \A k \in 1 .. Len(u) + 1 : k \in 1 .. Len(u) \/ k = Len(u) + 1 BY <2>2
      <4>6. NamesUnique(v)
        <5> SUFFICES ASSUME NEW i \in 1 .. Len(u) + 1, NEW j \in 1 .. Len(u) + 1,
                            v[i].name = v[j].name
                     PROVE  i = j
          BY <4>3 DEF NamesUnique
        <5>1. \A k, l \in 1 .. Len(u) : u[k].name = u[l].name => k = l
          BY <2>2, <4>4 DEF NamesUnique, u
        <5> QED BY <4>2, <4>3, <4>5, <5>1
      <4>7. Kept(v, h)
        <5> SUFFICES ASSUME NamesUnique(s), NEW j \in 1 .. h, s[j].name \in Essential
                     PROVE  \E k \in 1 .. Len(v) : v[k] = s[j]
          OBVIOUS
        <5>1. Len(u) + 1 \in 1 .. Len(v) /\ 1 .. Len(u) \subseteq 1 .. Len(v) BY <2>2, <4>3
        <5>2. CASE j = h BY <4>3, <5>1, <5>2 DEF p
        <5>3. CASE j \in 1 .. h - 1
          <6>1. PICK k \in 1 .. Len(u) : u[k] = s[j] BY <4>4, <5>3
          <6> QED BY <4>3, <5>1, <6>1
        <5> QED BY <2>3, <5>2, <5>3
      <4>8. Len(v) \in 4 .. MaxParts /\ v[1].name = "bootloader" /\ v[2].name = "reserved"
        <5>1. 1 \in 1 .. Len(u) /\ 2 \in 1 .. Len(u) BY <4>4
        <5>2. Len(u) + 1 \in 4 .. MaxParts BY <3>2, <4>4, TableAssumption DEF u
        <5> QED BY <4>3, <4>4, <5>1, <5>2
      <4> HIDE DEF Kept
      <4>9. Done(v).parts = v BY DEF Done
      <4> QED BY <4>1, <4>6, <4>7, <4>8, <4>9
    <3> QED BY <3>1, <3>2
  <2> QED BY <2>5, <2>6, <2>7
<1>4. Good(f[n], n)
  <2> HIDE DEF Good
  <2>1. 0 \in H BY <1>0, <1>2
  <2>2. \A h \in 1 .. n : h - 1 \in H => h \in H BY <1>3
  <2> HIDE DEF H, n
  <2>3. \A h \in 0 .. n : h \in H BY <1>0, <2>1, <2>2, Induction
  <2>4. n \in H BY <1>0, <2>3
  <2> QED BY <2>4 DEF H
<1>5. f[n] \in S
  <2>1. n \in 0 .. n BY <1>0
  <2> HIDE DEF n, S
  <2> QED BY <1>1, <2>1
<1> HIDE DEF n
<1>6. f[n].ok BY <1>1
<1>7. f[n].parts \in Seq(Partition) BY <1>5
<1> QED BY <1>1, <1>4, <1>6, <1>7 DEF n

(***************************************************************************)
(* ept_ungap                                                               *)
(***************************************************************************)
Standard(s) ==
  /\ s \in Seq(Partition) /\ Len(s) >= 4 /\ NamesUnique(s)
  /\ s[1].name = "bootloader" /\ s[2].name = "reserved"

Gap(s) == Sub(OffsetReserved, s[1].size)
AtZero(s) == [s[1] EXCEPT !.offset = 0]
AtReserved(s) == [s[2] EXCEPT !.offset = OffsetReserved]
Others(s) == SortedDown(Picked(s, DOMAIN s \ {1, 2}))
Inside(s) ==
  BestFill(Others(s), Gap(s)) \union {k \in DOMAIN Others(s) : Others(s)[k].size = 0}
Before(s) == Chained(Picked(Others(s), Inside(s)), s[1].size)
Behind(s) == Chained(Picked(Others(s), DOMAIN Others(s) \ Inside(s)), End(AtReserved(s)))

(* The partitions that are laid out are those after the first two.         *)
LEMMA OthersIs ==
  ASSUME NEW s, Standard(s)
  PROVE  LET u == Others(s)
         IN /\ u \in Seq(Partition) /\ Len(u) = Len(s) - 2 /\ NamesUnique(u)
            /\ \A k \in 1 .. Len(u) : \E j \in 1 .. Len(s) : j > 2 /\ u[k] = s[j]
            /\ \A k \in 1 .. Len(u) : u[k].name # "bootloader" /\ u[k].name # "reserved"
            /\ \A j \in 1 .. Len(s) : j > 2 => \E k \in 1 .. Len(u) : u[k] = s[j]
            /\ \A k, l \in 1 .. Len(u) : k < l => u[k].size >= u[l].size
<1> DEFINE C == DOMAIN s \ {1, 2}
           n == Len(s)
           v == Picked(s, C)
           u == SortedDown(v)
<1>0. s \in Seq(Partition) /\ n \in Nat /\ n >= 4 /\ DOMAIN s = 1 .. n BY DEF Standard
<1>1. \A j \in 1 .. n : j \in C <=> j > 2 BY <1>0
<1>2. Len(v) = n - 2
  <2>1. Len(s) >= 2 BY <1>0
  <2> HIDE DEF n
  <2>2. Len(v) = Len(s) - 2 BY <1>0, <2>1, PickedTail
  <2> QED BY <2>2 DEF n
<1> HIDE DEF C
<1>3. v \in Seq(Partition) /\ \E f : Picks(f, v, s, n, C) BY <1>0, PickedIs
<1>4. PICK f : Picks(f, v, s, n, C) BY <1>3
<1> HIDE DEF v
<1>5. /\ f \in [1 .. Len(v) -> 1 .. n]
      /\ \A k \in 1 .. Len(v) : v[k] = s[f[k]] /\ f[k] > 2
      /\ \A k, l \in 1 .. Len(v) : k < l => f[k] < f[l]
      /\ \A j \in 1 .. n : j > 2 => \E k \in 1 .. Len(v) : f[k] = j
  BY <1>1, <1>4 DEF Picks
<1>6. Len(v) \in Nat /\ DOMAIN v = 1 .. Len(v) BY <1>3
<1>7. NamesUnique(v)
  <2> SUFFICES ASSUME NEW i \in 1 .. Len(v), NEW j \in 1 .. Len(v), v[i].name = v[j].name
               PROVE  i = j
    BY <1>6 DEF NamesUnique
  <2>1. f[i] = f[j] BY <1>0, <1>5 DEF NamesUnique, Standard
  <2>2. f[i] \in 1 .. n /\ f[j] \in 1 .. n BY <1>5
  <2>3. ~(f[i] < f[j]) /\ ~(f[j] < f[i]) BY <2>1, <2>2
  <2>4. ~(i < j) /\ ~(j < i) BY <1>5, <2>3
  <2> QED BY <2>4
<1>8. \A j \in 1 .. n : j > 2 => s[j].name # "bootloader" /\ s[j].name # "reserved"
  <2>1. 1 \in DOMAIN s /\ 2 \in DOMAIN s BY <1>0
  <2> QED BY <1>0, <2>1 DEF Standard, NamesUnique
<1>9. /\ u \in Seq(Partition) /\ Len(u) = Len(v)
      /\ \A k \in 1 .. Len(v) : \E j \in 1 .. Len(v) : u[k] = v[j]
      /\ \A j \in 1 .. Len(v) : \E k \in 1 .. Len(v) : u[k] = v[j]
      /\ NamesUnique(u)
      /\ \A k, l \in 1 .. Len(v) : k < l => u[k].size >= u[l].size
  BY <1>3, <1>7, SortedIs
<1> HIDE DEF u
<1>10. \A k \in 1 .. Len(u) : \E j \in 1 .. n : j > 2 /\ u[k] = s[j]
  <2> SUFFICES ASSUME NEW k \in 1 .. Len(u) PROVE \E j \in 1 .. n : j > 2 /\ u[k] = s[j]
    OBVIOUS
  <2>1. PICK l \in 1 .. Len(v) : u[k] = v[l] BY <1>9
  <2>2. f[l] \in 1 .. n BY <1>5
  <2> QED BY <1>5, <2>1, <2>2
<1>11. \A k \in 1 .. Len(u) : u[k].name # "bootloader" /\ u[k].name # "reserved"
  BY <1>8, <1>10
<1>12. \A j \in 1 .. n : j > 2 => \E k \in 1 .. Len(u) : u[k] = s[j]
  <2> SUFFICES ASSUME NEW j \in 1 .. n, j > 2 PROVE \E k \in 1 .. Len(u) : u[k] = s[j]
    OBVIOUS
  <2>1. PICK l \in 1 .. Len(v) : f[l] = j BY <1>5
  <2>2. PICK k \in 1 .. Len(v) : u[k] = v[l] BY <1>9
  <2> QED BY <1>5, <1>9, <2>1, <2>2
<1>13. u = Others(s) BY DEF Others, u, v, C
<1>14. Len(u) = n - 2 /\ \A k, l \in 1 .. Len(u) : k < l => u[k].size >= u[l].size
  BY <1>2, <1>9
<1> QED BY <1>9, <1>10, <1>11, <1>12, <1>13, <1>14, Zenon

(* What ept_ungap makes of a table that begins as the default one does.    *)
LEMMA UngappedForm ==
  ASSUME NEW s, Standard(s)
  PROVE  Ungapped(s) =
           IF Gap(s) = 0
             THEN [k \in DOMAIN s |->
                    [s[k] EXCEPT !.offset = IF k = 2 THEN OffsetReserved ELSE 0]]
             ELSE <<AtZero(s)>> \o Before(s) \o <<AtReserved(s)>> \o Behind(s)
<1>1. s \in Seq(Partition) /\ DOMAIN s = 1 .. Len(s) /\ 1 \in DOMAIN s /\ 2 \in DOMAIN s
      /\ Len(s) \in Nat
  BY DEF Standard
<1> DEFINE boot == CHOOSE i \in DOMAIN s : s[i].name = "bootloader"
           res == CHOOSE i \in DOMAIN s : s[i].name = "reserved"
<1>2. boot = 1 BY <1>1 DEF Standard, NamesUnique
<1>3. res = 2 BY <1>1 DEF Standard, NamesUnique
<1>4. Others(s) # <<>>
  <2>1. Len(Others(s)) = Len(s) - 2 BY OthersIs
  <2>2. Len(Others(s)) # 0 BY <1>1, <2>1 DEF Standard
  <2> QED BY <2>2
<1>5. AtZero(s).size = s[1].size BY <1>1 DEF AtZero, Partition
<1> DEFINE Form(b, r) ==
             LET bootloader == [s[b] EXCEPT !.offset = 0]
                 reserved == [s[r] EXCEPT !.offset = OffsetReserved]
                 sorted == SortedDown(Picked(s, DOMAIN s \ {b, r}))
                 gap == Sub(OffsetReserved, bootloader.size)
                 inside == BestFill(sorted, gap) \union {k \in DOMAIN sorted : sorted[k].size = 0}
             IN IF sorted = <<>> \/ gap = 0
                  THEN [k \in DOMAIN s |->
                         [s[k] EXCEPT !.offset = IF k = r THEN OffsetReserved ELSE 0]]
                  ELSE <<bootloader>> \o Chained(Picked(sorted, inside), bootloader.size)
                         \o <<reserved>>
                         \o Chained(Picked(sorted, DOMAIN sorted \ inside), End(reserved))
<1>6. Ungapped(s) = Form(boot, res) BY DEF Ungapped
<1> HIDE DEF boot, res, Form
<1>7. Ungapped(s) = Form(1, 2) BY <1>2, <1>3, <1>6
<1>8. Form(1, 2) =
        IF Others(s) = <<>> \/ Sub(OffsetReserved, AtZero(s).size) = 0
          THEN [k \in DOMAIN s |->
                 [s[k] EXCEPT !.offset = IF k = 2 THEN OffsetReserved ELSE 0]]
          ELSE <<AtZero(s)>>
                 \o Chained(Picked(Others(s), BestFill(Others(s), Sub(OffsetReserved, AtZero(s).size))
                                     \union {k \in DOMAIN Others(s) : Others(s)[k].size = 0}),
                            AtZero(s).size)
                 \o <<AtReserved(s)>>
                 \o Chained(Picked(Others(s), DOMAIN Others(s) \
                              (BestFill(Others(s), Sub(OffsetReserved, AtZero(s).size))
                                 \union {k \in DOMAIN Others(s) : Others(s)[k].size = 0})),
                            End(AtReserved(s)))
  BY Zenon DEF Form, Others, AtZero, AtReserved
<1> QED BY <1>4, <1>5, <1>7, <1>8, Zenon DEF Gap, Inside, Before, Behind

(* Two lists one after the other.                                          *)
LEMMA Joined ==
  ASSUME NEW S, NEW y \in Seq(S), NEW w \in Seq(S)
  PROVE  /\ y \o w \in Seq(S) /\ Len(y \o w) = Len(y) + Len(w)
         /\ \A k \in 1 .. Len(y) : (y \o w)[k] = y[k]
         /\ \A k \in 1 .. Len(w) : (y \o w)[Len(y) + k] = w[k]
<1>1. y \o w \in Seq(S) /\ Len(y \o w) = Len(y) + Len(w) OBVIOUS
<1>2. ASSUME NEW k \in 1 .. Len(y) PROVE (y \o w)[k] = y[k] OBVIOUS
<1>3. ASSUME NEW k \in 1 .. Len(w) PROVE (y \o w)[Len(y) + k] = w[k] OBVIOUS
<1> QED BY <1>1, <1>2, <1>3

(* A list put together of two partitions and two lists: who is where.      *)
Together(t, b, v, c, w) ==
  /\ t \in Seq(Partition) /\ Len(t) = Len(v) + Len(w) + 2 /\ Len(v) \in Nat /\ Len(w) \in Nat
  /\ t[1] = b /\ t[Len(v) + 2] = c
  /\ \A k \in 1 .. Len(v) : t[k + 1] = v[k]
  /\ \A k \in 1 .. Len(w) : t[Len(v) + 2 + k] = w[k]
  /\ \A k \in 1 .. Len(t) :
       \/ k = 1 \/ k = Len(v) + 2
       \/ \E l \in 1 .. Len(v) : k = l + 1
       \/ \E l \in 1 .. Len(w) : k = Len(v) + 2 + l

(* That is what the concatenation of the four is.                          *)
LEMMA Four ==
  ASSUME NEW b \in Partition, NEW c \in Partition, NEW v \in Seq(Partition), NEW w \in Seq(Partition)
  PROVE  Together(<<b>> \o v \o <<c>> \o w, b, v, c, w)
<1> DEFINE S == Partition
           t == <<b>> \o v \o <<c>> \o w
           x == <<b>> \o v
           y == x \o <<c>>
           m == Len(v)
           q == Len(w)
<1>0. b \in S /\ c \in S /\ v \in Seq(S) /\ w \in Seq(S) /\ t = <<b>> \o v \o <<c>> \o w
  OBVIOUS
<1> HIDE DEF S, t
<1>1. v \in Seq(S) /\ m \in Nat /\ q \in Nat /\ Len(<<b>>) = 1 /\ <<b>> \in Seq(S) /\ <<c>> \in Seq(S)
      /\ Len(<<c>>) = 1
  BY <1>0
<1>2. x \in Seq(S) /\ Len(x) = m + 1 /\ x[1] = b /\ \A k \in 1 .. m : x[k + 1] = v[k]
  BY <1>0
<1> HIDE DEF x
<1>3. y \in Seq(S) /\ Len(y) = m + 2 /\ y[m + 2] = c /\ \A k \in 1 .. m + 1 : y[k] = x[k]
  BY <1>0, <1>1, <1>2
<1> HIDE DEF y
<1>4. t = y \o w BY <1>0 DEF x, y
<1>5. t \in Seq(S) /\ Len(t) = m + 2 + q /\ (\A k \in 1 .. m + 2 : t[k] = y[k])
      /\ \A k \in 1 .. q : t[m + 2 + k] = w[k]
  <2>1. /\ t \in Seq(S) /\ Len(t) = Len(y) + Len(w)
        /\ \A k \in 1 .. Len(y) : t[k] = y[k]
        /\ \A k \in 1 .. Len(w) : t[Len(y) + k] = w[k]
    <3>1. y \in Seq(S) /\ w \in Seq(S) BY <1>0, <1>3
    <3>2. /\ y \o w \in Seq(S) /\ Len(y \o w) = Len(y) + Len(w)
          /\ \A k \in 1 .. Len(y) : (y \o w)[k] = y[k]
          /\ \A k \in 1 .. Len(w) : (y \o w)[Len(y) + k] = w[k]
      BY <3>1, Joined
    <3> QED BY <1>4, <3>2, Zenon
  <2> HIDE DEF m
  <2> QED BY <1>3, <2>1
<1> HIDE DEF m, q
<1>6. t[1] = b /\ t[m + 2] = c /\ \A k \in 1 .. m : t[k + 1] = v[k]
  <2>1. 1 \in 1 .. m + 1 /\ 1 \in 1 .. m + 2 /\ m + 2 \in 1 .. m + 2 BY <1>1
  <2>2. \A k \in 1 .. m : k + 1 \in 1 .. m + 1 /\ k + 1 \in 1 .. m + 2 BY <1>1
  <2> QED BY <1>2, <1>3, <1>5, <2>1, <2>2
<1>7. ASSUME NEW k \in 1 .. m + 2 + q
      PROVE  k = 1 \/ k = m + 2 \/ (\E l \in 1 .. m : k = l + 1) \/ \E l \in 1 .. q : k = m + 2 + l
  <2>1. CASE k \in 2 .. m + 1
    <3>1. k - 1 \in 1 .. m /\ k = (k - 1) + 1 BY <1>1, <2>1
    <3> QED BY <3>1
  <2>2. CASE k > m + 2
    <3>1. k - (m + 2) \in 1 .. q /\ k = m + 2 + (k - (m + 2)) BY <1>1, <2>2
    <3> QED BY <3>1
  <2> QED BY <1>1, <2>1, <2>2
<1>8. Len(t) = m + q + 2 BY <1>1, <1>5
<1>9. \A k \in 1 .. Len(t) :
        k = 1 \/ k = m + 2 \/ (\E l \in 1 .. m : k = l + 1) \/ \E l \in 1 .. q : k = m + 2 + l
  BY <1>5, <1>7
<1> HIDE DEF m, q
<1> QED BY <1>1, <1>5, <1>6, <1>8, <1>9 DEF Together, m, q, S, t

(* What is picked and laid out keeps its name, size and mask: f takes each *)
(* of the new places to where the partition was.                           *)
Same(p, q) == p.name = q.name /\ p.size = q.size /\ p.mask = q.mask

Places(f, v, u, chosen) ==
  /\ f \in [1 .. Len(v) -> 1 .. Len(u)]
  /\ \A k \in 1 .. Len(v) : Same(v[k], u[f[k]]) /\ f[k] \in chosen
  /\ \A k, l \in 1 .. Len(v) : k < l => f[k] < f[l]
  /\ \A j \in 1 .. Len(u) : j \in chosen => \E k \in 1 .. Len(v) : f[k] = j

(* What is picked and laid end to end.                                     *)
LEMMA LaidIs ==
  ASSUME NEW u \in Seq(Partition), NEW chosen, NEW o \in Bytes
  PROVE  LET v == Chained(Picked(u, chosen), o)
         IN /\ v \in Seq(Partition) /\ Len(v) = Len(Picked(u, chosen))
            /\ \A k \in 1 .. Len(v) : v[k].offset = IF k = 1 THEN o ELSE End(v[k - 1])
            /\ \E f : Places(f, v, u, chosen)
<1> DEFINE p == Picked(u, chosen)
           v == Chained(p, o)
<1>1. p \in Seq(Partition) /\ \E f : Picks(f, p, u, Len(u), chosen) BY PickedIs
<1>2. PICK f : Picks(f, p, u, Len(u), chosen) BY <1>1
<1> HIDE DEF p
<1>3. Chains(v, p, o) BY <1>1, ChainedIs
<1> HIDE DEF v
<1>4. Places(f, v, u, chosen) BY <1>2, <1>3 DEF Picks, Chains, Places, Same
<1>5. /\ v \in Seq(Partition) /\ Len(v) = Len(p)
      /\ \A k \in 1 .. Len(v) : v[k].offset = IF k = 1 THEN o ELSE End(v[k - 1])
  BY <1>3 DEF Chains
<1>6. v = Chained(Picked(u, chosen), o) /\ p = Picked(u, chosen) BY DEF v, p
<1> QED BY <1>4, <1>5, <1>6, Zenon

(* The ends of two partitions are numbers of bytes, as the places are.     *)
LEMMA StandardParts ==
  ASSUME NEW s, Standard(s)
  PROVE  /\ s \in Seq(Partition) /\ Len(s) \in Nat /\ DOMAIN s = 1 .. Len(s)
         /\ 1 \in 1 .. Len(s) /\ 2 \in 1 .. Len(s)
         /\ AtZero(s) \in Partition /\ Same(AtZero(s), s[1]) /\ AtZero(s).offset = 0
         /\ AtReserved(s) \in Partition /\ Same(AtReserved(s), s[2])
         /\ AtReserved(s).offset = OffsetReserved
         /\ s[1].size \in Bytes /\ s[2].size \in Bytes /\ End(AtReserved(s)) \in Bytes
         /\ 0 \in Bytes /\ OffsetReserved \in Bytes
<1>1. s \in Seq(Partition) /\ Len(s) \in Nat /\ DOMAIN s = 1 .. Len(s)
      /\ 1 \in 1 .. Len(s) /\ 2 \in 1 .. Len(s)
  BY DEF Standard
<1>2. s[1] \in Partition /\ s[2] \in Partition BY <1>1
<1>3. 0 \in Bytes /\ OffsetReserved \in Bytes BY TableAssumption, EptEditAssumption DEF Bytes
<1>4. AtZero(s) \in Partition /\ Same(AtZero(s), s[1]) /\ AtZero(s).offset = 0
  BY <1>2, <1>3 DEF AtZero, Partition, Same
<1>5. AtReserved(s) \in Partition /\ Same(AtReserved(s), s[2])
      /\ AtReserved(s).offset = OffsetReserved
  BY <1>2, <1>3 DEF AtReserved, Partition, Same
<1>6. s[1].size \in Bytes /\ s[2].size \in Bytes BY <1>2 DEF Partition
<1>7. End(AtReserved(s)) \in Bytes
  <2>1. AtReserved(s).offset \in Int /\ AtReserved(s).size \in Int
    BY <1>3, <1>5, <1>6, TableAssumption DEF Same, Bytes
  <2> QED BY <2>1, Wrapping DEF End
<1> QED BY <1>1, <1>3, <1>4, <1>5, <1>6, <1>7

(* Nobody is lost and nobody renamed, wherever ept_ungap puts them.        *)
LEMMA UngappedKeeps ==
  ASSUME NEW s, Standard(s)
  PROVE  LET t == Ungapped(s)
         IN /\ t \in Seq(Partition) /\ Len(t) = Len(s) /\ NamesUnique(t)
            /\ \A j \in 1 .. Len(s) : \E k \in 1 .. Len(t) : Same(t[k], s[j])
<1> DEFINE n == Len(s)
           b == AtZero(s)
           c == AtReserved(s)
           v == Before(s)
           w == Behind(s)
           u == Others(s)
           C == Inside(s)
           D == DOMAIN u \ C
           t == Ungapped(s)
           Kept == /\ t \in Seq(Partition) /\ Len(t) = n /\ NamesUnique(t)
                   /\ \A j \in 1 .. n : \E k \in 1 .. Len(t) : Same(t[k], s[j])
<1>0. /\ s \in Seq(Partition) /\ n \in Nat /\ DOMAIN s = 1 .. n /\ 1 \in 1 .. n /\ 2 \in 1 .. n
      /\ b \in Partition /\ Same(b, s[1]) /\ c \in Partition /\ Same(c, s[2])
      /\ s[1].size \in Bytes /\ End(c) \in Bytes /\ 0 \in Bytes /\ OffsetReserved \in Bytes
      /\ s[1].name = "bootloader" /\ s[2].name = "reserved" /\ NamesUnique(s)
  BY StandardParts DEF Standard
<1>1. ASSUME Gap(s) = 0 PROVE Kept
  <2> DEFINE At(k) == [s[k] EXCEPT !.offset = IF k = 2 THEN OffsetReserved ELSE 0]
             x == [k \in 1 .. n |-> At(k)]
  <2>1. \A k \in 1 .. n : At(k) \in Partition /\ Same(At(k), s[k])
    <3>1. \A k \in 1 .. n : s[k] \in Partition BY <1>0
    <3> QED BY <1>0, <3>1 DEF Partition, Same
  <2>2. t = x BY <1>0, <1>1, UngappedForm
  <2> HIDE DEF At
  <2>3. x \in Seq(Partition) /\ Len(x) = n /\ DOMAIN x = 1 .. n /\ \A k \in 1 .. n : x[k] = At(k)
    BY <1>0, <2>1
  <2> HIDE DEF x
  <2>4. NamesUnique(x) BY <1>0, <2>1, <2>3 DEF NamesUnique, Same
  <2> HIDE DEF t
  <2> QED BY <2>1, <2>2, <2>3, <2>4
<1>2. ASSUME Gap(s) # 0 PROVE Kept
  <2>1. t = <<b>> \o v \o <<c>> \o w BY <1>2, UngappedForm
  <2>2. /\ u \in Seq(Partition) /\ Len(u) = n - 2 /\ NamesUnique(u)
        /\ \A k \in 1 .. Len(u) : u[k].name # "bootloader" /\ u[k].name # "reserved"
        /\ \A j \in 1 .. n : j > 2 => \E k \in 1 .. Len(u) : u[k] = s[j]
    BY OthersIs
  <2>3. v = Chained(Picked(u, C), s[1].size) /\ w = Chained(Picked(u, D), End(c))
    BY DEF Before, Behind
  <2> HIDE DEF t, v, w, b, c, u, C
  <2>4. DOMAIN u = 1 .. Len(u) /\ Len(u) \in Nat BY <2>2
  <2>5. \A j \in 1 .. Len(u) : j \in C <=> j \notin D BY <2>4
  <2> HIDE DEF D, n
  <2>6. /\ v \in Seq(Partition) /\ Len(v) = Len(Picked(u, C)) /\ \E f : Places(f, v, u, C)
    BY <1>0, <2>2, <2>3, LaidIs
  <2>7. /\ w \in Seq(Partition) /\ Len(w) = Len(Picked(u, D)) /\ \E f : Places(f, w, u, D)
    BY <1>0, <2>2, <2>3, LaidIs
  <2>8. Len(v) + Len(w) = n - 2 BY <2>2, <2>5, <2>6, <2>7, PickedSplits
  <2>9. PICK f : Places(f, v, u, C) BY <2>6
  <2>10. PICK g : Places(g, w, u, D) BY <2>7
  <2>11. /\ t \in Seq(Partition) /\ Len(t) = Len(v) + Len(w) + 2 /\ Len(v) \in Nat /\ Len(w) \in Nat
         /\ t[1] = b /\ t[Len(v) + 2] = c
         /\ \A k \in 1 .. Len(v) : t[k + 1] = v[k]
         /\ \A k \in 1 .. Len(w) : t[Len(v) + 2 + k] = w[k]
         /\ \A k \in 1 .. Len(t) :
              \/ k = 1 \/ k = Len(v) + 2
              \/ \E l \in 1 .. Len(v) : k = l + 1
              \/ \E l \in 1 .. Len(w) : k = Len(v) + 2 + l
    <3>1. b \in Partition /\ c \in Partition /\ v \in Seq(Partition) /\ w \in Seq(Partition)
      BY <1>0, <2>6, <2>7
    <3>2. Together(t, b, v, c, w) BY <2>1, <3>1, Four
    <3> QED BY <3>2 DEF Together
  <2>12. Len(t) = n BY <1>0, <2>8, <2>11
  <2>13. b.name = "bootloader" /\ c.name = "reserved" BY <1>0 DEF Same
  <2>14. \A k \in 1 .. Len(v) : f[k] \in 1 .. Len(u) /\ v[k].name = u[f[k]].name /\ f[k] \in C
    BY <2>9 DEF Places, Same
  <2>15. \A k \in 1 .. Len(w) : g[k] \in 1 .. Len(u) /\ w[k].name = u[g[k]].name /\ g[k] \in D
    BY <2>10 DEF Places, Same
  <2>16. \A k, l \in 1 .. Len(u) : u[k].name = u[l].name => k = l BY <2>2, <2>4 DEF NamesUnique
  <2>17. \A k, l \in 1 .. Len(v) : v[k].name = v[l].name => k = l
    <3> SUFFICES ASSUME NEW k \in 1 .. Len(v), NEW l \in 1 .. Len(v), v[k].name = v[l].name
                 PROVE  k = l
      OBVIOUS
    <3>1. f[k] = f[l] BY <2>14, <2>16
    <3>2. f[k] \in Int /\ f[l] \in Int BY <2>14
    <3>3. ~(k < l) /\ ~(l < k) BY <2>9, <3>1, <3>2 DEF Places
    <3> QED BY <3>3
  <2>18. \A k, l \in 1 .. Len(w) : w[k].name = w[l].name => k = l
    <3> SUFFICES ASSUME NEW k \in 1 .. Len(w), NEW l \in 1 .. Len(w), w[k].name = w[l].name
                 PROVE  k = l
      OBVIOUS
    <3>1. g[k] = g[l] BY <2>15, <2>16
    <3>2. g[k] \in Int /\ g[l] \in Int BY <2>15
    <3>3. ~(k < l) /\ ~(l < k) BY <2>10, <3>1, <3>2 DEF Places
    <3> QED BY <3>3
  <2>19. \A k \in 1 .. Len(v), l \in 1 .. Len(w) : v[k].name # w[l].name
    <3> SUFFICES ASSUME NEW k \in 1 .. Len(v), NEW l \in 1 .. Len(w) PROVE v[k].name # w[l].name
      OBVIOUS
    <3>1. f[k] \in 1 .. Len(u) /\ f[k] \in C /\ v[k].name = u[f[k]].name BY <2>14
    <3>2. g[l] \in 1 .. Len(u) /\ g[l] \in D /\ w[l].name = u[g[l]].name BY <2>15
    <3>3. f[k] # g[l] BY <2>5, <3>1, <3>2
    <3> QED BY <2>16, <3>1, <3>2, <3>3
  <2>20. /\ \A k \in 1 .. Len(v) : v[k].name # b.name /\ v[k].name # c.name
         /\ \A k \in 1 .. Len(w) : w[k].name # b.name /\ w[k].name # c.name
         /\ b.name # c.name
    BY <2>2, <2>13, <2>14, <2>15
  <2>21. NamesUnique(t)
    <3> DEFINE Where(k) ==
                 \/ k = 1 /\ t[k] = b
                 \/ k = Len(v) + 2 /\ t[k] = c
                 \/ \E l \in 1 .. Len(v) : k = l + 1 /\ t[k] = v[l]
                 \/ \E l \in 1 .. Len(w) : k = Len(v) + 2 + l /\ t[k] = w[l]
    <3>1. ASSUME NEW k \in 1 .. Len(t) PROVE Where(k)
      <4>1. \/ k = 1 \/ k = Len(v) + 2
            \/ \E l \in 1 .. Len(v) : k = l + 1
            \/ \E l \in 1 .. Len(w) : k = Len(v) + 2 + l
        BY <2>11
      <4>2. CASE \E l \in 1 .. Len(v) : k = l + 1 BY <2>11, <4>2
      <4>3. CASE \E l \in 1 .. Len(w) : k = Len(v) + 2 + l
        <5>1. PICK l \in 1 .. Len(w) : k = Len(v) + 2 + l BY <4>3
        <5>2. t[k] = w[l] BY <2>11, <5>1
        <5> QED BY <5>1, <5>2
      <4>4. (k = 1 => t[k] = b) /\ (k = Len(v) + 2 => t[k] = c) BY <2>11
      <4> QED BY <4>1, <4>2, <4>3, <4>4
    <3> SUFFICES ASSUME NEW i \in 1 .. Len(t), NEW j \in 1 .. Len(t), t[i].name = t[j].name
                 PROVE  i = j
      <4>1. DOMAIN t = 1 .. Len(t) BY <2>11
      <4> QED BY <4>1 DEF NamesUnique
    <3>2. Where(i) /\ Where(j) BY <3>1
    <3>3. CASE i = 1 /\ t[i] = b BY <2>20, <3>2, <3>3
    <3>4. CASE i = Len(v) + 2 /\ t[i] = c BY <2>20, <3>2, <3>4
    <3>5. CASE \E l \in 1 .. Len(v) : i = l + 1 /\ t[i] = v[l]
      <4>1. PICK l \in 1 .. Len(v) : i = l + 1 /\ t[i] = v[l] BY <3>5
      <4> QED BY <2>17, <2>19, <2>20, <3>2, <4>1
    <3>6. CASE \E l \in 1 .. Len(w) : i = Len(v) + 2 + l /\ t[i] = w[l]
      <4>1. PICK l \in 1 .. Len(w) : i = Len(v) + 2 + l /\ t[i] = w[l] BY <3>6
      <4> QED BY <2>18, <2>19, <2>20, <3>2, <4>1
    <3> QED BY <3>2, <3>3, <3>4, <3>5, <3>6
  <2>22. ASSUME NEW j \in 1 .. n PROVE \E k \in 1 .. Len(t) : Same(t[k], s[j])
    <3>1. CASE j = 1
      <4>1. 1 \in 1 .. Len(t) BY <1>0, <2>12
      <4> QED BY <1>0, <2>11, <3>1, <4>1
    <3>2. CASE j = 2
      <4>1. Len(v) + 2 \in 1 .. Len(t) BY <2>11
      <4> QED BY <1>0, <2>11, <3>2, <4>1
    <3>3. CASE j > 2
      <4>1. PICK l \in 1 .. Len(u) : u[l] = s[j] BY <2>2, <3>3
      <4>2. CASE l \in C
        <5>1. PICK k \in 1 .. Len(v) : f[k] = l BY <2>9, <4>2 DEF Places
        <5>2. Same(v[k], s[j]) BY <2>9, <4>1, <5>1 DEF Places
        <5>3. k + 1 \in 1 .. Len(t) /\ t[k + 1] = v[k] BY <2>11
        <5> QED BY <5>2, <5>3
      <4>3. CASE l \in D
        <5>1. PICK k \in 1 .. Len(w) : g[k] = l BY <2>10, <4>3 DEF Places
        <5>2. Same(w[k], s[j]) BY <2>10, <4>1, <5>1 DEF Places
        <5>3. Len(v) + 2 + k \in 1 .. Len(t) /\ t[Len(v) + 2 + k] = w[k] BY <2>11
        <5> QED BY <5>2, <5>3
      <4> QED BY <2>5, <4>2, <4>3
    <3> QED BY <1>0, <3>1, <3>2, <3>3
  <2> QED BY <2>11, <2>12, <2>21, <2>22
<1>3. Kept BY <1>1, <1>2
<1> QED BY <1>3

(* The partitions laid out before reserved end where the fill says: what   *)
(* it has left is what is free behind them.                                *)
Filling(u, gap, start, left, taken, v, o, f) ==
  /\ u \in Seq(Partition) /\ v \in Seq(Partition)
  /\ o \in Nat /\ gap \in Nat /\ o + gap < Word /\ start \in Nat
  /\ Leaves(left, taken, u, gap, start)
  /\ Places(f, v, u, taken \union {h \in 1 .. Len(u) : u[h].size = 0})
  /\ \A k \in 1 .. Len(v) : v[k].offset = IF k = 1 THEN o ELSE End(v[k - 1])

Filled(u, gap, left, v, o, f) ==
  /\ \A k \in 1 .. Len(v) :
       /\ f[k] \in 1 .. Len(u) /\ left[f[k]] \in 0 .. gap
       /\ v[k].offset + v[k].size = o + gap - left[f[k]]
       /\ k > 1 => v[k].offset = v[k - 1].offset + v[k - 1].size
  /\ left[Len(u)] = IF Len(v) = 0 THEN gap ELSE left[f[Len(v)]]

(* Each partition laid out there ends where the fill says.                 *)
LEMMA FilledEnds ==
  ASSUME NEW u, NEW gap, NEW start, NEW left, NEW taken, NEW v, NEW o, NEW f,
         Filling(u, gap, start, left, taken, v, o, f)
  PROVE  Filled(u, gap, left, v, o, f)
<1> DEFINE C == taken \union {h \in 1 .. Len(u) : u[h].size = 0}
<1> /\ u \in Seq(Partition) /\ v \in Seq(Partition)
    /\ o \in Nat /\ gap \in Nat /\ o + gap < Word /\ start \in Nat
    /\ Leaves(left, taken, u, gap, start)
    /\ Places(f, v, u, C)
    /\ \A k \in 1 .. Len(v) : v[k].offset = IF k = 1 THEN o ELSE End(v[k - 1])
  BY DEF Filling
<1> \A h \in 1 .. Len(u) : h \in C <=> h \in taken \/ u[h].size = 0 OBVIOUS
<1> HIDE DEF C
<1> DEFINE n == Len(u)
           m == Len(v)
           F(k) == IF k = 0 THEN 0 ELSE f[k]
           N(k) == IF k = m THEN n ELSE f[k + 1] - 1
<1>0. n \in Nat /\ m \in Nat OBVIOUS
<1>1. /\ f \in [1 .. m -> 1 .. n]
      /\ \A k \in 1 .. m : v[k].size = u[f[k]].size /\ f[k] \in C
      /\ \A k, l \in 1 .. m : k < l => f[k] < f[l]
      /\ \A j \in 1 .. n : j \in C => \E k \in 1 .. m : f[k] = j
  BY DEF Places, Same
<1>2. left[0] = gap /\ \A h \in 0 .. n : left[h] \in Nat BY DEF Leaves
<1>3. \A h \in 1 .. n : u[h].size \in Nat BY SizesNat
<1> HIDE DEF n, m
<1>4. \A k \in 1 .. m : f[k] \in 1 .. n BY <1>1
<1>5. \A k \in 0 .. m : k = 0 \/ k \in 1 .. m BY <1>0
<1>6. \A k \in 0 .. m : k = m \/ k + 1 \in 1 .. m BY <1>0
<1>7. ASSUME NEW k \in 0 .. m PROVE left[N(k)] = left[F(k)] /\ F(k) \in 0 .. n
  <2>1. F(k) \in 0 .. n BY <1>0, <1>4, <1>5
  <2>2. N(k) \in 0 .. n /\ F(k) <= N(k)
    <3>1. CASE k = m BY <1>0, <2>1, <3>1
    <3>2. CASE k # m /\ k = 0
      <4>1. f[k + 1] \in 1 .. n BY <1>4, <1>6, <3>2
      <4> QED BY <1>0, <3>2, <4>1
    <3>3. CASE k # m /\ k # 0
      <4>1. f[k + 1] \in 1 .. n /\ f[k] \in 1 .. n BY <1>4, <1>5, <1>6, <3>3
      <4>2. f[k] < f[k + 1] BY <1>0, <1>1, <1>5, <1>6, <3>3
      <4> QED BY <1>0, <3>3, <4>1, <4>2
    <3> QED BY <3>1, <3>2, <3>3
  <2>3. ASSUME NEW h \in F(k) + 1 .. N(k) PROVE h \in 1 .. n /\ h \notin C
    <3>1. h \in 1 .. n /\ h > F(k) /\ h <= N(k) BY <1>0, <2>1, <2>2
    <3>2. ASSUME h \in C PROVE FALSE
      <4>1. PICK j \in 1 .. m : f[j] = h BY <1>1, <3>1, <3>2
      <4>2. j > k
        <5> SUFFICES ASSUME j <= k PROVE FALSE BY <1>0
        <5>1. k \in 1 .. m /\ k # 0 BY <1>0, <1>5
        <5>2. f[j] <= f[k] BY <1>1, <1>4, <5>1
        <5>3. f[j] \in 1 .. n /\ f[k] \in 1 .. n BY <1>4, <5>1
        <5>4. f[j] > f[k] BY <3>1, <4>1, <5>1
        <5> QED BY <5>2, <5>3, <5>4
      <4>3. k # m BY <1>0, <4>2
      <4>4. k + 1 \in 1 .. m /\ (k + 1 = j \/ k + 1 < j) BY <1>0, <1>6, <4>2, <4>3
      <4>5. f[k + 1] <= f[j] BY <1>1, <1>4, <4>4
      <4>6. f[j] <= f[k + 1] - 1 BY <3>1, <4>1, <4>3
      <4>7. f[j] \in 1 .. n /\ f[k + 1] \in 1 .. n BY <1>4, <4>4
      <4> QED BY <4>5, <4>6, <4>7
    <3> QED BY <3>1, <3>2
  <2> HIDE DEF F, N
  <2>4. \A h \in F(k) + 1 .. N(k) : h \in taken => u[h].size = 0 BY <2>3 DEF n
  <2> DEFINE a == F(k)
             c == N(k)
  <2>5. /\ a \in 0 .. Len(u) /\ c \in 0 .. Len(u) /\ a <= c
        /\ \A h \in a + 1 .. c : h \in taken => u[h].size = 0
    BY <2>1, <2>2, <2>4 DEF n
  <2> HIDE DEF a, c
  <2>6. u \in Seq(Partition) /\ gap \in Nat /\ start \in Nat /\ Leaves(left, taken, u, gap, start)
    OBVIOUS
  <2>7. left[c] = left[a]
    <3> HIDE DEF n, m
    <3> QED BY <2>5, <2>6, LeftSteady
  <2> QED BY <2>1, <2>7 DEF a, c
<1> DEFINE Ends(k) ==
             /\ left[F(k)] \in 0 .. gap
             /\ k # 0 => v[k].offset + v[k].size = o + gap - left[f[k]]
             /\ k > 1 => v[k].offset = v[k - 1].offset + v[k - 1].size
           H == {k \in 0 .. m : Ends(k)}
<1>8. 0 \in H BY <1>0, <1>2
<1>9. ASSUME NEW k \in 1 .. m, k - 1 \in H PROVE k \in H
  <2>1. /\ k - 1 \in 0 .. m /\ k \in 0 .. m /\ k - 1 # m /\ (k - 1) + 1 = k /\ k # 0 BY <1>0
  <2>2. f[k] \in 1 .. n BY <1>4
  <2>3. left[f[k] - 1] = left[F(k - 1)] BY <1>7, <2>1
  <2>4. left[F(k - 1)] \in 0 .. gap BY <1>9
  <2> DEFINE before == left[F(k - 1)]
             after == left[f[k]]
             size == v[k].size
  <2>5. after \in Nat /\ size \in Nat /\ size = u[f[k]].size /\ after = before - size
    <3>1. f[k] \in 1 .. Len(u) BY <2>2 DEF n
    <3>2. /\ after \in Nat /\ u[f[k]].size \in Nat
          /\ f[k] \in taken => after = left[f[k] - 1] - u[f[k]].size
          /\ f[k] \notin taken => after = left[f[k] - 1]
      <4> DEFINE c == f[k]
      <4>1. c \in 1 .. Len(u) BY <3>1
      <4> HIDE DEF c
      <4>2. /\ left[c] \in Nat /\ u[c].size \in Nat
            /\ c \in taken => left[c] = left[c - 1] - u[c].size
            /\ c \notin taken => left[c] = left[c - 1]
        BY <4>1, LeavesAt
      <4> QED BY <4>2 DEF c
    <3>3. size = u[f[k]].size /\ f[k] \in C BY <1>1
    <3>4. f[k] \notin taken => u[f[k]].size = 0 BY <3>1, <3>3
    <3>5. before \in Nat BY <2>4
    <3> HIDE DEF before, after, size
    <3>6. f[k] \notin taken => after = before - size
      BY <2>3, <3>2, <3>3, <3>4, <3>5 DEF before
    <3>7. f[k] \in taken => after = before - size BY <2>3, <3>2, <3>3 DEF before
    <3> QED BY <3>2, <3>3, <3>6, <3>7
  <2>6. v[k].offset = o + gap - before /\ (k > 1 => v[k].offset = v[k - 1].offset + v[k - 1].size)
    <3>1. CASE k = 1
      <4>1. before = gap BY <1>2, <3>1
      <4>2. v[k].offset = o BY <3>1 DEF m
      <4> HIDE DEF before
      <4> QED BY <3>1, <4>1, <4>2
    <3>2. CASE k # 1
      <4>1. k - 1 # 0 /\ k - 1 \in 1 .. m /\ k > 1 BY <1>0, <3>2
      <4>2. before = left[f[k - 1]] BY <4>1
      <4>3. v[k - 1].offset + v[k - 1].size = o + gap - before BY <1>9, <4>1, <4>2
      <4>4. v[k].offset = End(v[k - 1]) BY <3>2 DEF m
      <4>5. v[k - 1] \in Partition BY <4>1 DEF m
      <4>6. v[k - 1].offset \in Int /\ v[k - 1].size \in Int
        <5>1. v[k - 1].offset \in Bytes /\ v[k - 1].size \in Bytes BY <4>5 DEF Partition
        <5> QED BY <5>1, TableAssumption DEF Bytes
      <4>7. before \in Int /\ before >= 0 /\ before <= gap BY <2>4
      <4> HIDE DEF before
      <4>8. o + gap - before \in Bytes BY <4>7, TableAssumption DEF Bytes
      <4>9. End(v[k - 1]) = v[k - 1].offset + v[k - 1].size
        BY <4>3, <4>6, <4>8, Wrapping DEF End
      <4> QED BY <4>3, <4>4, <4>9
    <3> QED BY <3>1, <3>2
  <2>7. before \in Int /\ before >= 0 /\ before <= gap BY <2>4
  <2>8. F(k) = f[k] BY <2>1
  <2> HIDE DEF before, after, size
  <2>9. after \in 0 .. gap /\ v[k].offset + size = o + gap - after
    <3> DEFINE offset == v[k].offset
    <3>1. offset = o + gap - before BY <2>6
    <3> HIDE DEF offset
    <3>2. o \in Int /\ gap \in Int /\ after \in Int /\ size \in Int /\ before \in Int
      BY <2>5, <2>7
    <3>3. size >= 0 /\ after >= 0 /\ before <= gap BY <2>5, <2>7
    <3>4. after = before - size BY <2>5
    <3>5. after <= gap BY <3>2, <3>3, <3>4
    <3>6. o + (gap - before) \in Int /\ o + gap - before = o + (gap - before) BY <3>2
    <3>7. offset + size = o + (gap - after)
      <4> SUFFICES o + (gap - before) + size = o + (gap - (before - size)) BY <3>1, <3>4, <3>6
      <4> QED BY <3>2
    <3> QED BY <3>2, <3>3, <3>5, <3>7 DEF offset
  <2>10. Ends(k) BY <2>6, <2>8, <2>9 DEF after, size
  <2> QED BY <2>1, <2>10
<1> HIDE DEF H
<1>10. \A k \in 0 .. m : k \in H BY <1>0, <1>8, <1>9, Induction
<1>11. ASSUME NEW k \in 1 .. m
       PROVE  /\ f[k] \in 1 .. n /\ left[f[k]] \in 0 .. gap
              /\ v[k].offset + v[k].size = o + gap - left[f[k]]
              /\ k > 1 => v[k].offset = v[k - 1].offset + v[k - 1].size
  <2>1. k \in 0 .. m /\ k # 0 BY <1>0
  <2>2. k \in H BY <1>10, <2>1
  <2> QED BY <1>4, <2>1, <2>2 DEF H
<1>12. left[n] = IF m = 0 THEN gap ELSE left[f[m]]
  <2>1. m \in 0 .. m BY <1>0
  <2> QED BY <1>2, <1>7, <2>1
<1> QED BY <1>11, <1>12 DEF n, m, Filled

(* A list in which each partition ends before the next one begins has each *)
(* end before all that follow.                                             *)
LEMMA Ordered ==
  ASSUME NEW t \in Seq(Partition),
         \A k \in 1 .. Len(t) : k > 1 => t[k - 1].offset + t[k - 1].size <= t[k].offset
  PROVE  \A j, k \in 1 .. Len(t) : j # k => Apart(t[j], t[k])
<1> DEFINE n == Len(t)
           end(k) == t[k].offset + t[k].size
<1>0. n \in Nat OBVIOUS
<1>1. \A k \in 1 .. n : t[k].offset \in Nat /\ t[k].size \in Nat
  <2> SUFFICES ASSUME NEW k \in 1 .. n PROVE t[k].offset \in Nat /\ t[k].size \in Nat OBVIOUS
  <2>1. t[k] \in Partition OBVIOUS
  <2> QED BY <2>1, TableAssumption DEF Partition, Bytes
<1>2. \A k \in 1 .. n : k > 1 => end(k - 1) <= t[k].offset OBVIOUS
<1>3. \A k \in 1 .. n : end(k) \in Nat /\ t[k].offset <= end(k) BY <1>1
<1> HIDE DEF n
<1>4. ASSUME NEW j \in 1 .. n, NEW k \in 1 .. n, j < k PROVE end(j) <= t[k].offset
  <2> DEFINE H == {h \in 0 .. n : h \in 1 .. n /\ h > j => end(j) <= t[h].offset}
  <2> HIDE DEF end
  <2>1. 0 \in H BY <1>0
  <2>2. ASSUME NEW h \in 1 .. n, h - 1 \in H PROVE h \in H
    <3>1. h \in 0 .. n BY <1>0
    <3>2. CASE ~(h > j) BY <3>1, <3>2
    <3>3. CASE h > j
      <4>1. h - 1 \in 1 .. n /\ h > 1 /\ (h - 1 = j \/ h - 1 > j) BY <1>0, <3>3
      <4>2. end(h - 1) <= t[h].offset BY <1>2, <4>1
      <4>3. /\ end(j) \in Nat /\ end(h - 1) \in Nat /\ t[h].offset \in Nat /\ t[h - 1].offset \in Nat
            /\ t[h - 1].offset <= end(h - 1)
        BY <1>1, <1>3, <4>1
      <4>4. CASE h - 1 = j BY <3>1, <4>2, <4>4
      <4>5. CASE h - 1 > j
        <5>1. end(j) <= t[h - 1].offset BY <2>2, <4>1, <4>5
        <5>2. end(j) <= t[h].offset BY <4>2, <4>3, <5>1
        <5> QED BY <3>1, <5>2
      <4> QED BY <4>1, <4>4, <4>5
    <3> QED BY <3>2, <3>3
  <2> HIDE DEF H
  <2>3. \A h \in 0 .. n : h \in H BY <1>0, <2>1, <2>2, Induction
  <2>4. k \in 0 .. n BY <1>0
  <2> QED BY <1>4, <2>3, <2>4 DEF H
<1> SUFFICES ASSUME NEW j \in 1 .. n, NEW k \in 1 .. n, j # k PROVE Apart(t[j], t[k])
  BY DEF n
<1>5. j < k \/ k < j BY <1>0
<1> QED BY <1>4, <1>5 DEF Apart

(* ept_ungap of a table that begins as the default one does: what is laid  *)
(* out before reserved ends before it, each behind the other, and what is  *)
(* put behind it would not have fitted in what is free before it.          *)
LaidOut(t, r) ==
  /\ r \in 2 .. Len(t)
  /\ t[r].name = "reserved" /\ t[r].offset = OffsetReserved
  /\ \A k \in 2 .. r : t[k - 1].offset + t[k - 1].size <= t[k].offset
  /\ \A k \in r + 1 .. Len(t) :
       /\ t[k].offset = End(t[k - 1])
       /\ t[k].size > OffsetReserved - (t[r - 1].offset + t[r - 1].size)

(* What ept_ungap returns is laid out like that.                           *)
LEMMA UngappedIs ==
  ASSUME NEW s, Standard(s), s[1].size < OffsetReserved
  PROVE  \E r : LaidOut(Ungapped(s), r)
<1> DEFINE b == AtZero(s)
           c == AtReserved(s)
           v == Before(s)
           w == Behind(s)
           u == Others(s)
           C == Inside(s)
           D == DOMAIN u \ C
           gap == Gap(s)
           t == Ungapped(s)
           o == s[1].size
           taken == BestFill(u, gap)
<1>1. /\ b \in Partition /\ b.size = o /\ b.offset = 0
      /\ c \in Partition /\ c.name = "reserved" /\ c.offset = OffsetReserved
      /\ o \in Bytes /\ End(c) \in Bytes /\ OffsetReserved \in Bytes
  BY StandardParts DEF Standard, Same
<1>2. o \in Nat /\ OffsetReserved \in Nat /\ OffsetReserved < Word /\ o < OffsetReserved
  BY <1>1, TableAssumption DEF Bytes
<1>3. gap = OffsetReserved - o
  <2>1. OffsetReserved - o \in Bytes BY <1>2, TableAssumption DEF Bytes
  <2>2. Sub(OffsetReserved, o) = OffsetReserved - o BY <1>2, <2>1, Wrapping
  <2> QED BY <2>2 DEF Gap
<1>4. /\ u \in Seq(Partition) /\ DOMAIN u = 1 .. Len(u)
      /\ \A k, l \in 1 .. Len(u) : k < l => u[k].size >= u[l].size
  BY OthersIs
<1>5. v = Chained(Picked(u, C), o) /\ w = Chained(Picked(u, D), End(c))
  BY DEF Before, Behind
<1>6. C = taken \union {k \in DOMAIN u : u[k].size = 0} BY DEF Inside
<1>7. gap # 0 BY <1>2, <1>3
<1>8. t = <<b>> \o v \o <<c>> \o w BY <1>7, UngappedForm
<1> HIDE DEF b, c, v, w, u, C, gap, t, o
<1>9. gap \in Nat /\ gap # 0 /\ o + gap = OffsetReserved BY <1>2, <1>3
<1>10. PICK start \in 1 .. Len(u) + 1 :
         \E left : /\ Leaves(left, taken, u, gap, start)
                   /\ \A k \in 1 .. Len(u) : left[Len(u)] <= Fills(u, gap, k).left
  BY <1>4, <1>9, BestIs
<1>11. PICK left :
         /\ Leaves(left, taken, u, gap, start)
         /\ \A k \in 1 .. Len(u) : left[Len(u)] <= Fills(u, gap, k).left
  BY <1>10
<1> HIDE DEF taken
<1>12. \A h \in 1 .. Len(u) : h \in C <=> h \in taken \/ u[h].size = 0 BY <1>4, <1>6
<1>13. \A h \in 1 .. Len(u) : h \in D => h \notin taken /\ u[h].size # 0 BY <1>12
<1> HIDE DEF D
<1>14. /\ v \in Seq(Partition) /\ \E f : Places(f, v, u, C)
       /\ \A k \in 1 .. Len(v) : v[k].offset = IF k = 1 THEN o ELSE End(v[k - 1])
  BY <1>1, <1>4, <1>5, LaidIs
<1>15. /\ w \in Seq(Partition) /\ \E f : Places(f, w, u, D)
       /\ \A k \in 1 .. Len(w) : w[k].offset = IF k = 1 THEN End(c) ELSE End(w[k - 1])
  BY <1>1, <1>4, <1>5, LaidIs
<1>16. PICK f : Places(f, v, u, C) BY <1>14
<1>17. PICK g : Places(g, w, u, D) BY <1>15
<1> DEFINE free == left[Len(u)]
           m == Len(v)
<1>18. /\ \A k \in 1 .. m :
            /\ f[k] \in 1 .. Len(u) /\ left[f[k]] \in 0 .. gap
            /\ v[k].offset + v[k].size = o + gap - left[f[k]]
            /\ k > 1 => v[k].offset = v[k - 1].offset + v[k - 1].size
       /\ free = IF m = 0 THEN gap ELSE left[f[m]]
  <2>1. start \in Nat OBVIOUS
  <2>2. o + gap < Word BY <1>2, <1>9
  <2>3. C = taken \union {h \in 1 .. Len(u) : u[h].size = 0} BY <1>4, <1>6
  <2> HIDE DEF m, free
  <2>4. Places(f, v, u, taken \union {h \in 1 .. Len(u) : u[h].size = 0}) BY <1>16, <2>3
  <2>5. Filling(u, gap, start, left, taken, v, o, f)
    BY <1>2, <1>4, <1>9, <1>11, <1>14, <2>1, <2>2, <2>4 DEF Filling
  <2>6. Filled(u, gap, left, v, o, f) BY <2>5, FilledEnds
  <2> QED BY <2>6, Zenon DEF Filled, m, free
<1>19. Together(t, b, v, c, w) BY <1>1, <1>8, <1>14, <1>15, Four
<1>20. /\ t \in Seq(Partition) /\ Len(t) = m + Len(w) + 2 /\ m \in Nat /\ Len(w) \in Nat
       /\ t[1] = b /\ t[m + 2] = c
       /\ \A k \in 1 .. m : t[k + 1] = v[k]
       /\ \A k \in 1 .. Len(w) : t[m + 2 + k] = w[k]
  BY <1>19 DEF Together
<1>21. \A k \in 1 .. Len(w) : w[k].size > free
  <2> SUFFICES ASSUME NEW k \in 1 .. Len(w) PROVE w[k].size > free OBVIOUS
  <2> DEFINE h == g[k]
  <2>1. h \in 1 .. Len(u) /\ h \in D /\ w[k].size = u[h].size BY <1>17 DEF Places, Same
  <2> HIDE DEF h
  <2>2. h \notin taken /\ u[h].size # 0 /\ u[h].size \in Nat BY <1>4, <1>13, <2>1, SizesNat
  <2>3. u[h].size > 0 BY <2>2
  <2>4. u[h].size > left[Len(u)] BY <1>4, <1>9, <1>11, <2>1, <2>2, <2>3, BestIsFull
  <2> QED BY <2>1, <2>4
<1>22. \A k \in 1 .. m : v[k].offset \in Int /\ v[k].size \in Int
  <2> SUFFICES ASSUME NEW k \in 1 .. m PROVE v[k].offset \in Int /\ v[k].size \in Int OBVIOUS
  <2>1. v[k] \in Partition BY <1>14
  <2> QED BY <2>1, TableAssumption DEF Partition, Bytes
<1> HIDE DEF m, free
<1>23. free \in Int /\ free >= 0 /\ t[m + 1].offset + t[m + 1].size = OffsetReserved - free
  <2>1. CASE m = 0
    <3>1. free = gap /\ t[m + 1] = b BY <1>18, <1>20, <2>1
    <3> QED BY <1>1, <1>2, <1>3, <1>9, <3>1
  <2>2. CASE m # 0
    <3> DEFINE last == left[f[m]]
    <3>1. m \in 1 .. m BY <1>20, <2>2
    <3>2. free = last /\ t[m + 1] = v[m] BY <1>18, <1>20, <2>2, <3>1
    <3>3. last \in 0 .. gap /\ v[m].offset + v[m].size = o + gap - last BY <1>18, <3>1
    <3> HIDE DEF last
    <3>4. o + gap - last = OffsetReserved - last BY <1>2, <1>9, <3>3
    <3> QED BY <3>2, <3>3, <3>4
  <2> QED BY <2>1, <2>2
<1>24. ASSUME NEW k \in 2 .. m + 2
       PROVE  t[k - 1].offset + t[k - 1].size <= t[k].offset
  <2>1. CASE k = m + 2
    <3>1. k - 1 = m + 1 BY <1>20, <2>1
    <3>2. t[k].offset = OffsetReserved BY <1>1, <1>20, <2>1
    <3> QED BY <1>2, <1>23, <3>1, <3>2
  <2>2. CASE k = 2 /\ k # m + 2
    <3>1. 1 \in 1 .. m /\ k = 1 + 1 /\ k - 1 = 1 BY <1>20, <2>2
    <3>2. t[k] = v[1] /\ t[k - 1] = b BY <1>20, <3>1
    <3>3. v[1].offset = o BY <1>14, <3>1 DEF m
    <3> QED BY <1>1, <1>2, <3>2, <3>3
  <2>3. CASE k # 2 /\ k # m + 2
    <3>1. k - 1 \in 1 .. m /\ k = (k - 1) + 1 /\ k - 1 > 1 BY <1>20, <2>3
    <3>2. k - 2 \in 1 .. m /\ (k - 2) + 1 = k - 1 /\ (k - 1) - 1 = k - 2 BY <1>20, <2>3
    <3>3. t[k] = v[k - 1] BY <1>20, <3>1
    <3>4. t[k - 1] = v[k - 2] BY <1>20, <3>2
    <3>5. v[k - 1].offset = v[k - 2].offset + v[k - 2].size BY <1>18, <3>1, <3>2
    <3>6. v[k - 1].offset \in Int BY <1>22, <3>1
    <3> QED BY <3>3, <3>4, <3>5, <3>6
  <2> QED BY <2>1, <2>2, <2>3
<1>25. ASSUME NEW k \in m + 3 .. Len(t)
       PROVE  t[k].offset = End(t[k - 1]) /\ t[k].size > free
  <2> DEFINE l == k - (m + 2)
  <2>1. l \in 1 .. Len(w) /\ k = m + 2 + l BY <1>20
  <2>2. t[k] = w[l] BY <1>20, <2>1
  <2>3. CASE l = 1
    <3>1. k - 1 = m + 2 BY <1>20, <2>3
    <3>2. w[l].offset = End(c) BY <1>15, <2>1, <2>3
    <3> QED BY <1>20, <1>21, <2>1, <2>2, <3>1, <3>2
  <2>4. CASE l # 1
    <3>1. l - 1 \in 1 .. Len(w) /\ k - 1 = m + 2 + (l - 1) BY <1>20, <2>1, <2>4
    <3>2. t[k - 1] = w[l - 1] BY <1>20, <3>1
    <3>3. w[l].offset = End(w[l - 1]) BY <1>15, <2>1, <2>4
    <3> HIDE DEF l
    <3> QED BY <1>21, <2>1, <2>2, <3>2, <3>3
  <2> QED BY <2>3, <2>4
<1> DEFINE r == m + 2
<1>26. r \in 2 .. Len(t) /\ r - 1 = m + 1 /\ r + 1 = m + 3 BY <1>20
<1>27. t[r].name = "reserved" /\ t[r].offset = OffsetReserved BY <1>1, <1>20
<1>28. OffsetReserved - (t[r - 1].offset + t[r - 1].size) = free
  <2>1. t[r - 1].offset + t[r - 1].size = OffsetReserved - free BY <1>23, <1>26
  <2> HIDE DEF r
  <2> QED BY <1>2, <1>23, <2>1
<1>29. \A k \in 2 .. r : t[k - 1].offset + t[k - 1].size <= t[k].offset BY <1>24
<1>30. \A k \in r + 1 .. Len(t) : t[k].offset = End(t[k - 1]) /\ t[k].size > free
  BY <1>25, <1>26
<1> HIDE DEF r
<1>31. LaidOut(t, r) BY <1>26, <1>27, <1>28, <1>29, <1>30 DEF LaidOut
<1> QED BY <1>31 DEF t

(* ept_ungap leaves the bootloader first.                                  *)
LEMMA UngappedFirst ==
  ASSUME NEW s, Standard(s)
  PROVE  Ungapped(s)[1].size = s[1].size
<1> DEFINE t == Ungapped(s)
           b == AtZero(s)
           c == AtReserved(s)
           v == Before(s)
           w == Behind(s)
           u == Others(s)
           D == DOMAIN u \ Inside(s)
<1>1. /\ s \in Seq(Partition) /\ DOMAIN s = 1 .. Len(s) /\ 1 \in 1 .. Len(s)
      /\ b \in Partition /\ b.size = s[1].size /\ c \in Partition
      /\ s[1].size \in Bytes /\ End(c) \in Bytes
  BY StandardParts DEF Same
<1>2. CASE Gap(s) = 0
  <2> DEFINE At(k) == [s[k] EXCEPT !.offset = IF k = 2 THEN OffsetReserved ELSE 0]
  <2>1. t = [k \in 1 .. Len(s) |-> At(k)] BY <1>1, <1>2, UngappedForm
  <2>2. s[1] \in Partition BY <1>1
  <2>3. At(1).size = s[1].size BY <2>2 DEF Partition
  <2>4. [k \in 1 .. Len(s) |-> At(k)][1] = At(1) BY <1>1
  <2> HIDE DEF t, At
  <2> QED BY <2>1, <2>3, <2>4 DEF t
<1>3. CASE Gap(s) # 0
  <2>1. t = <<b>> \o v \o <<c>> \o w BY <1>3, UngappedForm
  <2>2. u \in Seq(Partition) BY OthersIs
  <2>3. v = Chained(Picked(u, Inside(s)), s[1].size) /\ w = Chained(Picked(u, D), End(c))
    BY DEF Before, Behind
  <2> HIDE DEF t, b, c, v, w, u, D
  <2>4. v \in Seq(Partition) /\ w \in Seq(Partition) BY <1>1, <2>2, <2>3, LaidIs
  <2>5. Together(t, b, v, c, w) BY <1>1, <2>1, <2>4, Four
  <2>6. t[1] = b BY <2>5 DEF Together
  <2> QED BY <1>1, <2>6 DEF t
<1> QED BY <1>2, <1>3

(* What ecreate begins with, if it can begin at all.                       *)
LEMMA PreparedKeeps ==
  ASSUME NEW s \in Seq(Partition), Prepared(s).ok
  PROVE  LET t == Prepared(s).parts
         IN /\ t \in Seq(Partition) /\ Len(t) \in 4 .. MaxParts /\ NamesUnique(t)
            /\ NamesUnique(s) =>
                 \A j \in 1 .. Len(s) :
                   s[j].name \in Essential => \E k \in 1 .. Len(t) : Same(t[k], s[j])
<1> DEFINE r == Retained(s).parts
           t == Ungapped(r)
<1>1. Retained(s).ok /\ Prepared(s) = Done(t)
  BY DEF Prepared, Failed
<1>2. Prepared(s).parts = t BY <1>1 DEF Done
<1>3. /\ r \in Seq(Partition) /\ Len(r) \in 4 .. MaxParts
      /\ r[1].name = "bootloader" /\ r[2].name = "reserved" /\ NamesUnique(r)
      /\ NamesUnique(s) =>
           \A j \in 1 .. Len(s) :
             s[j].name \in Essential => \E k \in 1 .. Len(r) : r[k] = s[j]
  BY <1>1, RetainedIs
<1> HIDE DEF r
<1>4. Standard(r) BY <1>3, TableAssumption DEF Standard
<1>5. /\ t \in Seq(Partition) /\ Len(t) = Len(r) /\ NamesUnique(t)
      /\ \A j \in 1 .. Len(r) : \E k \in 1 .. Len(t) : Same(t[k], r[j])
  BY <1>4, UngappedKeeps
<1> HIDE DEF t
<1>6. NamesUnique(s) =>
        \A j \in 1 .. Len(s) :
          s[j].name \in Essential => \E k \in 1 .. Len(t) : Same(t[k], s[j])
  BY <1>3, <1>5
<1> QED BY <1>2, <1>3, <1>5, <1>6

(***************************************************************************)
(* Parsing                                                                 *)
(***************************************************************************)
(* What arguments are read as are arguments.                               *)
LEMMA ReadingsAre ==
  ASSUME NEW s \in Seq(Arguments), \A k \in DOMAIN s : Readings(s[k]) \subseteq Arguments
  PROVE  ArgReadings(s) \subseteq Seq(Arguments)
<1> DEFINE n == Len(s)
           S == SUBSET Seq(Arguments)
           base == {<<>>}
           New(x, h) == {Append(r, a) : r \in x, a \in Readings(s[h])}
           round == [x \in (1 .. n) \X S |-> New(x[2], x[1])]
           Is(f) == f = [h \in 0 .. n |-> IF h = 0 THEN base ELSE New(f[h - 1], h)]
           loop == CHOOSE f : Is(f)
<1>1. n \in Nat OBVIOUS
<1>2. base \in S OBVIOUS
<1>3. ASSUME NEW h \in 1 .. n, NEW x \in S PROVE New(x, h) \in S
  <2>1. Readings(s[h]) \subseteq Arguments OBVIOUS
  <2>2. \A r \in x, a \in Readings(s[h]) : Append(r, a) \in Seq(Arguments) BY <2>1
  <2> QED BY <2>2
<1>4. ArgReadings(s) = loop[n] BY DEF ArgReadings
<1> HIDE DEF n, New, base
<1>5. round \in [(1 .. n) \X S -> S] BY <1>3
<1>6. \A h \in 1 .. n, x \in S : round[<<h, x>>] = New(x, h) OBVIOUS
<1> HIDE DEF round, S
<1>7. PICK f \in [0 .. n -> S] : Recurses(f, n, base, round) BY <1>1, <1>2, <1>5, Recursion
<1>8. Is(f)
  <2>1. ASSUME NEW h \in 0 .. n PROVE f[h] = IF h = 0 THEN base ELSE New(f[h - 1], h)
    <3>1. CASE h = 0 BY <1>7, <3>1 DEF Recurses
    <3>2. CASE h # 0
      <4>1. h \in 1 .. n /\ h - 1 \in 0 .. n BY <1>1, <3>2
      <4>2. f[h] = round[<<h, f[h - 1]>>] BY <1>7, <4>1 DEF Recurses
      <4> QED BY <1>6, <3>2, <4>1, <4>2
    <3> QED BY <3>1, <3>2
  <2> QED BY <2>1
<1>9. Is(loop)
  <2> HIDE DEF Is
  <2> QED BY <1>8
<1> HIDE DEF loop
<1>10. loop[0] = base /\ \A h \in 1 .. n : loop[h] = New(loop[h - 1], h) BY <1>1, <1>9
<1>11. loop \in [0 .. n -> S]
  <2>1. loop = [h \in 0 .. n |-> loop[h]] BY <1>9
  <2>2. \A h \in 1 .. n : loop[h - 1] \in S => loop[h] \in S BY <1>3, <1>10
  <2> HIDE DEF Is
  <2> QED BY <1>1, <1>2, <1>10, <2>1, <2>2, LoopStays
<1>12. n \in 0 .. n BY <1>1
<1>13. loop[n] \in S BY <1>11, <1>12
<1> QED BY <1>4, <1>13 DEF S

(* Arguments that are parsed are legal, every one.                         *)
LEMMA ParsedIs ==
  ASSUME NEW m, NEW s \in Seq(Arguments), Parsed(m, s) # "refused", Parsed(m, s) # "aborted"
  PROVE  \A k \in 1 .. Len(s) : LegalFor(m, s[k])
<1>1. {k \in DOMAIN s : ~LegalFor(m, s[k])} = {} BY DEF Parsed
<1> QED BY <1>1

(***************************************************************************)
(* The invariant                                                           *)
(***************************************************************************)
(* Which arguments have been parsed, what has been applied of them to what *)
(* list: before the properties of a list can be kept, it must be the one   *)
(* that was read or that ept_ungap made.                                   *)
Typed ==
  /\ mode \in {"eedit", "ecreate", "dedit"}
  /\ old \in Seq(Kind(mode)) /\ Len(old) <= MaxParts
  /\ list \in Seq(Kind(mode)) /\ Len(list) <= MaxParts
  /\ asked \in Seq(Arguments) /\ args \in Seq(Arguments)
  /\ \A k \in DOMAIN asked : Readings(asked[k]) \subseteq Arguments
  /\ step \in 0 .. Len(args)
  /\ pc \in {"parse", "prepare", "edit", "done", "failed", "aborted"}

InMotion == pc \in {"edit", "parse", "done"}

(* Arguments are parsed before any is applied.                             *)
Staged ==
  /\ pc \in {"parse", "prepare"} => args = <<>> /\ step = 0
  /\ pc = "prepare" => mode = "ecreate"
  /\ pc \in {"edit", "done"} => \A k \in 1 .. Len(args) : LegalFor(mode, args[k])

(* ecreate looks for the end of the last: its list is never empty.  Before *)
(* the first argument it is what ept_ungap returned.                       *)
Created ==
  mode = "ecreate" /\ InMotion =>
    /\ Len(list) >= 2 /\ NamesUnique(list)
    /\ step = 0 => Prepared(old).ok /\ list = Prepared(old).parts

(* StaysWithin, of a list l to which h of the arguments a were applied.    *)
Held(l, a, h) ==
  (mode # "dedit" /\ \A k \in 1 .. Len(old) : Within(old[k])) =>
    \A k \in 1 .. Len(l) :
      \/ mode = "ecreate" /\ \A i \in 1 .. h : a[i].name # l[k].name
      \/ Within(l[k])
      \/ Wraps(l[k]) /\ \E i \in 1 .. h : Large(a[i])

(* EssentialsKept, of old tables in which no name is used twice.           *)
Retains ==
  mode = "ecreate" /\ InMotion /\ NamesUnique(old) =>
    \A k \in 1 .. Len(old) :
      (old[k].name \in Essential /\ \A i \in 1 .. step : args[i].name # old[k].name) =>
        \E j \in 1 .. Len(list) : Same(list[j], old[k])

IInv == Typed /\ Staged /\ Created /\ Held(list, args, step) /\ Retains

(* What is read from the target, with nothing applied yet.                 *)
LEMMA InitIInv == Init => IInv
<1> SUFFICES ASSUME Init PROVE IInv OBVIOUS
<1>1. PICK r \in EditRequests : mode = r.mode /\ old = r.list /\ asked = r.args BY DEF Init
<1>2. args = <<>> /\ list = old /\ step = 0
      /\ pc = IF mode = "ecreate" THEN "prepare" ELSE "parse"
  BY DEF Init
<1>3. Len(args) = 0 /\ args \in Seq(Arguments) BY <1>2
<1>4. Typed
  <2>1. /\ mode \in {"eedit", "ecreate", "dedit"}
        /\ old \in Seq(Kind(mode)) /\ Len(old) <= MaxParts
        /\ asked \in Seq(Arguments)
        /\ \A k \in DOMAIN asked : Readings(asked[k]) \subseteq Arguments
    BY <1>1, EditRequestsAssumption DEF Kind
  <2> QED BY <1>2, <1>3, <2>1 DEF Typed
<1>5. Staged
  <2>1. pc = "prepare" => mode = "ecreate" BY <1>2
  <2> QED BY <1>2, <2>1 DEF Staged
<1>6. Created /\ Retains BY <1>2 DEF Created, Retains, InMotion
<1>7. Held(list, args, step) BY <1>2 DEF Held
<1> QED BY <1>4, <1>5, <1>6, <1>7 DEF IInv

(* ept_ecreate_parse lays out the essential partitions it found.           *)
LEMMA PrepareIInv ==
  ASSUME IInv, Prepare
  PROVE  IInv'
<1>1. /\ pc = "prepare" /\ mode = "ecreate" /\ args = <<>> /\ step = 0
      /\ old \in Seq(Partition)
  BY DEF Prepare, IInv, Staged, Typed, Kind
<1>2. UNCHANGED <<mode, old, asked, args, step>> BY DEF Prepare
<1>3. CASE pc' = "failed" /\ UNCHANGED list
  <2>1. Typed' BY <1>2, <1>3 DEF IInv, Typed
  <2>2. Staged' /\ Created' /\ Retains' BY <1>3 DEF Staged, Created, Retains, InMotion
  <2>3. Held(list, args, step)' BY <1>2, <1>3 DEF IInv, Held
  <2> QED BY <2>1, <2>2, <2>3 DEF IInv
<1>4. CASE Prepared(old).ok /\ list' = Prepared(old).parts
           /\ pc' = IF asked = <<>> THEN "edit" ELSE "parse"
  <2> DEFINE t == Prepared(old).parts
  <2>1. /\ t \in Seq(Partition) /\ Len(t) \in 4 .. MaxParts /\ NamesUnique(t)
        /\ NamesUnique(old) =>
             \A j \in 1 .. Len(old) :
               old[j].name \in Essential => \E k \in 1 .. Len(t) : Same(t[k], old[j])
    BY <1>1, <1>4, PreparedKeeps
  <2>2. Len(args) = 0 BY <1>1
  <2>3. list' = t /\ pc' \in {"edit", "parse"} BY <1>4
  <2>6. Len(t) <= MaxParts /\ Len(t) >= 2 BY <2>1, TableAssumption
  <2>4. Prepared(old).ok /\ t = Prepared(old).parts BY <1>4
  <2> HIDE DEF t
  <2>5. Typed'
    <3>1. list' \in Seq(Kind(mode))' /\ Len(list') <= MaxParts
      BY <1>1, <1>2, <2>1, <2>3, <2>6 DEF Kind
    <3> QED BY <1>2, <2>3, <3>1 DEF IInv, Typed
  <2>7. Staged' BY <1>1, <1>2, <2>2, <2>3 DEF Staged
  <2>8. Created' BY <1>2, <2>1, <2>3, <2>4, <2>6 DEF Created
  <2>9. Retains' BY <1>2, <2>1, <2>3 DEF Retains
  <2>10. Held(list, args, step)' BY <1>1, <1>2 DEF Held
  <2> QED BY <2>5, <2>7, <2>8, <2>9, <2>10 DEF IInv
<1> QED BY <1>3, <1>4 DEF Prepare

(* Parsing changes no list, and passes no argument its mode refuses.       *)
LEMMA ParseIInv ==
  ASSUME IInv, Parse
  PROVE  IInv'
<1>1. /\ pc = "parse" /\ args = <<>> /\ step = 0
      /\ UNCHANGED <<mode, old, asked, list, step>>
      /\ args' \in ArgReadings(asked)
      /\ pc' = CASE asked = <<>> -> "failed"
                 [] asked # <<>> /\ Parsed(mode, args') = "refused" -> "failed"
                 [] asked # <<>> /\ Parsed(mode, args') = "aborted" -> "aborted"
                 [] OTHER -> "edit"
  BY DEF Parse, IInv, Staged
<1>2. args' \in Seq(Arguments) BY <1>1, ReadingsAre DEF IInv, Typed
<1>3. pc' \in {"failed", "aborted", "edit"} BY <1>1
<1>4. Typed'
  <2>1. step' \in 0 .. Len(args') BY <1>1, <1>2
  <2> QED BY <1>1, <1>2, <1>3, <2>1 DEF IInv, Typed
<1>5. Staged'
  <2>1. pc' = "edit" => \A k \in 1 .. Len(args') : LegalFor(mode, args'[k])
    <3> SUFFICES ASSUME pc' = "edit" PROVE \A k \in 1 .. Len(args') : LegalFor(mode, args'[k])
      OBVIOUS
    <3>1. Parsed(mode, args') # "refused" /\ Parsed(mode, args') # "aborted" BY <1>1
    <3> QED BY <1>2, <3>1, ParsedIs
  <2>2. pc' = "edit" => (\A k \in 1 .. Len(args) : LegalFor(mode, args[k]))' BY <1>1, <2>1
  <2> QED BY <1>3, <2>2 DEF Staged
<1>6. Created' BY <1>1 DEF IInv, Created, InMotion
<1>7. Retains' BY <1>1 DEF IInv, Retains, InMotion
<1>8. Held(list, args, step)' BY <1>1 DEF IInv, Held
<1> QED BY <1>4, <1>5, <1>6, <1>7, <1>8 DEF IInv

(* One more argument: what held of the list before it holds after it.      *)
LEMMA HeldOn ==
  ASSUME IInv, NEW t, NEW h, h = step + 1, h \in 1 .. Len(args),
         mode # "dedit" => t \in Seq(Partition) /\ list \in Seq(Partition),
         mode = "eedit" => \A k \in 1 .. Len(t) : Fine(t[k], list, args[h]),
         mode = "ecreate" =>
           \A k \in 1 .. Len(t) :
             \/ t[k].name # args[h].name /\ \E j \in 1 .. Len(list) : t[k] = list[j]
             \/ Within(t[k])
             \/ Wraps(t[k]) /\ Large(args[h])
  PROVE  Held(t, args, h)
<1> SUFFICES ASSUME mode # "dedit", \A k \in 1 .. Len(old) : Within(old[k]),
                    NEW k \in 1 .. Len(t)
             PROVE  \/ mode = "ecreate" /\ \A i \in 1 .. h : args[i].name # t[k].name
                    \/ Within(t[k])
                    \/ Wraps(t[k]) /\ \E i \in 1 .. h : Large(args[i])
  BY DEF Held
<1>1. /\ step \in Nat /\ mode \in {"eedit", "ecreate", "dedit"}
      /\ list \in Seq(Partition) /\ DOMAIN list = 1 .. Len(list)
  BY DEF IInv, Typed
<1>2. 1 .. step \subseteq 1 .. h /\ h \in 1 .. h /\ \A i \in 1 .. h : i \in 1 .. step \/ i = h
  BY <1>1
<1>3. \A j \in 1 .. Len(list) :
        \/ mode = "ecreate" /\ \A i \in 1 .. step : args[i].name # list[j].name
        \/ Within(list[j])
        \/ Wraps(list[j]) /\ \E i \in 1 .. step : Large(args[i])
  BY DEF IInv, Held
<1>4. CASE mode = "eedit"
  <2>1. Fine(t[k], list, args[h]) BY <1>4
  <2>2. CASE \E j \in 1 .. Len(list) : t[k].offset = list[j].offset /\ t[k].size = list[j].size
    <3>1. PICK j \in 1 .. Len(list) : t[k].offset = list[j].offset /\ t[k].size = list[j].size
      BY <2>2
    <3>2. (Within(t[k]) <=> Within(list[j])) /\ (Wraps(t[k]) <=> Wraps(list[j]))
      BY <3>1 DEF Within, Wraps
    <3> QED BY <1>2, <1>3, <1>4, <3>2
  <2>3. CASE Wraps(t[k]) /\ \E j \in 1 .. Len(list) : ~Within(list[j])
    <3>1. PICK j \in 1 .. Len(list) : ~Within(list[j]) BY <2>3
    <3>2. \E i \in 1 .. step : Large(args[i]) BY <1>3, <1>4, <3>1
    <3> QED BY <1>2, <2>3, <3>2
  <2>4. CASE Wraps(t[k]) /\ Large(args[h]) BY <1>2, <2>4
  <2> QED BY <1>1, <2>1, <2>2, <2>3, <2>4 DEF Fine
<1>5. CASE mode = "ecreate"
  <2>1. CASE t[k].name # args[h].name /\ \E j \in 1 .. Len(list) : t[k] = list[j]
    <3>1. PICK j \in 1 .. Len(list) : t[k] = list[j] BY <2>1
    <3> QED BY <1>2, <1>3, <1>5, <2>1, <3>1
  <2>2. CASE Within(t[k]) BY <2>2
  <2>3. CASE Wraps(t[k]) /\ Large(args[h]) BY <1>2, <2>3
  <2> QED BY <1>5, <2>1, <2>2, <2>3
<1> QED BY <1>1, <1>4, <1>5

(* What one argument does to the list.                                     *)
LEMMA Applies ==
  ASSUME IInv, Edit
  PROVE  /\ step + 1 \in 1 .. Len(args) /\ args[step + 1] \in Arguments
         /\ UNCHANGED <<mode, old, asked, args>>
         /\ LegalFor(mode, args[step + 1])
         /\ \/ pc' = "failed" /\ UNCHANGED <<list, step>>
            \/ /\ Applied(args[step + 1]).ok /\ list' = Applied(args[step + 1]).parts
               /\ step' = step + 1 /\ UNCHANGED pc
<1>1. pc = "edit" /\ step < Len(args) /\ step \in 0 .. Len(args) /\ args \in Seq(Arguments)
  BY DEF Edit, IInv, Typed
<1>2. step + 1 \in 1 .. Len(args) BY <1>1
<1>3. LegalFor(mode, args[step + 1]) BY <1>1, <1>2 DEF IInv, Staged
<1>4. args[step + 1] \in Arguments BY <1>1, <1>2
<1> HIDE DEF Applied
<1> QED BY <1>2, <1>3, <1>4 DEF Edit

(* One argument of eedit, ecreate or dedit, and what it leaves alone.      *)
LEMMA EditIInv ==
  ASSUME IInv, Edit
  PROVE  IInv' /\ (step' > step => Touched(list, list'))
<1> DEFINE h == step + 1
           a == args[h]
           t == Applied(a).parts
<1>1. /\ h \in 1 .. Len(args) /\ a \in Arguments /\ UNCHANGED <<mode, old, asked, args>>
      /\ LegalFor(mode, a)
      /\ \/ pc' = "failed" /\ UNCHANGED <<list, step>>
         \/ Applied(a).ok /\ list' = t /\ step' = h /\ UNCHANGED pc
  BY Applies
<1>2. /\ pc = "edit" /\ mode \in {"eedit", "ecreate", "dedit"}
      /\ list \in Seq(Kind(mode)) /\ Len(list) <= MaxParts /\ step \in Nat
  BY DEF Edit, IInv, Typed
<1>3. CASE pc' = "failed" /\ UNCHANGED <<list, step>>
  <2>1. Typed' BY <1>1, <1>3 DEF IInv, Typed
  <2>2. Staged' /\ Created' /\ Retains' BY <1>3 DEF Staged, Created, Retains, InMotion
  <2>3. Held(list, args, step)' BY <1>1, <1>3 DEF IInv, Held
  <2>4. ~(step' > step) BY <1>2, <1>3
  <2> QED BY <2>1, <2>2, <2>3, <2>4 DEF IInv
<1>4. CASE Applied(a).ok /\ list' = t /\ step' = h /\ UNCHANGED pc
  <2> DEFINE Good ==
               /\ t \in Seq(Kind(mode)) /\ Len(t) <= MaxParts /\ Touched(list, t)
               /\ mode = "eedit" => \A k \in 1 .. Len(t) : Fine(t[k], list, a)
               /\ mode = "ecreate" =>
                    /\ Len(t) >= 2 /\ NamesUnique(t)
                    /\ \A k \in 1 .. Len(t) :
                         \/ t[k].name # a.name /\ \E j \in 1 .. Len(list) : t[k] = list[j]
                         \/ Within(t[k])
                         \/ Wraps(t[k]) /\ Large(a)
                    /\ \A j \in 1 .. Len(list) :
                         list[j].name # a.name => \E k \in 1 .. Len(t) : t[k] = list[j]
  <2>1. ASSUME mode = "eedit" PROVE Good
    <3>1. list \in Seq(Partition) BY <1>2, <2>1 DEF Kind
    <3>2. t = Eedited(list, Limit, a).parts /\ Eedited(list, Limit, a).ok /\ LegalFor("eedit", a)
      BY <1>1, <1>4, <2>1 DEF Applied
    <3> HIDE DEF t, a
    <3>3. /\ t \in Seq(Partition) /\ Len(t) <= MaxParts /\ Touched(list, t)
          /\ \A k \in 1 .. Len(t) : Fine(t[k], list, a)
      BY <1>1, <1>2, <3>1, <3>2, EeditedKeeps
    <3>4. mode # "ecreate" /\ t \in Seq(Kind(mode)) BY <2>1, <3>3 DEF Kind
    <3> QED BY <3>3, <3>4
  <2>2. ASSUME mode = "dedit" PROVE Good
    <3>1. list \in Seq(DPartition) BY <1>2, <2>2 DEF Kind
    <3>2. t = Dedited(list, a).parts /\ Dedited(list, a).ok /\ LegalFor("dedit", a)
      BY <1>1, <1>4, <2>2 DEF Applied
    <3> HIDE DEF t, a
    <3>3. t \in Seq(DPartition) /\ Len(t) <= MaxParts /\ Touched(list, t)
      BY <1>1, <1>2, <3>1, <3>2, DeditedKeeps
    <3>4. mode # "ecreate" /\ mode # "eedit" /\ t \in Seq(Kind(mode)) BY <2>2, <3>3 DEF Kind
    <3> QED BY <3>3, <3>4
  <2>3. ASSUME mode = "ecreate" PROVE Good
    <3>1. list \in Seq(Partition) /\ Len(list) >= 2 /\ NamesUnique(list)
      BY <1>2, <2>3 DEF Kind, IInv, Created, InMotion
    <3>2. t = Ecreated(list, Limit, a).parts /\ Ecreated(list, Limit, a).ok
      BY <1>4, <2>3 DEF Applied
    <3> HIDE DEF t, a
    <3>3. /\ t \in Seq(Partition) /\ Len(t) \in 2 .. MaxParts /\ NamesUnique(t) /\ Touched(list, t)
          /\ \A k \in 1 .. Len(t) :
               \/ t[k].name # a.name /\ \E j \in 1 .. Len(list) : t[k] = list[j]
               \/ t[k].name = a.name /\ (Within(t[k]) \/ (Wraps(t[k]) /\ Large(a)))
          /\ \A j \in 1 .. Len(list) :
               list[j].name # a.name => \E k \in 1 .. Len(t) : t[k] = list[j]
      BY <1>1, <3>1, <3>2, EcreatedKeeps
    <3>4. mode # "eedit" /\ t \in Seq(Kind(mode)) BY <2>3, <3>3 DEF Kind
    <3>5. Len(t) <= MaxParts /\ Len(t) >= 2 BY <3>3, TableAssumption
    <3> QED BY <3>3, <3>4, <3>5
  <2>4. Good BY <1>2, <2>1, <2>2, <2>3
  <2> HIDE DEF t
  <2>5. Typed'
    <3>1. list' \in Seq(Kind(mode))' /\ Len(list') <= MaxParts BY <1>1, <1>4, <2>4
    <3>2. (step \in 0 .. Len(args))' BY <1>1, <1>2, <1>4
    <3> QED BY <1>1, <1>4, <3>1, <3>2 DEF IInv, Typed
  <2>6. Staged' BY <1>1, <1>2, <1>4 DEF IInv, Staged
  <2>7. Created'
    <3>1. step' # 0 BY <1>2, <1>4
    <3> QED BY <1>1, <1>4, <2>4, <3>1 DEF Created
  <2>8. Held(list, args, step)'
    <3>1. mode # "dedit" => t \in Seq(Partition) /\ list \in Seq(Partition)
      BY <1>2, <2>4 DEF Kind
    <3>2. /\ mode = "eedit" => \A k \in 1 .. Len(t) : Fine(t[k], list, args[h])
          /\ mode = "ecreate" =>
               \A k \in 1 .. Len(t) :
                 \/ t[k].name # args[h].name /\ \E j \in 1 .. Len(list) : t[k] = list[j]
                 \/ Within(t[k])
                 \/ Wraps(t[k]) /\ Large(args[h])
      BY <2>4
    <3>3. h = step + 1 OBVIOUS
    <3> HIDE DEF h, Good
    <3>4. Held(t, args, h) BY <1>1, <3>1, <3>2, <3>3, HeldOn
    <3> QED BY <1>1, <1>4, <3>4 DEF Held
  <2>9. Retains'
    <3> SUFFICES ASSUME mode = "ecreate", NamesUnique(old), NEW k \in 1 .. Len(old),
                        old[k].name \in Essential,
                        \A i \in 1 .. h : args[i].name # old[k].name
                 PROVE  \E j \in 1 .. Len(t) : Same(t[j], old[k])
      BY <1>1, <1>4 DEF Retains
    <3>1. 1 .. step \subseteq 1 .. h /\ h \in 1 .. h BY <1>2
    <3>2. PICK j \in 1 .. Len(list) : Same(list[j], old[k])
      BY <1>2, <3>1 DEF IInv, Retains, InMotion
    <3>3. list[j].name # a.name BY <3>1, <3>2 DEF Same
    <3>4. PICK l \in 1 .. Len(t) : t[l] = list[j] BY <2>4, <3>3
    <3> QED BY <3>2, <3>4
  <2>10. Touched(list, list') BY <1>4, <2>4
  <2> QED BY <2>5, <2>6, <2>7, <2>8, <2>9, <2>10 DEF IInv
<1> QED BY <1>1, <1>3, <1>4

(* Nothing changes at the end.                                             *)
LEMMA FinishIInv ==
  ASSUME IInv, Finish
  PROVE  IInv'
<1>1. pc = "edit" /\ pc' = "done" /\ UNCHANGED <<mode, old, asked, args, list, step>>
  BY DEF Finish
<1>2. Typed' /\ Staged' BY <1>1 DEF IInv, Typed, Staged
<1>3. Created' /\ Retains' BY <1>1 DEF IInv, Created, Retains, InMotion
<1>4. Held(list, args, step)' BY <1>1 DEF IInv, Held
<1> QED BY <1>2, <1>3, <1>4 DEF IInv

(* Each step keeps the invariant.                                          *)
LEMMA StepIInv == IInv /\ [Next]_vars => IInv'
<1> SUFFICES ASSUME IInv, [Next]_vars PROVE IInv' OBVIOUS
<1>1. CASE Prepare BY <1>1, PrepareIInv
<1>2. CASE Parse BY <1>2, ParseIInv
<1>3. CASE Edit BY <1>3, EditIInv
<1>4. CASE Finish BY <1>4, FinishIInv
<1>5. CASE UNCHANGED vars
  BY <1>5 DEF vars, IInv, Typed, Staged, Created, Held, Retains, InMotion
<1> QED BY <1>1, <1>2, <1>3, <1>4, <1>5 DEF Next

(* So it holds throughout.                                                 *)
LEMMA Invariant == Spec => []IInv
<1> QED BY InitIInv, StepIInv, PTL DEF Spec

(* What the parser begins with, laid out as ept_ungap lays it out.         *)
LEMMA CreatedLaidOut ==
  ASSUME IInv, FreshlyCreated, list[1].size < OffsetReserved
  PROVE  /\ list \in Seq(Partition) /\ NamesUnique(list) /\ DOMAIN list = 1 .. Len(list)
         /\ \E r : LaidOut(list, r)
<1> DEFINE s == Retained(old).parts
<1>1. mode = "ecreate" /\ InMotion /\ step = 0 BY DEF FreshlyCreated, InMotion
<1>2. /\ Prepared(old).ok /\ list = Prepared(old).parts /\ NamesUnique(list)
      /\ list \in Seq(Partition) /\ old \in Seq(Partition)
  BY <1>1 DEF IInv, Created, Typed, Kind
<1>3. Retained(old).ok /\ Prepared(old) = Done(Ungapped(s)) BY <1>2 DEF Prepared, Failed
<1>4. list = Ungapped(s) BY <1>2, <1>3 DEF Done
<1>5. /\ s \in Seq(Partition) /\ Len(s) \in 4 .. MaxParts
      /\ s[1].name = "bootloader" /\ s[2].name = "reserved" /\ NamesUnique(s)
  BY <1>2, <1>3, RetainedIs
<1> HIDE DEF s
<1>6. Standard(s) BY <1>5, TableAssumption DEF Standard
<1>7. list[1].size = s[1].size BY <1>4, <1>6, UngappedFirst
<1>8. s[1].size < OffsetReserved BY <1>7
<1>9. \E r : LaidOut(list, r) BY <1>4, <1>6, <1>8, UngappedIs
<1> QED BY <1>2, <1>9

(***************************************************************************)
(* The theorems                                                            *)
(***************************************************************************)
(* The list stays within the 32 partitions of its array and every size     *)
(* within 64 bits, whatever the arguments and whatever an unterminated     *)
(* selector reads as (ept_eedit_each, ept_ecreate_parse, dts_dedit_each).  *)
THEOREM TypeCorrect == Spec => []TypeOK
<1>1. IInv => TypeOK
  <2> SUFFICES ASSUME IInv PROVE TypeOK OBVIOUS
  <2>1. Typed BY DEF IInv
  <2>2. ASSUME NEW k \in DOMAIN list PROVE list[k].size \in 0 .. Word - 1
    <3>1. list \in Seq(Kind(mode)) BY <2>1 DEF Typed
    <3>2. list[k].size \in Nat /\ list[k].size < Word BY <3>1, Fields
    <3> QED BY <3>2, TableAssumption
  <2> QED BY <2>1, <2>2 DEF Typed, TypeOK
<1> QED BY <1>1, Invariant, PTL

(* No sequence of arguments pushes a partition over the end of the disk:   *)
(* ept_sanitize_offset and ept_sanitize_size come after every change.      *)
THEOREM StaysInside == Spec => []StaysWithin
<1>1. IInv => StaysWithin
  <2> SUFFICES ASSUME IInv PROVE StaysWithin OBVIOUS
  <2>1. DOMAIN list = 1 .. Len(list) /\ DOMAIN old = 1 .. Len(old) BY DEF IInv, Typed
  <2> QED BY <2>1 DEF IInv, Held, StaysWithin, Wraps, Large
<1> QED BY <1>1, Invariant, PTL

(* ecreate loses nothing essential of a table whose names are unique, as   *)
(* they are in every table that ept_valid_table accepts.                   *)
THEOREM EssentialsStay == Spec => [](NamesUnique(old) => EssentialsKept)
<1>1. IInv => (NamesUnique(old) => EssentialsKept)
  <2> SUFFICES ASSUME IInv, NamesUnique(old) PROVE EssentialsKept OBVIOUS
  <2>1. DOMAIN list = 1 .. Len(list) /\ DOMAIN old = 1 .. Len(old) BY DEF IInv, Typed
  <2> QED BY <2>1 DEF IInv, Retains, EssentialsKept, Same, InMotion
<1> QED BY <1>1, Invariant, PTL

(* An argument of eedit, ecreate or dedit takes one partition from the     *)
(* list, puts one there, or both, and leaves the others in their order.    *)
THEOREM OthersStay == Spec => OthersKept
<1>1. IInv /\ [Next]_vars =>
        [step' > step =>
           \E i \in 0 .. Len(list), j \in 0 .. Len(list') :
             Without(list, i) = Without(list', j)]_vars
  <2> SUFFICES ASSUME IInv, Next, step' > step PROVE Touched(list, list')
    BY DEF Touched
  <2>1. step \in Int BY DEF IInv, Typed
  <2>2. Edit BY <2>1 DEF Next, Prepare, Parse, Finish
  <2> QED BY <2>2, EditIInv
<1> QED BY <1>1, Invariant, PTL DEF Spec, OthersKept

(* What eedit defines without an offset lies behind all that is there: its *)
(* offset is the capacity, which no partition within the disk exceeds.     *)
THEOREM DefinedBehind == Spec => DefinedApart
<1>1. ASSUME IInv, Next, step' > step, mode = "eedit", \A k \in DOMAIN list : Within(list[k]),
             args[step'].op = "define", ~Given(args[step'].offset)
      PROVE  \A k \in DOMAIN list : Apart(list[k], list'[Len(list')])
  <2> DEFINE a == args[step + 1]
             p == Defined(a, Capacity(list), Limit)
  <2>1. step \in Int /\ list \in Seq(Kind(mode)) BY <1>1 DEF IInv, Typed
  <2>2. Edit BY <1>1, <2>1 DEF Next, Prepare, Parse, Finish
  <2>3. /\ a \in Arguments /\ Applied(a).ok /\ list' = Applied(a).parts /\ step' = step + 1
    BY <1>1, <2>1, <2>2, Applies
  <2>4. list \in Seq(Partition) BY <1>1, <2>1 DEF Kind
  <2>5. a.op = "define" /\ ~Given(a.offset) BY <1>1, <2>3
  <2>6. Applied(a) = Eedited(list, Limit, a) BY <1>1 DEF Applied
  <2>7. Eedited(list, Limit, a) = IF Full(list) THEN Failed ELSE Done(Append(list, p))
    BY <2>5 DEF Eedited
  <2> HIDE DEF a
  <2>8. list' = Append(list, p)
    <3>1. ~Failed.ok /\ Done(Append(list, p)).parts = Append(list, p) BY DEF Failed, Done
    <3> HIDE DEF p
    <3> QED BY <2>3, <2>6, <2>7, <3>1
  <2>9. /\ Capacity(list) \in Bytes /\ Capacity(list) <= Limit
        /\ \A k \in DOMAIN list : list[k].offset + list[k].size <= Capacity(list)
    BY <1>1, <2>4, CapacityBytes
  <2>10. p.offset = Capacity(list) /\ p \in Partition BY <2>3, <2>5, <2>9, NewPart
  <2> HIDE DEF p
  <2>11. list'[Len(list')] = p BY <2>4, <2>8, <2>10
  <2> QED BY <2>9, <2>10, <2>11 DEF Apart
<1>2. IInv /\ [Next]_vars =>
        [(/\ step' > step /\ mode = "eedit" /\ \A k \in DOMAIN list : Within(list[k])
          /\ args[step'].op = "define" /\ ~Given(args[step'].offset)) =>
            \A k \in DOMAIN list : Apart(list[k], list'[Len(list')])]_vars
  BY <1>1
<1> QED BY <1>2, Invariant, PTL DEF Spec, DefinedApart

(* What ept_ungap leaves free before reserved is too small for any of the  *)
(* partitions it has put behind: the greedy fill it keeps is also maximal. *)
THEOREM GapFilled == Spec => []GapUsed
<1>1. IInv => GapUsed
  <2> SUFFICES ASSUME IInv, FreshlyCreated, list[1].size < OffsetReserved PROVE GapUsed
    BY DEF GapUsed
  <2> DEFINE r == CHOOSE k \in DOMAIN list : list[k].name = "reserved"
             left == OffsetReserved - (list[r - 1].offset + list[r - 1].size)
  <2>1. /\ NamesUnique(list) /\ DOMAIN list = 1 .. Len(list) /\ \E k : LaidOut(list, k)
    BY CreatedLaidOut
  <2>2. PICK k : LaidOut(list, k) BY <2>1
  <2>3. k \in DOMAIN list /\ list[k].name = "reserved" BY <2>1, <2>2 DEF LaidOut
  <2>4. r = k BY <2>1, <2>3 DEF NamesUnique
  <2> HIDE DEF r
  <2>5. \A i \in r + 1 .. Len(list) : list[i].size > left BY <2>2, <2>4 DEF LaidOut
  <2> HIDE DEF left
  <2> QED BY <2>5 DEF GapUsed, r, left
<1> QED BY <1>1, Invariant, PTL

(* As long as no end wraps, ept_ungap lays out the partitions without      *)
(* overlap, and reserved where the bootloader expects it.                  *)
THEOREM NoOverlap ==
  Spec => []((\A k \in DOMAIN list : list[k].offset + list[k].size < Word) => EssentialsApart)
<1>1. IInv => ((\A k \in DOMAIN list : list[k].offset + list[k].size < Word) => EssentialsApart)
  <2> SUFFICES ASSUME IInv, FreshlyCreated, list[1].size < OffsetReserved,
                      \A k \in DOMAIN list : list[k].offset + list[k].size < Word
               PROVE  /\ \A j, k \in DOMAIN list : j # k => Apart(list[j], list[k])
                      /\ \A k \in DOMAIN list :
                           list[k].name = "reserved" => list[k].offset = OffsetReserved
    BY DEF EssentialsApart
  <2>1. /\ list \in Seq(Partition) /\ NamesUnique(list) /\ DOMAIN list = 1 .. Len(list)
        /\ \E r : LaidOut(list, r)
    BY CreatedLaidOut
  <2>2. PICK r : LaidOut(list, r) BY <2>1
  <2>3. r \in DOMAIN list /\ list[r].name = "reserved" /\ list[r].offset = OffsetReserved
    BY <2>1, <2>2 DEF LaidOut
  <2>4. \A k \in DOMAIN list : list[k].name = "reserved" => list[k].offset = OffsetReserved
    BY <2>1, <2>3 DEF NamesUnique
  <2>5. ASSUME NEW k \in 1 .. Len(list), k > 1
        PROVE  list[k - 1].offset + list[k - 1].size <= list[k].offset
    <3>1. CASE k \in 2 .. r BY <2>2, <3>1 DEF LaidOut
    <3>2. CASE k \notin 2 .. r
      <4>1. k \in r + 1 .. Len(list) /\ k - 1 \in 1 .. Len(list)
        BY <2>2, <2>5, <3>2 DEF LaidOut
      <4>2. list[k].offset = End(list[k - 1]) BY <2>2, <4>1 DEF LaidOut
      <4>3. list[k - 1] \in Partition BY <2>1, <4>1
      <4>4. list[k - 1].offset \in Nat /\ list[k - 1].size \in Nat
        BY <4>3, TableAssumption DEF Partition, Bytes
      <4>5. list[k - 1].offset + list[k - 1].size < Word BY <2>1, <4>1
      <4> DEFINE offset == list[k - 1].offset
                 size == list[k - 1].size
      <4>6. End(list[k - 1]) = Add(offset, size) BY DEF End
      <4> HIDE DEF offset, size
      <4>7. offset \in Nat /\ size \in Nat /\ offset + size < Word BY <4>4, <4>5 DEF offset, size
      <4>8. offset + size \in Bytes BY <4>7, TableAssumption DEF Bytes
      <4>9. End(list[k - 1]) = offset + size BY <4>6, <4>7, <4>8, Wrapping
      <4> QED BY <4>2, <4>7, <4>9 DEF offset, size
    <3> QED BY <3>1, <3>2
  <2>6. \A j, k \in 1 .. Len(list) : j # k => Apart(list[j], list[k])
    BY <2>1, <2>5, Ordered
  <2> QED BY <2>1, <2>4, <2>6
<1> QED BY <1>1, Invariant, PTL
==============================================================================

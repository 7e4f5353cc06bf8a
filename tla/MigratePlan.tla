----------------------------- MODULE MigratePlan -----------------------------
(***************************************************************************)
(* ept_migrate_plan (src/ept.c): from an old and a new table, the block    *)
(* size and, for each block of the old disk, where io_migrate is to put it.*)
(* A partition of the old table whose namesake in the new table has        *)
(* another offset is moved, up to the smaller of the two sizes.  The plan  *)
(* is [ok, block, count, target, pending], the last three only if ok.      *)
(***************************************************************************)
EXTENDS EptTable

CONSTANT IdLimit          \* 2^32: block ids and counts are uint32_t

ASSUME IdAssumption == IdLimit \in Nat \ {0}

Id(n) == n % IdLimit

(* The two shrinks of a move of count0 blocks from start to goal.  The     *)
(* second recomputes the count from target_start (ept.c:982).              *)
Shrunk(start, goal, count0, totalFrom, totalTo) ==
  LET end0    == Id(start + count0)
      end1    == Least(end0, totalFrom)
      count1  == IF end0 > totalFrom THEN Id(end1 - start) ELSE count0
      goalEnd == Id(goal + count1)
      end2    == IF goalEnd > totalTo THEN Id(end1 - (goalEnd - totalTo)) ELSE end1
      count2  == IF goalEnd > totalTo THEN Id(end2 - goal) ELSE count1
      skipped == (end0 > totalFrom /\ end1 <= start)
                   \/ (goalEnd > totalTo /\ end2 <= start)
  IN [start |-> start, goal |-> goal, count |-> IF skipped THEN 0 ELSE count2]

ExtentShort(from, to, block, totalFrom, totalTo) ==   \* mutant: a block too few
  Shrunk(Id(from.offset \div block), Id(to.offset \div block),
         Id((Least(from.size, to.size) - 1) \div block), totalFrom, totalTo)

ExtentBeyond(from, to, block, totalFrom, totalTo) ==  \* mutant: one block further
  Shrunk(Id(from.offset \div block), Id(to.offset \div block) + 1,
         Id(Least(from.size, to.size) \div block), totalFrom, totalTo + 1)

ExtentLarger(from, to, block, totalFrom, totalTo) ==  \* mutant: the larger size
  Shrunk(Id(from.offset \div block), Id(to.offset \div block),
         Id(Greatest({from.size, to.size}) \div block), totalFrom, totalTo)

(* The blocks of one matching pair of partitions                           *)
Extent(from, to, block, totalFrom, totalTo) ==
  Shrunk(Id(from.offset \div block), Id(to.offset \div block),
         Id(Least(from.size, to.size) \div block), totalFrom, totalTo)

Plan(old, new, all) ==
  LET block == Least(MinimumBlock(old), MinimumBlock(new))
      capacityOld == Capacity(old)
      capacityNew == Capacity(new)
      totalOld == capacityOld \div block
      totalNew == capacityNew \div block
      count == Id(IF capacityOld > capacityNew THEN totalOld ELSE totalNew)
      pairs == {p \in (DOMAIN old) \X (DOMAIN new) :
                  /\ all \/ old[p[1]].name \in Essential
                  /\ old[p[1]].name = new[p[2]].name
                  /\ old[p[1]].offset # new[p[2]].offset}
      extent == [p \in pairs |-> Extent(old[p[1]], new[p[2]], block, totalOld, totalNew)]
      covering == [b \in 0 .. count - 1 |->
                     {p \in pairs : b \in extent[p].start ..
                                          extent[p].start + extent[p].count - 1}]
      \* the two loops overwrite: the last old partition, then the last new one
      last(S) == CHOOSE p \in S : \A q \in S :
                   q[1] < p[1] \/ (q[1] = p[1] /\ q[2] <= p[2])
  IN IF \/ old = <<>> \/ new = <<>>
        \/ capacityOld = 0 \/ capacityNew = 0
        \/ capacityOld % block # 0 \/ capacityNew % block # 0
        \/ \E p \in pairs : extent[p].start >= totalOld \/ extent[p].goal >= totalNew
     THEN [ok |-> FALSE, block |-> block]
     ELSE [ok |-> TRUE, block |-> block, count |-> count,
           pending |-> {b \in 0 .. count - 1 : covering[b] # {}},
           target |-> [b \in 0 .. count - 1 |->
                         IF covering[b] = {} THEN 0
                         ELSE LET e == extent[last(covering[b])]
                              IN e.goal + (b - e.start)]]
==============================================================================

------------------------------- MODULE EptTable -------------------------------
(***************************************************************************)
(* The eMMC partition table (src/ept.c, include/ept.h) and its conversions *)
(* to and from the partitions node of the DTB.  Offsets and sizes are      *)
(* counted in units; their arithmetic wraps at Word as uint64_t does.      *)
(*                                                                         *)
(* A table is [magic, version, sum, parts]: whether the magic and version  *)
(* are the expected ones, the stored checksum and the partitions.  The     *)
(* checksum adds up the first partition partitions_count times, so it      *)
(* stands for that pair.  Slots past partitions_count are not modelled.    *)
(*                                                                         *)
(* DParts are what the DTB keeps of a table: name, size and mask, in order *)
(***************************************************************************)
EXTENDS Integers, Sequences, FiniteSets

CONSTANTS
  Word,            \* 2^64
  MaxParts,        \* MAX_PARTITIONS_COUNT, 32
  MaxBlock,        \* the largest block tried, EPT_PARTITION_BOOTLOADER_SIZE
  BootloaderSize, ReservedSize, EnvSize,    \* of ept_table_empty
  GapReserved, GapPartition,                \* cli_options.gap_*
  LegalNames,      \* names ept_valid_partition_name accepts
  Essential        \* names in ept_partition_essential_names

ASSUME TableAssumption ==
  /\ Word \in Nat \ {0} /\ MaxParts \in Nat /\ MaxParts >= 4
  /\ MaxBlock \in 1 .. Word - 1
  /\ {BootloaderSize, ReservedSize, EnvSize, GapReserved, GapPartition}
       \subseteq 0 .. Word - 1
  /\ BootloaderSize > 0

(* 4 MiB is a power of two: no odd number divides it but 1.                *)
ASSUME BlockAssumption ==
  \A d \in 1 .. MaxBlock : MaxBlock % d = 0 => d = 1 \/ d % 2 = 0

(* struct ept_partition, its offset and size being uint64_t                *)
Bytes == 0 .. Word - 1
Partition == [name : STRING, offset : Bytes, size : Bytes, mask : Int]

Rest == Word - 1                     \* (uint64_t)-1: "all that remains"
Add(a, b) == (a + b) % Word
Sub(a, b) == (a - b) % Word
Least(a, b) == IF a < b THEN a ELSE b
Greatest(S) == CHOOSE x \in S : \A y \in S : x >= y

Part(name, offset, size, mask) ==
  [name |-> name, offset |-> offset, size |-> size, mask |-> mask]

End(p) == Add(p.offset, p.size)

Critical == {"bootloader", "reserved"}
PedanticNames == <<"bootloader", "reserved", "cache", "env">>

(***************************************************************************)
(* Validity, comparison, capacity                                          *)
(***************************************************************************)
Checksum(parts) == IF parts = <<>> THEN <<>> ELSE <<Len(parts), parts[1]>>

Table(parts) ==   \* header of ept_table_empty, then ept_checksum_table
  [magic |-> TRUE, version |-> TRUE, sum |-> Checksum(parts), parts |-> parts]

ValidHeader(t) ==
  /\ Len(t.parts) \in 0 .. MaxParts
  /\ t.magic /\ t.version
  /\ t.sum = Checksum(t.parts)

NamesUnique(parts) ==
  \A i, j \in DOMAIN parts : parts[i].name = parts[j].name => i = j

ValidTable(t) ==
  /\ ValidHeader(t)
  /\ \A i \in DOMAIN t.parts : t.parts[i].name \in LegalNames
  /\ NamesUnique(t.parts)

(* ept_compare_table = 0; it is -1 when either has no magic or no partition *)
SameTable(t, u) ==
  /\ t.magic /\ u.magic /\ t.parts # <<>> /\ u.parts # <<>>
  /\ t.version = u.version
  /\ t.parts = u.parts

EndOfLast(parts) ==              \* mutant: the end of the last in the list
  IF parts = <<>> THEN 0 ELSE End(parts[Len(parts)])

Capacity(parts) == Greatest({0} \union {End(parts[i]) : i \in DOMAIN parts})

(***************************************************************************)
(* The layout Amlogic's u-boot derives from sizes alone                    *)
(***************************************************************************)
(* ept_pedantic_offsets: [ok, parts]                                       *)
PedanticOffsets(parts, capacity) ==
  LET n == Len(parts)
      laid[i \in 0 .. n] ==
        IF i = 0 THEN [ok |-> TRUE, parts |-> <<>>]
        ELSE LET before == laid[i - 1]
                 p == parts[i]
                 offset == CASE i = 1 -> 0
                             [] i = 2 -> Add(parts[1].size, GapReserved)
                             [] OTHER -> Add(End(before.parts[i - 1]), GapPartition)
                 cut == i > 2 /\ (p.size = Rest \/ Add(offset, p.size) > capacity)
                 placed == [p EXCEPT !.offset = offset,
                              !.size = IF cut THEN Sub(capacity, offset) ELSE @]
             IN IF ~before.ok \/ (i > 2 /\ offset > capacity)
                  THEN [ok |-> FALSE, parts |-> <<>>]
                  ELSE [ok |-> TRUE, parts |-> Append(before.parts, placed)]
  IN IF n >= 4 /\ \A i \in 1 .. 4 : parts[i].name = PedanticNames[i]
       THEN laid[n] ELSE [ok |-> FALSE, parts |-> <<>>]

EmptyParts ==
  << Part("bootloader", 0, BootloaderSize, 0), Part("reserved", 0, ReservedSize, 0),
     Part("cache", 0, 0, 0), Part("env", 0, EnvSize, 0) >>

PedanticReference(capacity) == PedanticOffsets(EmptyParts, capacity)

IsPedanticByName(parts) ==      \* mutant: the offsets are not looked at
  Len(parts) >= 4 /\ \A i \in 1 .. 4 : parts[i].name = PedanticNames[i]

(* ept_is_not_pedantic = 0.  The capacity is the table's own.              *)
IsPedantic(parts) ==
  LET capacity == Capacity(parts)
      reference == PedanticReference(capacity)
  IN /\ Len(parts) >= 4
     /\ capacity # 0
     /\ reference.ok
     /\ \A i \in 1 .. 2 : parts[i] = reference.parts[i]
     /\ \A i \in 3 .. 4 : parts[i].name = PedanticNames[i]
     /\ \A i \in 3 .. Len(parts) :
          parts[i].offset = Add(End(parts[i - 1]), GapPartition)

(***************************************************************************)
(* Conversions between the table and the DTB's partitions                  *)
(***************************************************************************)
DPart(name, size, mask) == [name |-> name, size |-> size, mask |-> mask]
DPartition == [name : STRING, size : Bytes, mask : Int]

Find(parts, name) == {i \in DOMAIN parts : parts[i].name = name}

(* One round of the loop: replace the partition of that name, or append.   *)
Merge(parts, d) ==
  IF Find(parts, d.name) # {}
    THEN LET i == CHOOSE k \in Find(parts, d.name) :
                     \A l \in Find(parts, d.name) : k <= l
         IN [parts EXCEPT ![i].size = d.size, ![i].mask = d.mask]
    ELSE Append(parts, Part(d.name, 0, d.size, d.mask))

(* ept_table_from_dts_partitions_helper[_simple]: [ok, parts]              *)
FromDParts(dparts, capacity) ==
  LET merged[i \in 0 .. Len(dparts)] ==
        IF i = 0 THEN EmptyParts ELSE Merge(merged[i - 1], dparts[i])
  IN IF Len(merged[Len(dparts)]) > MaxParts THEN [ok |-> FALSE, parts |-> <<>>]
     ELSE PedanticOffsets(merged[Len(dparts)], capacity)

(* ept_table_to_dts_partitions_helper: [ok, dparts].  The first four are   *)
(* left out where they are what ept_table_empty says anyway.               *)
ToDParts(parts, capacity) ==
  LET reference == PedanticReference(capacity)
      kept[i \in 0 .. Len(parts)] ==
        IF i = 0 THEN <<>>
        ELSE IF i <= 4 /\ parts[i] = reference.parts[i] THEN kept[i - 1]
        ELSE Append(kept[i - 1],
               DPart(parts[i].name,
                     IF End(parts[i]) >= capacity THEN Rest ELSE parts[i].size,
                     parts[i].mask))
  IN IF parts = <<>> \/ capacity = 0 \/ ~reference.ok
       THEN [ok |-> FALSE, dparts |-> <<>>]
       ELSE [ok |-> TRUE, dparts |-> kept[Len(parts)]]

(***************************************************************************)
(* ept_get_minimum_block                                                   *)
(***************************************************************************)
Halved(block, n) == IF n % block = 0 THEN block ELSE block \div 2

(* One pass over the partitions halves the block at each field that it     *)
(* does not divide.                                                        *)
OnePass(parts, block) ==
  LET pass[i \in 0 .. Len(parts)] ==
        IF i = 0 THEN block
        ELSE Halved(Halved(pass[i - 1], parts[i].offset), parts[i].size)
  IN pass[Len(parts)]

(* They are passed over again until nothing changes.                       *)
MinimumBlock(parts) ==
  LET settle[b \in 1 .. MaxBlock] ==
        IF OnePass(parts, b) = b THEN b ELSE settle[OnePass(parts, b)]
  IN settle[MaxBlock]
==============================================================================

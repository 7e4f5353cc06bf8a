-------------------------------- MODULE EptEdit --------------------------------
(***************************************************************************)
(* Editing and creating tables (src/ept.c): ept_eedit_parse one argument   *)
(* at a time, and ept_ecreate_parse with ept_ungap.  The result of each is *)
(* [ok, parts].                                                            *)
(***************************************************************************)
EXTENDS Parg

CONSTANTS OffsetReserved   \* cli_options.offset_reserved

ASSUME EptEditAssumption == OffsetReserved \in 0 .. Word - 1

(* ept_valid_partition_name accepts the names of the default table.        *)
ASSUME NamesAssumption ==
  LegalNames \subseteq STRING /\ \A i \in 1 .. 4 : PedanticNames[i] \in LegalNames

Done(list) == [ok |-> TRUE, parts |-> list]
Failed == [ok |-> FALSE, parts |-> <<>>]

SanitizedOffset(p, capacity) == [p EXCEPT !.offset = Least(@, capacity)]

SanitizedSizeAlone(p, capacity) ==  \* mutant: the offset is forgotten
  [p EXCEPT !.size = Least(@, capacity)]

SanitizedSize(p, capacity) ==
  IF End(p) > capacity THEN [p EXCEPT !.size = Sub(@, Sub(End(p), capacity))] ELSE p

(* A partition as defined; end is where it begins if no offset says else.  *)
Defined(a, end, capacity) ==
  LET offset == CASE ~Given(a.offset) -> end
                  [] Given(a.offset) /\ a.offset.sign = "+" -> Add(end, Value(a.offset))
                  [] OTHER -> Value(a.offset)
      at == Least(offset, capacity)
      size == IF Given(a.size) THEN Value(a.size) ELSE capacity - at
  IN SanitizedSize(Part(a.name, at, size, IF a.masks = -1 THEN 4 ELSE a.masks), capacity)

(***************************************************************************)
(* eedit                                                                   *)
(***************************************************************************)
(* ept_eedit_adjust: [ok, parts]                                           *)
AdjustedPart(list, i, a, capacity) ==
  LET named == IF a.name = "" THEN list[i] ELSE [list[i] EXCEPT !.name = a.name]
      moved == SanitizedOffset([named EXCEPT !.offset = Adjusted(@, a.offset)], capacity)
      sized == SanitizedSize([moved EXCEPT !.size = Adjusted(@, a.size)], capacity)
      final == IF a.masks = -1 THEN sized ELSE [sized EXCEPT !.mask = a.masks]
  IN IF CanAdjust(list[i].offset, a.offset) /\ CanAdjust(list[i].size, a.size)
       THEN Done([list EXCEPT ![i] = final]) ELSE Failed

(* ept_eedit_each                                                          *)
Eedited(list, capacity, a) ==
  LET i == Selected(list, a.select)
      to == PlaceTarget(a.place, i, Len(list))
  IN CASE a.op = "define" ->
            IF Full(list) THEN Failed ELSE Done(Append(list, Defined(a, Capacity(list), capacity)))
       [] a.op # "define" /\ i = 0 -> Failed
       [] a.op = "adjust" /\ i # 0 -> AdjustedPart(list, i, a, capacity)
       [] a.op = "delete" /\ i # 0 -> Done(Deleted(list, i))
       [] a.op = "clone" /\ i # 0 ->
            IF Full(list) THEN Failed ELSE Done(Append(list, [list[i] EXCEPT !.name = a.name]))
       [] a.op = "place" /\ i # 0 ->
            IF to \in DOMAIN list THEN Done(Placed(list, i, to)) ELSE Failed

(***************************************************************************)
(* eclone                                                                  *)
(***************************************************************************)
PartDefined(a) == Part(a.name, Value(a.offset), Value(a.size), a.masks)

(* ept_eclone_parse                                                        *)
Cloned(parts, capacity) ==
  [k \in DOMAIN parts |->
     [parts[k] EXCEPT !.size = IF End(parts[k]) > capacity
                                 THEN Sub(@, Sub(End(parts[k]), capacity)) ELSE @]]

EcloneParsed(args, capacity) ==
  LET parts == Cloned([k \in DOMAIN args |-> PartDefined(args[k])], capacity)
  IN IF args = <<>> \/ Parsed("eclone", args) # "ok" \/ Capacity(parts) > capacity
       THEN Failed ELSE Done(parts)

(***************************************************************************)
(* ecreate                                                                 *)
(***************************************************************************)
(* The default table, with the essential partitions of the old one in it   *)
Retained(old) ==
  LET kept[i \in 0 .. Len(old)] ==
        IF i = 0 THEN Done(EmptyParts)
        ELSE LET so == kept[i - 1]
                 there == Find(so.parts, old[i].name)
             IN IF old[i].name \notin Essential \/ ~so.ok THEN so
                ELSE IF there # {} THEN
                  Done([so.parts EXCEPT ![CHOOSE j \in there : \A k \in there : j <= k] = old[i]])
                ELSE IF Len(so.parts) >= MaxParts THEN Failed
                ELSE Done(Append(so.parts, old[i]))
  IN kept[Len(old)]

(* Two nested loops that swap what is out of order: not a stable sort.     *)
SortedDown(list) ==
  LET n == Len(list)
      round[k \in 0 .. n * n] ==
        IF k = 0 THEN list
        ELSE LET i == ((k - 1) \div n) + 1
                 j == ((k - 1) % n) + 1
                 so == round[k - 1]
             IN IF i < j /\ so[i].size < so[j].size
                  THEN [so EXCEPT ![i] = so[j], ![j] = so[i]] ELSE so
  IN round[n * n]

FillsAnyway(sorted, gap, i) ==   \* mutant: the gap is not used up
  [left |-> 0, taken |-> {j \in i .. Len(sorted) : sorted[j].size <= gap}]

FillsStrictly(sorted, gap, i) == \* mutant: an exact fit is not taken
  LET fill[j \in 0 .. Len(sorted)] ==
        IF j < i THEN [left |-> gap, taken |-> {}]
        ELSE IF sorted[j].size >= fill[j - 1].left THEN fill[j - 1]
        ELSE [left |-> fill[j - 1].left - sorted[j].size, taken |-> fill[j - 1].taken \union {j}]
  IN fill[Len(sorted)]

(* The gap filled from the i-th on: what is left of it and who is in it    *)
Fills(sorted, gap, i) ==
  LET fill[j \in 0 .. Len(sorted)] ==
        IF j < i THEN [left |-> gap, taken |-> {}]
        ELSE LET so == fill[j - 1]
             IN IF sorted[j].size > so.left \/ so.left = 0 THEN so
                ELSE [left |-> so.left - sorted[j].size, taken |-> so.taken \union {j}]
  IN fill[Len(sorted)]

(* The first start that leaves the least                                   *)
BestFill(sorted, gap) ==
  LET best[i \in 0 .. Len(sorted)] ==
        IF i = 0 THEN [left |-> gap, taken |-> {}]
        ELSE LET this == Fills(sorted, gap, i)
             IN IF this.left < best[i - 1].left THEN this ELSE best[i - 1]
  IN best[Len(sorted)].taken

PickedButLast(list, chosen) ==   \* mutant: the last one is forgotten
  LET pick[k \in 0 .. Len(list)] ==
        IF k = 0 THEN <<>>
        ELSE IF k \in chosen /\ k < Len(list) THEN Append(pick[k - 1], list[k]) ELSE pick[k - 1]
  IN pick[Len(list)]

Picked(list, chosen) ==      \* the members at chosen places, in order
  LET pick[k \in 0 .. Len(list)] ==
        IF k = 0 THEN <<>>
        ELSE IF k \in chosen THEN Append(pick[k - 1], list[k]) ELSE pick[k - 1]
  IN pick[Len(list)]

(* Each at the end of the one before it, the first at offset               *)
Chained(list, offset) ==
  LET chain[k \in 0 .. Len(list)] ==
        IF k = 0 THEN [at |-> offset, parts |-> <<>>]
        ELSE [at |-> Add(chain[k - 1].at, list[k].size),
              parts |-> Append(chain[k - 1].parts, [list[k] EXCEPT !.offset = chain[k - 1].at])]
  IN chain[Len(list)].parts

(* ept_ungap, of a table that has bootloader and reserved once: whatever   *)
(* fits goes between the two, the rest after reserved; the code returns 1  *)
(* or 2 for other tables, and ecreate has none.                            *)
Ungapped(list) ==
  LET boot == CHOOSE i \in DOMAIN list : list[i].name = "bootloader"
      res == CHOOSE i \in DOMAIN list : list[i].name = "reserved"
      bootloader == [list[boot] EXCEPT !.offset = 0]
      reserved == [list[res] EXCEPT !.offset = OffsetReserved]
      sorted == SortedDown(Picked(list, DOMAIN list \ {boot, res}))
      gap == Sub(OffsetReserved, bootloader.size)
      inside == BestFill(sorted, gap) \union {k \in DOMAIN sorted : sorted[k].size = 0}
  IN IF sorted = <<>> \/ gap = 0
       THEN [k \in DOMAIN list |->
              [list[k] EXCEPT !.offset = IF k = res THEN OffsetReserved ELSE 0]]
       ELSE <<bootloader>> \o Chained(Picked(sorted, inside), bootloader.size)
              \o <<reserved>> \o Chained(Picked(sorted, DOMAIN sorted \ inside), End(reserved))

(* ept_ecreate_parse up to the arguments                                   *)
Prepared(old) == IF Retained(old).ok THEN Done(Ungapped(Retained(old).parts)) ELSE Failed

(* One definer: a partition of that name makes way for it.                 *)
Ecreated(list, capacity, a) ==
  LET there == Find(list, a.name)
      left == IF there = {} THEN list
              ELSE Deleted(list, CHOOSE j \in there : \A k \in there : j <= k)
  IN IF Len(left) >= MaxParts THEN Failed
     ELSE Done(Append(left, Defined(a, End(left[Len(left)]), capacity)))

(***************************************************************************)
(* A whole command: what becomes of a table, with the outcome of parsing   *)
(***************************************************************************)
EeditParsed(list, capacity, args) ==
  LET edit[i \in 0 .. Len(args)] ==
        IF i = 0 THEN Done(list)
        ELSE IF edit[i - 1].ok THEN Eedited(edit[i - 1].parts, capacity, args[i]) ELSE Failed
  IN IF args = <<>> \/ Parsed("eedit", args) # "ok" THEN Failed ELSE edit[Len(args)]

TooManyDefined(prepared, args) == Len(args) > MaxParts - Len(prepared.parts)

EcreateParsed(old, capacity, args) ==
  LET start == Prepared(old)
      create[i \in 0 .. Len(args)] ==
        IF i = 0 THEN start
        ELSE IF create[i - 1].ok THEN Ecreated(create[i - 1].parts, capacity, args[i])
        ELSE Failed
  IN IF ~start.ok \/ TooManyDefined(start, args) \/ Parsed("ecreate", args) # "ok"
       THEN Failed ELSE create[Len(args)]
==============================================================================

--------------------------------- MODULE Parg ---------------------------------
(***************************************************************************)
(* The partition-argument mini language (src/parg.c): what one argument    *)
(* says, which arguments a mode accepts and what the parser makes of them. *)
(*                                                                         *)
(* A PARG is a definer, {name}:{offset}:{size}:{masks}, or a modifier,     *)
(* ^{selector}{operator}{suffix}, as a record of its fields as written:    *)
(*   op      "define", or the operator: "adjust", "delete", "clone",       *)
(*           "place", "nothing" when there is none                         *)
(*   select  [by, name, index], by = "name", "index" or "none"             *)
(*   name    "" when it is not given                                       *)
(*   offset, size   [sign, digits], digits = -1 when there are none        *)
(*   masks   -1 when not given                                             *)
(*   place   [how, by], how = "absolute", "relative" or "none"             *)
(* Illegal characters and names that are too long are names outside        *)
(* LegalNames.                                                             *)
(***************************************************************************)
EXTENDS EptTable

CONSTANTS
  NameReadings(_),  \* what an unterminated copy of a name may read as
  IndexReadings(_)  \* and one of a number

Number(sign, digits) == [sign |-> sign, digits |-> digits]
Absent == Number("", -1)

(* struct parg_definer and struct parg_modifier, their numbers of 64 bits  *)
Numbers == [sign : {"", "-", "+"}, digits : (-1) .. Word - 1]
Arguments ==
  [op : {"define", "adjust", "delete", "clone", "place", "nothing"},
   select : [by : {"none", "name", "index"}, name : STRING, index : Int],
   name : STRING, offset : Numbers, size : Numbers, masks : Int,
   place : [how : {"none", "absolute", "relative"}, by : Int]]

Given(n) == n # Absent

(* strtoul, which negates after a "-"; the parsers drop a "+" before it    *)
Value(n) ==
  CASE n.digits = -1 -> 0
    [] n.digits # -1 /\ n.sign = "-" -> Sub(0, n.digits)
    [] OTHER -> n.digits

(***************************************************************************)
(* Definers: the signs and the fields a mode allows and asks for           *)
(***************************************************************************)
Allowance ==
  [ecreate |-> [offset |-> {"", "-", "+"}, size |-> {"", "-"}, required |-> {}],
   eclone  |-> [offset |-> {"", "-"}, size |-> {"", "-"},
                required |-> {"offset", "size", "masks"}],
   dclone  |-> [offset |-> {}, size |-> {"", "-"}, required |-> {"size", "masks"}]]

LegalDefiner(a, mode) ==
  LET allow == Allowance[mode]
  IN /\ a.name \in LegalNames \ {""}
     /\ Given(a.offset) => a.offset.sign \in allow.offset
     /\ Given(a.size) => a.size.sign \in allow.size
     /\ "offset" \in allow.required => Given(a.offset)
     /\ "size" \in allow.required => Given(a.size)
     /\ "masks" \in allow.required => a.masks # -1

(***************************************************************************)
(* Modifiers                                                               *)
(***************************************************************************)
LegalAdjustment(n) == Given(n) => n.digits # -1

LegalAdjustorPrefix(a, eedit) ==      \* all of it that comes before the size
  /\ a.name = "" \/ a.name \in LegalNames
  /\ Given(a.offset) => eedit /\ LegalAdjustment(a.offset)

LegalModifier(a, eedit) ==
  /\ a.select.by # "none"
  /\ CASE a.op = "adjust" -> LegalAdjustorPrefix(a, eedit) /\ LegalAdjustment(a.size)
       [] a.op = "clone"  -> a.name # ""
       [] a.op = "place"  -> a.place.how # "none"
       [] a.op = "delete" -> TRUE
       [] OTHER -> FALSE

(* A bad size frees a pointer into the middle of the array of editors, on  *)
(* which the allocator aborts.                                             *)
Aborts(a, eedit) ==
  /\ a.op = "adjust" /\ a.select.by # "none"
  /\ LegalAdjustorPrefix(a, eedit) /\ ~LegalAdjustment(a.size)

(***************************************************************************)
(* The editors are not cleared and the copies of a selector and of an      *)
(* adjustor's name are not terminated, so either may read on.              *)
(***************************************************************************)
Readings(a) ==
  {[a EXCEPT !.select = s, !.name = n] :
     s \in CASE a.select.by = "name" ->
                  {[a.select EXCEPT !.name = x] : x \in NameReadings(a.select.name)}
             [] a.select.by = "index" ->
                  {[a.select EXCEPT !.index = x] : x \in IndexReadings(a.select.index)}
             [] OTHER -> {a.select},
     n \in IF a.op = "adjust" /\ a.name # "" THEN NameReadings(a.name) ELSE {a.name}}

ArgReadings(args) ==
  LET upTo[i \in 0 .. Len(args)] ==
        IF i = 0 THEN {<<>>} ELSE {Append(r, a) : r \in upTo[i - 1], a \in Readings(args[i])}
  IN upTo[Len(args)]

(***************************************************************************)
(* parg_parse_*_mode: all the arguments are parsed before any is acted on. *)
(***************************************************************************)
LegalFor(mode, a) ==
  CASE mode = "eedit" -> IF a.op = "define" THEN LegalDefiner(a, "ecreate")
                                            ELSE LegalModifier(a, TRUE)
    [] mode = "dedit" -> IF a.op = "define" THEN LegalDefiner(a, "dclone")
                                            ELSE LegalModifier(a, FALSE)
    [] OTHER -> a.op = "define" /\ LegalDefiner(a, mode)

Parsed(mode, args) ==    \* "ok", "refused" or "aborted", by the first bad one
  LET bad == {i \in DOMAIN args : ~LegalFor(mode, args[i])}
  IN IF bad = {} THEN "ok"
     ELSE LET first == args[CHOOSE i \in bad : \A j \in bad : i <= j]
          IN IF mode \in {"eedit", "dedit"} /\ Aborts(first, mode = "eedit")
               THEN "aborted" ELSE "refused"

(***************************************************************************)
(* Selecting, placing and adjusting, the same for tables and DTB lists     *)
(***************************************************************************)
FullLate(list) == Len(list) > MaxParts   \* mutant: one too many
Full(list) == Len(list) >= MaxParts

(* ept_eedit_part_select, dts_dedit_part_select; 0 when none is selected   *)
Selected(list, select) ==
  LET found == Find(list, select.name)
      n == Len(list)
  IN CASE select.by = "name" ->
            IF found = {} THEN 0 ELSE CHOOSE i \in found : \A j \in found : i <= j
       [] select.by = "index" /\ select.index >= 0 ->
            IF select.index + 1 > n THEN 0 ELSE select.index + 1
       [] OTHER -> IF -select.index > n THEN 0 ELSE n + select.index + 1

(* parg_get_place_target, counted from 1; to move by 0 is no legal method  *)
PlaceTarget(place, current, count) ==
  CASE place.how = "absolute" /\ place.by >= 0 -> place.by + 1
    [] place.how = "absolute" /\ place.by < 0 -> count + place.by + 1
    [] place.how = "relative" /\ place.by # 0 -> current + place.by
    [] OTHER -> 0

PlacedSwapping(list, from, to) ==  \* mutant: the two change places
  [list EXCEPT ![from] = list[to], ![to] = list[from]]

(* Those in between move up or down by one.                                *)
Placed(list, from, to) ==
  [k \in DOMAIN list |->
     CASE k = to -> list[from]
       [] from <= k /\ k < to -> list[k + 1]
       [] to < k /\ k <= from -> list[k - 1]
       [] OTHER -> list[k]]

Deleted(list, i) ==
  [k \in 1 .. Len(list) - 1 |-> IF k < i THEN list[k] ELSE list[k + 1]]

(* parg_adjustor_adjust_u64: adding wraps, substracting does not           *)
CanAdjust(value, n) == n.sign = "-" => value >= n.digits

Adjusted(value, n) ==
  CASE ~Given(n) -> value
    [] Given(n) /\ n.sign = "+" -> Add(value, n.digits)
    [] Given(n) /\ n.sign = "-" -> value - n.digits
    [] OTHER -> n.digits
==============================================================================

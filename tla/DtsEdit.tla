-------------------------------- MODULE DtsEdit --------------------------------
(***************************************************************************)
(* Editing the partition list of the DTB (src/dts.c): dts_dedit_parse one  *)
(* argument at a time, and dts_dclone_parse.  The result is [ok, parts].   *)
(***************************************************************************)
EXTENDS EptEdit

DPartDefined(a) == DPart(a.name, Value(a.size), a.masks)

(* dts_dedit_adjust                                                        *)
AdjustedDPart(list, i, a) ==
  LET named == IF a.name = "" THEN list[i] ELSE [list[i] EXCEPT !.name = a.name]
      sized == [named EXCEPT !.size = Adjusted(@, a.size)]
      final == IF a.masks = -1 THEN sized ELSE [sized EXCEPT !.mask = a.masks]
  IN IF CanAdjust(list[i].size, a.size) THEN Done([list EXCEPT ![i] = final]) ELSE Failed

(* dts_dedit_each                                                          *)
Dedited(list, a) ==
  LET i == Selected(list, a.select)
      to == PlaceTarget(a.place, i, Len(list))
  IN CASE a.op = "define" ->
            IF Full(list) THEN Failed ELSE Done(Append(list, DPartDefined(a)))
       [] a.op # "define" /\ i = 0 -> Failed
       [] a.op = "adjust" /\ i # 0 -> AdjustedDPart(list, i, a)
       [] a.op = "delete" /\ i # 0 -> Done(Deleted(list, i))
       [] a.op = "clone" /\ i # 0 ->
            IF Full(list) THEN Failed ELSE Done(Append(list, [list[i] EXCEPT !.name = a.name]))
       [] a.op = "place" /\ i # 0 ->
            IF to \in DOMAIN list THEN Done(Placed(list, i, to)) ELSE Failed

DeditParsed(list, args) ==
  LET edit[i \in 0 .. Len(args)] ==
        IF i = 0 THEN Done(list)
        ELSE IF edit[i - 1].ok THEN Dedited(edit[i - 1].parts, args[i]) ELSE Failed
  IN IF args = <<>> \/ Parsed("dedit", args) # "ok" THEN Failed ELSE edit[Len(args)]

(* dts_dclone_parse, which takes fewer than MAX_PARTITIONS_COUNT           *)
DcloneParsed(args) ==
  IF args = <<>> \/ Len(args) >= MaxParts \/ Parsed("dclone", args) # "ok" THEN Failed
  ELSE Done([k \in DOMAIN args |-> DPartDefined(args[k])])
==============================================================================

--------------------------------- MODULE Edits ---------------------------------
(***************************************************************************)
(* One editing command in memory, argument by argument: eedit and ecreate  *)
(* on a table (src/ept.c), dedit on the list of the DTB (src/dts.c).  The  *)
(* list is written to the target only if all of the arguments succeed, so  *)
(* what has to be right is what a sequence of them leaves.                 *)
(***************************************************************************)
EXTENDS DtsEdit

CONSTANTS
  EditRequests,    \* [mode, list, args]: the old list and the arguments
  Limit            \* cli_get_capacity

ASSUME EditsAssumption == Limit \in 1 .. Word - 1

(* What is edited was read into an array of MAX_PARTITIONS_COUNT, and what *)
(* an unterminated copy reads as is a name or a number all the same.       *)
ASSUME EditRequestsAssumption ==
  \A r \in EditRequests :
    /\ r.mode \in {"eedit", "ecreate", "dedit"}
    /\ r.list \in Seq(IF r.mode = "dedit" THEN DPartition ELSE Partition)
    /\ Len(r.list) <= MaxParts
    /\ r.args \in Seq(Arguments)
    /\ \A k \in DOMAIN r.args : Readings(r.args[k]) \subseteq Arguments

VARIABLES
  mode,     \* "eedit", "ecreate", "dedit"
  old,      \* the partitions read from the target
  asked,    \* the arguments as written
  args,     \* the arguments as parsed
  list,     \* the partitions being edited
  step,     \* how many arguments have been applied
  pc        \* "parse", "prepare", "edit", "done", "failed", "aborted"

vars == <<mode, old, asked, args, list, step, pc>>

Init ==
  /\ \E r \in EditRequests : mode = r.mode /\ old = r.list /\ asked = r.args
  /\ args = <<>> /\ list = old /\ step = 0
  /\ pc = IF mode = "ecreate" THEN "prepare" ELSE "parse"

(* ept_ecreate_parse: the old table's essential partitions, without gaps   *)
Prepare ==
  /\ pc = "prepare"
  /\ LET start == Prepared(old)
     IN IF ~start.ok \/ TooManyDefined(start, asked)
          THEN pc' = "failed" /\ UNCHANGED list
          ELSE list' = start.parts /\ pc' = IF asked = <<>> THEN "edit" ELSE "parse"
  /\ UNCHANGED <<mode, old, asked, args, step>>

Parse ==
  /\ pc = "parse"
  /\ args' \in ArgReadings(asked)
  /\ pc' = CASE asked = <<>> -> "failed"
             [] asked # <<>> /\ Parsed(mode, args') = "refused" -> "failed"
             [] asked # <<>> /\ Parsed(mode, args') = "aborted" -> "aborted"
             [] OTHER -> "edit"
  /\ UNCHANGED <<mode, old, asked, list, step>>

Applied(a) ==
  CASE mode = "eedit"   -> Eedited(list, Limit, a)
    [] mode = "ecreate" -> Ecreated(list, Limit, a)
    [] mode = "dedit"   -> Dedited(list, a)

Edit ==
  /\ pc = "edit" /\ step < Len(args)
  /\ LET new == Applied(args[step + 1])
     IN IF new.ok THEN list' = new.parts /\ step' = step + 1 /\ UNCHANGED pc
        ELSE pc' = "failed" /\ UNCHANGED <<list, step>>
  /\ UNCHANGED <<mode, old, asked, args>>

Finish ==
  /\ pc = "edit" /\ step = Len(args)
  /\ pc' = "done"
  /\ UNCHANGED <<mode, old, asked, args, list, step>>

Next == Prepare \/ Parse \/ Edit \/ Finish

Spec == Init /\ [][Next]_vars

(***************************************************************************)
(* Properties                                                              *)
(***************************************************************************)
(* The list never outgrows the array of 32 partitions it is kept in: a     *)
(* full one takes no further definition and no clone.                      *)
TypeOK ==
  /\ mode \in {"eedit", "ecreate", "dedit"}
  /\ step \in 0 .. Len(args)
  /\ Len(list) <= MaxParts
  /\ \A k \in DOMAIN list : list[k].size \in 0 .. Word - 1
  /\ pc \in {"parse", "prepare", "edit", "done", "failed", "aborted"}

Within(p) == p.offset + p.size <= Limit

(* The arguments of eedit and ecreate cannot push a partition over the end *)
(* of the disk, in any order of moving and growing, unless one names a     *)
(* size so large that the 64-bit end wraps.  (The essential partitions are *)
(* laid out by ept_ungap whatever the size of the disk.)                   *)
StaysWithin ==
  (mode # "dedit" /\ \A k \in DOMAIN old : Within(old[k])) =>
    \A k \in DOMAIN list :
      \/ mode = "ecreate" /\ \A i \in 1 .. step : args[i].name # list[k].name
      \/ Within(list[k])
      \/ /\ list[k].offset <= Limit /\ list[k].offset + list[k].size >= Word
         /\ \E i \in 1 .. step : Value(args[i].size) >= Word - 2 * Limit

Without(seq, i) == IF i = 0 THEN seq ELSE Deleted(seq, i)

(* One argument concerns one partition: whatever it does to it, the others *)
(* are afterwards what they were, in the order they were in.               *)
OthersKept ==
  [][step' > step =>
       \E i \in 0 .. Len(list), j \in 0 .. Len(list') :
         Without(list, i) = Without(list', j)]_vars

Apart(p, q) ==
  p.size = 0 \/ q.size = 0 \/ p.offset + p.size <= q.offset \/ q.offset + q.size <= p.offset

(* "A data partition ... taking all of the remaining space": what eedit    *)
(* defines without an offset overlaps no partition there is, also after    *)
(* the arguments before it have reordered and moved the others.            *)
DefinedApart ==
  [][(/\ step' > step /\ mode = "eedit" /\ \A k \in DOMAIN list : Within(list[k])
      /\ args[step'].op = "define" /\ ~Given(args[step'].offset)) =>
         \A k \in DOMAIN list : Apart(list[k], list'[Len(list')])]_vars

FreshlyCreated == mode = "ecreate" /\ step = 0 /\ pc \in {"edit", "parse", "done"}

(* Nothing essential is lost by ecreate: each such partition of the old    *)
(* table is in the new one with its size and mask, wherever ept_ungap put  *)
(* it, unless an argument defines it anew.                                 *)
EssentialsKept ==
  (mode = "ecreate" /\ pc \in {"edit", "parse", "done"}) =>
    \A k \in DOMAIN old :
      (old[k].name \in Essential /\ \A i \in 1 .. step : args[i].name # old[k].name) =>
        \E j \in DOMAIN list :
          /\ list[j].name = old[k].name
          /\ list[j].size = old[k].size /\ list[j].mask = old[k].mask

(* ept_ungap lays the partitions out without overlap and with reserved     *)
(* where the bootloader expects it, as long as the bootloader ends before. *)
EssentialsApart ==
  (FreshlyCreated /\ list[1].size < OffsetReserved) =>
    /\ \A j, k \in DOMAIN list : j # k => Apart(list[j], list[k])
    /\ \A k \in DOMAIN list : list[k].name = "reserved" => list[k].offset = OffsetReserved

(* What is left of the gap before reserved is too small for any partition  *)
(* that was put behind it: the best of the greedy fills is also maximal.   *)
GapUsed ==
  (FreshlyCreated /\ list[1].size < OffsetReserved) =>
    LET r == CHOOSE k \in DOMAIN list : list[k].name = "reserved"
        left == OffsetReserved - (list[r - 1].offset + list[r - 1].size)
    IN \A k \in r + 1 .. Len(list) : list[k].size > left

(***************************************************************************)
(* What the documentation says and the code does not do (see README)       *)
(***************************************************************************)
(* "A negative number to select a partition from end to start (-1 for the  *)
(* last)" (doc/partition-argument-mini-language.md): the partition deleted *)
(* is the one the argument names.                                          *)
DeletesSelected ==
  [][(step' > step /\ asked[step'].op = "delete") =>
       list' = Deleted(list, Selected(list, asked[step'].select))]_vars
==============================================================================

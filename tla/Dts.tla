--------------------------------- MODULE Dts ---------------------------------
(***************************************************************************)
(* The structure block of a device tree as ampart walks and rewrites it    *)
(* (src/dts.c, src/dtb.c).  A device tree is a sequence of tokens: nodes   *)
(* begin and end, properties belong to the innermost node begun.  ampart   *)
(* looks for /partitions, reads its partitions, and replaces the node by a *)
(* new one, or takes it out; every other token stays where it is.          *)
(*                                                                         *)
(* A partition is a child node with properties pname, size, mask and       *)
(* phandle.  The order of the partitions is not that of the children but   *)
(* that of the properties part-0, part-1, ... of /partitions, each the     *)
(* phandle of a child.  Phandles are unique in the whole tree.             *)
(*                                                                         *)
(* Offsets in 4-byte steps are positions in the sequence, the string block *)
(* is the set of the names it has; names of more than 15 bytes, which the  *)
(* reader refuses and no writer makes, are left out.                       *)
(***************************************************************************)
EXTENDS Integers, Sequences, FiniteSetsExt, SequencesExt

CONSTANT MaxParts       \* MAX_PARTITIONS_COUNT

ASSUME DtsAssumption == MaxParts \in Nat \ {0}

Misfit == -1            \* the value of a property of the wrong length

(* A partition to write                                                    *)
Simple(name, size, mask) == [name |-> name, size |-> size, mask |-> mask]

Token(t, name, id, val, text) ==
  [t |-> t, name |-> name, id |-> id, val |-> val, text |-> text]
Begin(name) == Token("begin", name, 0, 0, "")
End == Token("end", "", 0, 0, "")
Nop == Token("nop", "", 0, 0, "")
Fin == Token("fin", "", 0, 0, "")
Prop(name, val) == Token("prop", name, 0, val, "")
PartProp(id, val) == Token("prop", "part-", id, val, "")
Pname(text) == Token("prop", "pname", 0, 0, text)

(* The lowest number of a set, the next, ... as a walk or a search upwards *)
(* comes to them                                                           *)
Nth(S, k) == CHOOSE x \in S : Cardinality({y \in S : y < x}) = k - 1

(***************************************************************************)
(* Walking                                                                 *)
(***************************************************************************)
Depth(s, i, j) ==
  Cardinality({k \in i .. j : s[k].t = "begin"}) - Cardinality({k \in i .. j : s[k].t = "end"})

(* dts_skip_node: where the node begun at i ends; 0 if it is malformed.    *)
EndOf(s, i) ==
  LET ends == {j \in i .. Len(s) :
                 /\ Depth(s, i, j) = 0
                 /\ \A k \in i .. j : s[k].t \in {"begin", "end", "prop", "nop"}}
  IN IF ends = {} THEN 0 ELSE Min(ends)

(* dts_skip_nop                                                            *)
Root(s) ==
  LET first == SelectInSeq(s, LAMBDA token : token.t # "nop")
  IN IF first # 0 /\ s[first].t = "begin" THEN first ELSE 0

(* The innermost node that is open at token k, the one that ends there too *)
Parent(s, k) ==
  Max({0} \union {i \in 1 .. k - 1 : s[i].t = "begin" /\ Depth(s, i, k - 1) > 0})

(* dts_get_node_from_path("/partitions"): the walk goes on after a match,  *)
(* so the last of several is taken; nothing is found in a malformed tree.  *)
PartitionsAt(s) ==
  LET root == Root(s)
  IN IF root = 0 THEN 0
     ELSE Max({0} \union {k \in root + 1 .. EndOf(s, root) :
                            s[k].t = "begin" /\ s[k].name = "partitions" /\ Parent(s, k) = root})

(***************************************************************************)
(* Reading the partitions                                                  *)
(***************************************************************************)
(* dts_get_partitions_from_node at the node n: what is wrong with token k  *)
WrongIn(s, n, k) ==
  LET tok == s[k]  parent == Parent(s, k)
  IN CASE tok.t = "begin" ->
            \/ parent # n
            \/ Cardinality({c \in n + 1 .. k : s[c].t = "begin"}) > MaxParts
       [] tok.t = "prop" /\ parent = n ->
            \/ tok.val = Misfit
            \/ tok.name \notin {"parts", "phandle", "linux,phandle", "part-"}
            \/ tok.name = "part-" /\ tok.id > MaxParts - 1
       [] tok.t = "prop" /\ parent # n ->
            \/ tok.val = Misfit
            \/ tok.name \notin {"pname", "size", "mask", "phandle", "linux,phandle"}
            \/ tok.name = "pname" /\ tok.text # s[parent].name
       [] OTHER -> FALSE

(* The last value before token upto of the property of node n              *)
Value(s, n, upto, name, id) ==
  LET at == {k \in n + 1 .. upto - 1 :
               s[k].t = "prop" /\ s[k].name = name /\ s[k].id = id /\ Parent(s, k) = n}
  IN IF at = {} THEN 0 ELSE s[Max(at)].val

(* The two phandles of a child are compared where it ends.                 *)
Disagrees(s, n, k) ==
  /\ s[k].t = "end" /\ Parent(s, k) # n
  /\ LET c == Parent(s, k)
         p == Value(s, c, k, "phandle", 0)
         l == Value(s, c, k, "linux,phandle", 0)
     IN p # 0 /\ l # 0 /\ p # l

(* In the order of the walk                                                *)
Children(s, n, upto) ==
  LET begun == {k \in n + 1 .. upto - 1 : s[k].t = "begin" /\ Parent(s, k) = n}
  IN [c \in 1 .. Cardinality(begun) |-> Nth(begun, c)]

(* The helper as far as it was filled in: up to the first wrong token, or  *)
(* to the end of the node, with the children begun until then              *)
FilledWith(s, n, upto, child) ==
  [parts |-> [c \in DOMAIN child |->
                [name    |-> s[child[c]].name,
                 size    |-> Value(s, child[c], upto, "size", 0),
                 mask    |-> Value(s, child[c], upto, "mask", 0),
                 phandle |-> Value(s, child[c], upto, "phandle", 0)]],
   phandles |-> [id \in 0 .. MaxParts - 1 |-> Value(s, n, upto, "part-", id)],
   record   |-> Value(s, n, upto, "parts", 0),
   root     |-> Value(s, n, upto, "phandle", 0)]

Filled(s, n, upto) == FilledWith(s, n, upto, Children(s, n, upto))

Swapped(parts, i, j) == [parts EXCEPT ![i] = parts[j], ![j] = parts[i]]

SortedWrongly(parts, phandles, i) ==          \* mutant: moves the wrong entry
  LET later == {j \in i + 1 .. Len(parts) : parts[j].phandle # phandles[i - 1]}
  IN IF parts[i].phandle = phandles[i - 1] \/ later = {} THEN parts
     ELSE Swapped(parts, i, Min(later))

(* One round of dts_sort_partitions                                        *)
SortedAt(parts, phandles, i) ==
  LET later == {j \in i + 1 .. Len(parts) : parts[j].phandle = phandles[i - 1]}
  IN IF parts[i].phandle = phandles[i - 1] \/ later = {} THEN parts
     ELSE Swapped(parts, i, Min(later))

(* dts_sort_partitions: nothing is moved if the counts differ.             *)
Sorted(h) ==
  LET round[i \in 0 .. Len(h.parts)] ==
        IF i = 0 THEN h.parts ELSE SortedAt(round[i - 1], h.phandles, i)
  IN IF Len(h.parts) # h.record THEN h
     ELSE [h EXCEPT !.parts = round[Len(h.parts)]]

Essential == {"parts", "pname", "size", "mask", "phandle"}
Unread == [parts |-> <<>>, phandles |-> [id \in 0 .. MaxParts - 1 |-> 0], record |-> 0, root |-> 0]

(* Where the parser stops: at the first wrong token, or at the end         *)
StopsAt(s, n, end) ==
  Min({end} \union {k \in n + 1 .. end - 1 : WrongIn(s, n, k) \/ Disagrees(s, n, k)})

(* A property a partition should not have makes the parser free memory     *)
(* that is part of a larger block: the process dies, or lives on.          *)
Unknown(s, n, k) ==
  /\ s[k].t = "prop" /\ Parent(s, k) # n
  /\ s[k].name \notin {"pname", "size", "mask", "phandle", "linux,phandle"}

ReadUpTo(s, n, end, stop) ==
  IF stop = end THEN [found |-> "ok", h |-> Sorted(Filled(s, n, end))]
  ELSE [found |-> IF Unknown(s, n, stop) THEN "freed" ELSE "bad", h |-> Filled(s, n, stop)]

ReadNode(s, n, end) == ReadUpTo(s, n, end, StopsAt(s, n, end))

PartitionsFrom(dtb, n) ==
  CASE n = 0 -> [found |-> "none", h |-> Unread]
    [] n # 0 /\ ~(Essential \subseteq dtb.strings) -> [found |-> "bad", h |-> Unread]
    [] OTHER -> ReadNode(dtb.toks, n, EndOf(dtb.toks, n))

(* dtb_get_partitions, of a DTB [target, strings, toks]: what it found and *)
(* the helper                                                              *)
Partitions(dtb) == PartitionsFrom(dtb, PartitionsAt(dtb.toks))

(* Names, sizes and masks, in order: dts_partitions_helper_to_simple       *)
ToSimple(parts) == [k \in DOMAIN parts |-> Simple(parts[k].name, parts[k].size, parts[k].mask)]

(***************************************************************************)
(* Phandles                                                                *)
(***************************************************************************)
PhandleNames == {"phandle", "linux,phandle"}
PhandleProps(s) == {k \in DOMAIN s : s[k].t = "prop" /\ s[k].name \in PhandleNames}

(* dts_get_phandles: it fails if a phandle is 0, is not of 4 bytes or      *)
(* belongs to two nodes, and if there is none at all.                      *)
PhandlesLegal(s) ==
  LET props == PhandleProps(s)
  IN /\ Root(s) # 0 /\ EndOf(s, Root(s)) # 0
     /\ props # {}
     /\ \A k \in props : s[k].val # Misfit /\ s[k].val # 0
     /\ \A j, k \in props : s[j].val = s[k].val => Parent(s, j) = Parent(s, k)

Used(s) == {s[k].val : k \in PhandleProps(s)}
HasLinux(s) == \E k \in DOMAIN s : s[k].t = "prop" /\ s[k].name = "linux,phandle"

DroppedRootless(used, h) ==     \* mutant: the phandle of the node itself stays taken
  used \ {h.parts[k].phandle : k \in DOMAIN h.parts}

(* dts_drop_partitions_phandles                                            *)
Dropped(used, h) ==
  used \ ({h.parts[k].phandle : k \in DOMAIN h.parts} \union {h.root})

AssignedAnew(used, n) == [k \in 1 .. n |-> k]  \* mutant: forgets what is in use

(* dts_assign_available_phandle, n times: the lowest that are free         *)
Assigned(used, n) ==
  LET free == 1 .. (Cardinality(used) + n) \ used
  IN [k \in 1 .. n |-> Nth(free, k)]

(***************************************************************************)
(* Composing                                                               *)
(***************************************************************************)
WithLinux(phandle, linux) ==
  IF linux THEN << Prop("phandle", phandle), Prop("linux,phandle", phandle) >>
  ELSE << Prop("phandle", phandle) >>

ComposedPart(part, phandle, linux) ==
  << Begin(part.name), Pname(part.name), Prop("size", part.size), Prop("mask", part.mask) >>
    \o WithLinux(phandle, linux) \o << End >>

(* part-0, part-1, ...                                                     *)
Record(handle, n) == [k \in 1 .. n |-> PartProp(k - 1, handle[k])]

(* dts_compose_partitions_node, with the BEGIN_NODE and END_NODE around it *)
Composed(parts, handle, linux) ==
  LET n == Len(parts)
      children[k \in 0 .. n] ==
        IF k = 0 THEN <<>>
        ELSE children[k - 1] \o ComposedPart(parts[k], handle[k], linux)
  IN << Begin("partitions"), Prop("parts", n) >> \o Record(handle, n)
       \o WithLinux(handle[n + 1], linux) \o children[n] \o << End >>

(* The tokens with those from i to j - 1 replaced                          *)
Spliced(s, i, j, node) == SubSeq(s, 1, i - 1) \o node \o SubSeq(s, j, Len(s))

TailLate(s) == Len(s)           \* mutant: after the END_NODE of the root

(* Where a new node goes: before the END_NODE of the root                  *)
BeforeEnd(s) == Len(s) - 1

Outcome(ok, dtb) == [ok |-> ok, dtb |-> dtb]

(* The phandles of the old node are free for the new one if it was read.   *)
Free(s, old) == IF old.found = "ok" THEN Dropped(Used(s), old.h) ELSE Used(s)

NewNode(s, old, parts) ==
  Composed(parts, Assigned(Free(s, old), Len(parts) + 1), HasLinux(s))

WithNode(dtb, n, node) ==
  [dtb EXCEPT !.strings = @ \union Essential,
              !.toks = IF n # 0 THEN Spliced(@, n, EndOf(@, n) + 1, node)
                       ELSE Spliced(@, BeforeEnd(@), BeforeEnd(@), node)]

CanTake(dtb, n) ==
  LET s == dtb.toks
  IN /\ "phandle" \in dtb.strings
     /\ PhandlesLegal(s)
     /\ n # 0 \/ (s[Len(s) - 1].t = "end" /\ s[Len(s)].t = "fin")

Matches(read, parts) == read.found = "ok" /\ ToSimple(read.h.parts) = parts

(* dtb_buffer_entry_implement_partitions: the result is read again and     *)
(* compared with what was wanted.                                          *)
ImplementedAs(dtb, n, new, parts) ==
  IF CanTake(dtb, n) /\ Matches(Partitions(new), parts) THEN Outcome(TRUE, new)
  ELSE Outcome(FALSE, dtb)

ImplementedAt(dtb, n, old, parts) ==
  ImplementedAs(dtb, n, WithNode(dtb, n, NewNode(dtb.toks, old, parts)), parts)

Implemented(dtb, old, parts) == ImplementedAt(dtb, PartitionsAt(dtb.toks), old, parts)

(* dtb_buffer_entry_remove_partitions: refused if there is another node.   *)
RemovedAs(dtb, new, left) ==
  IF left.found = "ok" \/ left.h.parts # <<>> THEN Outcome(FALSE, dtb) ELSE Outcome(TRUE, new)

WithoutNode(dtb, n) == [dtb EXCEPT !.toks = Spliced(@, n, EndOf(@, n) + 1, <<>>)]

RemovedAt(dtb, n) ==
  IF n = 0 THEN Outcome(TRUE, dtb)
  ELSE RemovedAs(dtb, WithoutNode(dtb, n), Partitions(WithoutNode(dtb, n)))

Removed(dtb) == RemovedAt(dtb, PartitionsAt(dtb.toks))
==============================================================================

------------------------------ MODULE DtbRewrite ------------------------------
(***************************************************************************)
(* An image with one or more DTBs (src/dtb.c), read, given new partitions  *)
(* or stripped of them, and written back, again and again.                 *)
(*                                                                         *)
(* An image is plain, with one DTB; or multi, with a header that names the *)
(* target of each DTB in it; or either of them zipped.  What is written is *)
(* zipped only if it would not fit otherwise, and is refused if it still   *)
(* does not.  Sizes are counted in tokens; how far zipping shrinks an      *)
(* image is left open.  zlib is external: unzipping gives back what was    *)
(* zipped.  The copies of the image on the target and their checksums are  *)
(* the subject of Modes.                                                   *)
(***************************************************************************)
EXTENDS Dts

CONSTANTS
  Images,         \* images found: [form, zipped, header, dtbs]
  Lists,          \* partitions to write, <<>> to take the node out
  DataMax,        \* DTB_PARTITION_DATA_SIZE
  Page,           \* DTB_PAGE_SIZE
  MaxRuns         \* bound on the rewrites

ASSUME DtbRewriteAssumption ==
  /\ DataMax \in Nat \ {0} /\ Page \in Nat \ {0} /\ MaxRuns \in Nat
  /\ \A i \in Images :
       /\ i = [form |-> i.form, zipped |-> i.zipped, header |-> i.header, dtbs |-> i.dtbs]
       /\ i.form \in {"plain", "multi"}
       /\ i.dtbs \in Seq(Range(i.dtbs)) /\ i.dtbs # <<>> /\ (i.form = "plain" => Len(i.dtbs) = 1)
       /\ \A d \in Range(i.dtbs) :
            /\ d = [target |-> d.target, strings |-> d.strings, toks |-> d.toks]
            /\ d.toks \in Seq(Range(d.toks))
  /\ \A list \in Lists :
       list \in Seq([name : STRING, size : Nat, mask : Nat]) /\ Len(list) <= MaxParts

VARIABLES
  image,      \* what is on the target
  found,      \* history: what was there in the beginning
  helper,     \* for each DTB in memory what dtb_get_partitions gave
  wanted,     \* the partitions asked for
  made,       \* the image composed
  pc, runs,
  before      \* history: the image when this run began

vars == <<image, found, helper, wanted, made, pc, runs, before>>

(***************************************************************************)
(* The container                                                           *)
(***************************************************************************)
(* dtb_parse_multi_entries, and the comparison of every target in the      *)
(* header with the one in the DTB: one that differs makes all unreadable.  *)
Readable(i) ==
  i.form = "multi" =>
    /\ Len(i.header) = Len(i.dtbs)
    /\ \A k \in DOMAIN i.dtbs : i.header[k] = i.dtbs[k].target

UpTo(n, unit) == ((n + unit - 1) \div unit) * unit

(* Where each DTB of a multi-DTB image starts, and at last where it ends.  *)
Offsets(dtbs) ==
  LET at[k \in 0 .. Len(dtbs)] ==
        IF k = 0 THEN UpTo(3 + 5 * Len(dtbs), Page)
        ELSE at[k - 1] + UpTo(Len(dtbs[k].toks), Page)
  IN at

Size(i) ==
  IF i.form = "plain" THEN Len(i.dtbs[1].toks) ELSE Offsets(i.dtbs)[Len(i.dtbs)]

CombinedShort(dtbs) ==          \* mutant: the last of several DTBs is left out
  [form |-> "plain", zipped |-> FALSE, header |-> <<>>, dtbs |-> << dtbs[1] >>]

CombinedBackwards(dtbs) ==      \* mutant: the DTBs come out in another order
  LET n == Len(dtbs)
      back == [k \in 1 .. n |-> dtbs[n + 1 - k]]
  IN [form |-> IF n = 1 THEN "plain" ELSE "multi", zipped |-> FALSE,
      header |-> IF n = 1 THEN <<>> ELSE [k \in 1 .. n |-> back[k].target], dtbs |-> back]

(* dtb_combine_multi_dtb: the header is made from the targets in the DTBs. *)
(* A lone DTB is written plain, whatever it came in.                       *)
Combined(dtbs) ==
  [form |-> IF Len(dtbs) = 1 THEN "plain" ELSE "multi", zipped |-> FALSE,
   header |-> IF Len(dtbs) = 1 THEN <<>> ELSE [k \in DOMAIN dtbs |-> dtbs[k].target],
   dtbs |-> dtbs]

(***************************************************************************)
(* Steps                                                                   *)
(***************************************************************************)
Init ==
  /\ image \in Images /\ found = image /\ before = image
  /\ helper = <<>> /\ wanted = <<>> /\ made = image
  /\ pc = "idle" /\ runs = 0

(* dtb_read_into_buffer_helper; the process may die in it.                 *)
Read ==
  /\ pc = "idle" /\ runs < MaxRuns
  /\ helper' = IF Readable(image)
                 THEN [k \in DOMAIN image.dtbs |-> Partitions(image.dtbs[k])] ELSE <<>>
  /\ runs' = runs + 1
  /\ before' = image
  /\ pc' = "read"
  /\ UNCHANGED <<image, found, wanted, made>>

Die ==
  /\ pc = "read"
  /\ \E k \in DOMAIN helper : helper[k].found = "freed"
  /\ pc' = "idle" /\ helper' = <<>>
  /\ UNCHANGED <<image, found, wanted, made, runs, before>>

Change(k, list) ==
  IF list = <<>> THEN Removed(image.dtbs[k]) ELSE Implemented(image.dtbs[k], helper[k], list)

(* dtb_compose up to the size: all the DTBs, or none.                      *)
Compose(list) ==
  LET change == [k \in DOMAIN image.dtbs |-> Change(k, list)]
  IN /\ pc = "read"
     /\ wanted' = list
     /\ IF helper # <<>> /\ \A k \in DOMAIN change : change[k].ok
          THEN /\ made' = Combined([k \in DOMAIN change |-> change[k].dtb])
               /\ pc' = "made"
          ELSE UNCHANGED made /\ pc' = "failed"
     /\ UNCHANGED <<image, found, helper, runs, before>>

NeverZips == Size(made) <= 2 * DataMax      \* mutant: the limit is tested too late

Fits == Size(made) <= DataMax

(* The rest of dtb_compose, and the write.                                 *)
Write ==
  /\ pc = "made"
  /\ \/ Fits /\ image' = made /\ pc' = "written"
     \/ ~Fits /\ image' = [made EXCEPT !.zipped = TRUE] /\ pc' = "written"
     \/ ~Fits /\ UNCHANGED image /\ pc' = "toolarge"
  /\ UNCHANGED <<found, helper, wanted, made, runs, before>>

Finish ==
  /\ pc \in {"written", "failed", "toolarge"}
  /\ pc' = "idle" /\ helper' = <<>>
  /\ UNCHANGED <<image, found, wanted, made, runs, before>>

Next == Read \/ Die \/ (\E list \in Lists : Compose(list)) \/ Write \/ Finish

Spec == Init /\ [][Next]_vars

(***************************************************************************)
(* Properties                                                              *)
(***************************************************************************)
TypeOK ==
  /\ pc \in {"idle", "read", "made", "written", "failed", "toolarge"}
  /\ image.form \in {"plain", "multi"}
  /\ image.form = "plain" => Len(image.dtbs) = 1
  /\ Len(image.dtbs) = Len(found.dtbs)
  /\ helper # <<>> => DOMAIN helper = DOMAIN image.dtbs
  /\ wanted \in Lists \union {<<>>}
  /\ runs \in 0 .. MaxRuns

(* What is written can be read back, in whatever the DTBs come: it fits,   *)
(* the header agrees with the DTBs, and every DTB has the partitions asked *)
(* for in the order asked for, or none.                                    *)
ReadsBack ==
  pc = "written" =>
    /\ Readable(image)
    /\ image.zipped \/ Size(image) <= DataMax
    /\ \A k \in DOMAIN image.dtbs :
         LET p == Partitions(image.dtbs[k])
         IN IF wanted = <<>> THEN p.found = "none"
            ELSE p.found = "ok" /\ ToSimple(p.h.parts) = wanted

(* No phandle is given to two nodes: those of the new partitions are free, *)
(* though those of the old ones are used again.                            *)
PhandlesUnique ==
  (pc = "written" /\ wanted # <<>>) =>
    \A k \in DOMAIN image.dtbs : PhandlesLegal(image.dtbs[k].toks)

Others(s) ==
  LET n == PartitionsAt(s)
  IN IF n = 0 THEN s ELSE Spliced(s, n, EndOf(s, n) + 1, <<>>)

(* However often the image is rewritten, nothing but /partitions changes,  *)
(* in any of the DTBs, and no DTB takes the place of another.              *)
OthersUntouched ==
  \A k \in DOMAIN image.dtbs :
    /\ image.dtbs[k].target = found.dtbs[k].target
    /\ Others(image.dtbs[k].toks) = Others(found.dtbs[k].toks)

(* The phandles that n partitions and their node have in new, and had in   *)
(* old, of which read was read: if the old ones were all found, the new    *)
(* ones are the lowest that the other nodes leave.                         *)
Lowest(old, read, new, n) ==
  LET others == Used(Others(new.toks))
      known == {read.h.parts[c].phandle : c \in DOMAIN read.h.parts} \union {read.h.root}
  IN (read.found \in {"ok", "none"} /\ Used(old.toks) \ others \subseteq known) =>
       \A x \in Used(new.toks) \ others : x <= Cardinality(others) + n + 1

(* Phandles do not grow from one rewrite to the next: the new node takes   *)
(* the lowest that the other nodes leave, those of the old one included.   *)
PhandlesReused ==
  (pc = "written" /\ wanted # <<>>) =>
    \A k \in DOMAIN image.dtbs :
      Lowest(before.dtbs[k], helper[k], image.dtbs[k], Len(wanted))

(* A DTB that has a phandle outside /partitions, and nothing after its     *)
(* root but FDT_END, takes any list, and goes on taking any list after     *)
(* whatever was written to it or taken out.                                *)
Anchored(i) ==
  \A k \in DOMAIN i.dtbs :
    LET s == i.dtbs[k].toks
    IN /\ PhandlesLegal(s) /\ "phandle" \in i.dtbs[k].strings
       /\ Used(Others(s)) # {}
       /\ EndOf(s, Root(s)) = Len(s) - 1 /\ s[Len(s)].t = "fin"

StaysWritable ==
  (helper # <<>> /\ Anchored(found) /\ wanted # <<>>) => pc # "failed"

(* The partitions are read in the order the record says whenever it says   *)
(* one: as many as there are children, each the phandle of one.            *)
SortedByRecord ==
  \A k \in DOMAIN helper :
    LET h == helper[k].h
        n == Len(h.parts)
    IN (helper[k].found = "ok" /\ h.record = n
          /\ {h.phandles[i] : i \in 0 .. n - 1} = {h.parts[i].phandle : i \in 1 .. n}
          /\ Cardinality({h.parts[i].phandle : i \in 1 .. n}) = n) =>
         \A i \in 1 .. n : h.parts[i].phandle = h.phandles[i - 1]
==============================================================================

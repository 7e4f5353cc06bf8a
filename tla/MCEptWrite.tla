------------------------------ MODULE MCEptWrite ------------------------------
(* A disk of Size units with two essential partitions, boot and misc, and  *)
(* one that is not.  The old layouts are well formed, begin at 0 and have  *)
(* boot before misc, which are alike otherwise; the new ones are all those *)
(* of Layouts, the overlapping ones too.                                   *)
EXTENDS EptWrite

CONSTANTS Size, Offsets, Sizes

names == <<"boot", "misc", "data">>

Layouts(n, S) ==
  {s \in [1 .. n -> [name : {names[k] : k \in 1 .. n}, offset : Offsets,
                     size : S, mask : {0}]] :
     \A k \in 1 .. n : s[k].name = names[k] /\ End(s[k]) <= Size}

OldParts == {s \in Layouts(3, Sizes) :
               /\ WellFormed(s)
               /\ s[1].offset < s[2].offset
               /\ \E k \in 1 .. 3 : s[k].offset = 0}
NewParts == Layouts(3, Sizes)

Illegal(parts) == [Table(parts) EXCEPT !.sum = <<>>]

MCRequests ==
  [old : {Table(s) : s \in OldParts}, new : {Table(s) : s \in NewParts},
   content : {"disk"}, migrate : {"essential", "all"}, dry_run : {FALSE}]

(* Every option, on one pair of tables.                                    *)
OptionRequests ==
  LET a == << Part("boot", 0, 1, 0), Part("misc", 1, 1, 0) >>
      b == << Part("boot", 1, 1, 0), Part("misc", 0, 1, 0) >>
  IN [old : {Table(a)}, new : {Table(b), Illegal(b)},
      content : {"disk", "reserved", "dtb"}, migrate : {"none", "essential", "all"},
      dry_run : BOOLEAN]

MCLegalNames == {"", "boot", "misc", "data"}
MCEssential == {"boot", "misc"}
(* data is empty and comes to lie at the very end of the disk.             *)
SkippedRequests ==
  LET a == << Part("boot", 0, 1, 0), Part("data", 2, 0, 0) >>
      b == << Part("boot", 1, 2, 0), Part("data", 3, 0, 0) >>
  IN [old : {Table(a)}, new : {Table(b)}, content : {"disk"},
      migrate : {"essential", "all"}, dry_run : {FALSE}]

AllRequests == MCRequests \union OptionRequests
==============================================================================

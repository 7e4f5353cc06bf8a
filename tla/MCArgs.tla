-------------------------------- MODULE MCArgs --------------------------------
(* Partition arguments to instantiate the models with.                     *)
EXTENDS Parg

None == [by |-> "none", name |-> "", index |-> 0]
Named(n) == [by |-> "name", name |-> n, index |-> 0]
At(i) == [by |-> "index", name |-> "", index |-> i]
NoPlace == [how |-> "none", by |-> 0]
Put(how, by) == [how |-> how, by |-> by]

Arg(op, select, name, offset, size, masks, place) ==
  [op |-> op, select |-> select, name |-> name, offset |-> offset, size |-> size,
   masks |-> masks, place |-> place]
Define(name, offset, size, masks) == Arg("define", None, name, offset, size, masks, NoPlace)
Adjust(s, name, offset, size, masks) == Arg("adjust", s, name, offset, size, masks, NoPlace)
Delete(s) == Arg("delete", s, "", Absent, Absent, -1, NoPlace)
Clone(s, name) == Arg("clone", s, name, Absent, Absent, -1, NoPlace)
Move(s, p) == Arg("place", s, "", Absent, Absent, -1, p)

N(n) == Number("", n)
==============================================================================

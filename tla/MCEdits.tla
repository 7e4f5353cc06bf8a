-------------------------------- MODULE MCEdits --------------------------------
(* Tables and DTB lists of three to MaxParts partitions on a disk of Limit *)
(* units with reserved at 4, and sequences of up to three arguments.       *)
EXTENDS Edits, MCArgs

Request(m, l, a) == [mode |-> m, list |-> l, args |-> a]

MCLegalNames == {"", "bootloader", "reserved", "cache", "env", "data", "sys", "logo", "new", "newer"}
MCEssential == {"bootloader", "reserved", "env", "sys", "logo"}

(* A name reads as itself, as itself and some letters that happen to follow*)
(* or as no name at all; a number as itself or with one more digit.        *)
MCNameReadings(n) == {n, "~"} \union (IF n = "new" THEN {"newer"} ELSE {})
MCIndexReadings(i) == {i, 10 * i + (IF i < 0 THEN -1 ELSE 1)}

Tables ==
  { << Part("bootloader", 0, 1, 0), Part("reserved", 4, 2, 0), Part("data", 7, 5, 4) >>,
    << Part("bootloader", 0, 1, 0), Part("sys", 8, 2, 1), Part("new", 3, 4, 2),
       Part("data", 10, 2, 4) >> }
FullTable == [k \in 1 .. MaxParts - 1 |->
                Part(IF k = 1 THEN "bootloader" ELSE IF k = 2 THEN "new" ELSE "sys", k, 1, 1)]

DLists == { << DPart("sys", 2, 1), DPart("new", 3, 1), DPart("data", Rest, 4) >> }

Modifiers ==
  { Delete(At(-1)), Delete(Named("new")), Clone(At(1), "newer"), Move(Named("data"), Put("absolute", 0)),
    Move(At(0), Put("absolute", -1)), Move(At(2), Put("relative", -1)),
    Move(At(0), Put("relative", 0)), Adjust(Named("data"), "new", Absent, Number("-", 1), -1),
    Adjust(At(1), "", Absent, Number("+", 9), 3), Adjust(At(0), "", Absent, Number("+", -1), -1) }

EeditArgs ==
  Modifiers \union
  { Adjust(At(-1), "", Number("+", 3), Absent, -1), Adjust(At(1), "", N(9), N(4), -1),
    Adjust(At(2), "", Number("-", 4), Absent, 0),
    Define("new", Absent, Absent, -1), Define("newer", Absent, N(2), 1),
    Define("new", Number("+", 2), N(62), -1), Define("newer", N(1), Number("-", 1), 0),
    Define("illegal/name", Absent, Absent, -1) }

DeditArgs ==
  Modifiers \union
  { Define("newer", Absent, N(3), 1), Define("new", N(1), N(3), 1), Define("newer", Absent, N(3), -1),
    Define("new", Absent, Number("-", 1), 4), Adjust(At(1), "newer", N(1), Absent, -1) }

UpTo(S, n) == UNION {[1 .. m -> S] : m \in 0 .. n}

(* Old tables to create from: bootloader and reserved, the latter behind   *)
(* three partitions of every size, one not essential, or none of them.     *)
Old(b, x, y, z) ==
  << Part("bootloader", 0, b, 0), Part("logo", 3, x, 1), Part("env", 7, y, 2),
     Part("reserved", 1, 1, 5), Part("data", 2, 1, 4), Part("sys", 9, z, 3) >>
Olds == {<<>>} \union {Old(b, x, y, z) : b \in {1, 4, 5}, x, y, z \in 0 .. 4}

CreateArgs ==
  { Define("data", Absent, Absent, -1), Define("env", Number("+", 1), N(2), -1),
    Define("new", N(11), N(3), 2), Define("cache", Absent, N(62), -1),
    Define("newer", Number("-", 1), Absent, -1) }

MCRequests ==
  { Request("eedit", t, a) : t \in Tables, a \in UpTo(EeditArgs, 3) }
    \union { Request("eedit", t, << Delete(At(-1)), Move(Named("reserved"), Put("absolute", -1)), a, b >>) :
               t \in Tables, a \in {Adjust(At(-1), "new", Absent, Number("+", 9), -1)},
               b \in {Define("newer", Absent, Absent, -1)} }
    \union { Request("eedit", FullTable, << a, b >>) :
               a, b \in {Clone(At(1), "newer"), Define("newer", Absent, Absent, -1)} }
    \union { Request("dedit", l, a) : l \in DLists, a \in UpTo(DeditArgs, 2) }
    \union { Request("ecreate", o, <<>>) : o \in Olds }
    \union { Request("ecreate", Old(1, x, 2, 3), a) : x \in {1, 3}, a \in UpTo(CreateArgs, 2) }

MisreadRequests == { Request("eedit", t, << Delete(s) >>) :
                       t \in Tables, s \in {At(-1), At(0), Named("new")} }
==============================================================================

------------------------------- MODULE MCModes -------------------------------
(* Disks of DiskSize units on which the four pedantic partitions take 6 and*)
(* up to two more fit.  Lists of DTB partitions and tables that are        *)
(* pedantic, not pedantic, too large, illegal or damaged, and DTBs with    *)
(* and without a partitions node, alone or two in a file.                  *)
EXTENDS Modes, MCArgs

Run(mode, args, dry) == [mode |-> mode, args |-> args, dry_run |-> dry]

(* ept_valid_partition_name accepts a name that ends at once.              *)
MCLegalNames == {"", "bootloader", "reserved", "cache", "env", "data", "sys"}
MCEssential == {"bootloader", "reserved", "env", "sys"}

Data(size) == DPart("data", size, 4)
Sys(size) == DPart("sys", size, 1)

DLists ==
  { << Data(Rest) >>, << Sys(1), Data(Rest) >>, << Data(2), Sys(1) >>,
    << DPart("cache", 1, 2), Data(Rest) >> }

Pedantic(dparts) == FromDParts(dparts, DiskSize).parts

Shifted(parts) == [parts EXCEPT ![Len(parts)].offset = @ + 1, ![Len(parts)].size = @ - 1]

Tables ==
  { Table(Pedantic(d)) : d \in DLists }
    \union { Table(Shifted(Pedantic(<< Data(Rest) >>))), Table(<<>>),
             [Table(Pedantic(<< Data(Rest) >>)) EXCEPT !.sum = <<>>] }

(* Disks and DTB files as they are found: both copies good and alike, all  *)
(* the DTBs in them with the same partitions.                              *)
SoundDtbs == { << Node(d) >> : d \in { << Data(Rest) >>, << Sys(1), Data(Rest) >> } }
               \union { << Node(<< Data(Rest) >>), Node(<< Data(Rest) >>) >>, << NoNode >>,
                        << NoNode, NoNode >> }

Target(c, d, t) ==
  [content |-> c, copies |-> IF c = "dtb" THEN << Copy(d) >> ELSE << Copy(d), Copy(d) >>,
   ept |-> t]

MCTargets ==
  { Target("disk", << Node(<< Data(Rest) >>) >>, t) : t \in Tables }
    \union { Target("disk", d, Table(Pedantic(<< Sys(1), Data(Rest) >>))) : d \in SoundDtbs }
    \union { Target("reserved", << Node(<< Data(Rest) >>) >>, t) :
               t \in { Table(Pedantic(<< Data(2), Sys(1) >>)), Table(<<>>) } }
    \union { Target("dtb", d, Table(<<>>)) : d \in SoundDtbs }

(* The arguments that ask for a list of DTB partitions, or for a table     *)
SizeArg(size) == IF size = Rest THEN Number("-", 1) ELSE N(size)
DArgs(dparts) ==
  [k \in DOMAIN dparts |->
     Define(dparts[k].name, Absent, SizeArg(dparts[k].size), dparts[k].mask)]
EArgs(parts) ==
  [k \in DOMAIN parts |->
     Define(parts[k].name, N(parts[k].offset), SizeArg(parts[k].size), parts[k].mask)]

(* It begins where a pedantic table that fills the disk would go on.       *)
Beyond == Part("sys", DiskSize + GapPartition, 5, 1)

MCRequests ==
  { Run(m, <<>>, dry) : m \in {"dtoe", "etod"}, dry \in BOOLEAN }
    \union { Run("dclone", DArgs(d), FALSE) :
               d \in { <<>>, << Data(Rest) >>, << Data(2), Sys(1) >>, << Sys(9), Data(1) >>,
                       [k \in 1 .. MaxParts |-> Data(1)] } }
    \union { Run("eclone", EArgs(p), FALSE) :
               p \in { <<>>, Pedantic(<< Sys(1), Data(Rest) >>), Pedantic(<< Data(2), Sys(1) >>),
                       Shifted(Pedantic(<< Data(Rest) >>)) } }
    \union { Run("dclone", DArgs(<< Sys(1), Data(Rest) >>), TRUE),
             Run("eclone", EArgs(<< Part("data", 4, DiskSize, 0) >>), FALSE) }
    \union { Run("dedit", << Adjust(Named("data"), "", Absent, N(2), -1),
                             Define("sys", Absent, N(1), 1) >>, FALSE),
             Run("dedit", << Delete(At(0)) >>, FALSE),
             Run("eedit", << Clone(Named("data"), "sys"), Adjust(At(-2), "", Absent, Number("-", 1), -1),
                             Adjust(At(-1), "", Number("+", 2), N(9), 1) >>, FALSE),
             Run("eedit", << Adjust(At(-1), "", Absent, Number("-", 1), -1) >>, FALSE),
             Run("ecreate", << Define("data", Absent, Absent, -1) >>, FALSE),
             Run("ecreate", << Define("cache", Number("+", 1), N(0), 2),
                               Define("env", Number("+", 1), N(1), -1),
                               Define("data", Number("+", 1), Absent, -1) >>, FALSE),
             Run("eclone", EArgs(Append(Pedantic(<< Data(Rest) >>), Beyond)), FALSE) }

(* A name may be misread as none at all.                                   *)
MCNameReadings(n) == IF n = "data" THEN {n, "~"} ELSE {n}
MCIndexReadings(i) == {i}

MCGarbageDParts == { <<>>, << Sys(3) >> }
MCGarbageTables == { [magic |-> FALSE, version |-> FALSE, sum |-> <<>>, parts |-> p] :
                       p \in { <<>>, << Part("", 3, 5, 0) >> } }

(***************************************************************************)
(* Targets and requests of the run that contradicts the documentation      *)
(***************************************************************************)
Whole == << Data(Rest) >>

(* Two DTBs that stand for different tables, with one partition each.      *)
MixedTargets ==
  { Target("disk", << Node(Whole), Node(<< Sys(2) >>) >>, t) :
      t \in {Table(Pedantic(Whole)), Table(Pedantic(<< Data(2), Sys(1) >>))} }

DtoeRequests == { Run("dtoe", <<>>, FALSE) }
==============================================================================

------------------------------- MODULE MCTarget -------------------------------
(* Files and devices of every size that matters and with every beginning,  *)
(* a disk with its partitions in /sys/block and one without, and options   *)
(* that identify, force, contradict and overrule each other.               *)
EXTENDS Target, TLC

F(f, size, head, name, dev) ==
  [file |-> f, size |-> size, head |-> head, name |-> name, dev |-> dev]

Sizes == {0, 2, 3, 12, 31, 32, 33, 40}
Heads == {"zero", "ept", "dtb", "gzip", "else"}

Regular == {<< h, s >> : h \in Heads, s \in Sizes}

Devices ==
  "/dev/mmcblk0"  :> F("block", 40, "zero", "mmcblk0", 1)
    @@ "/dev/sda"      :> F("block", 40, "else", "sda", 9)
    @@ "/dev/reserved" :> F("block", 32, "ept", "reserved", 2)
    @@ "/dev/dtb"      :> F("block", 2, "dtb", "dtb", 3)
    @@ "/dev/data"     :> F("block", 12, "zero", "data", 5)
    @@ "/dev/null"     :> F("other", 0, "else", "null", 4)
    @@ "/missing"      :> F("absent", 0, "else", "missing", 0)

Path(r) == r[1] \o ToString(r[2])
Dumps == [p \in {Path(r) : r \in Regular} |->
            LET r == CHOOSE r \in Regular : Path(r) = p IN F("regular", r[2], r[1], "", 0)]

MCFiles == Dumps @@ Devices

MCSysBlock ==
  "/dev/mmcblk0" :> ("reserved" :> 2 @@ "dtb" :> 3 @@ "data" :> 5) @@ "/dev/sda" :> ("dtb" :> 10)

Long(name, arg) == [name |-> name, short |-> FALSE, arg |-> arg]
Short(name, arg) == [name |-> name, short |-> TRUE, arg |-> arg]

Opts ==
  {Short("mode", "dtoe"), Long("mode", "bogus"), Long("strict-device", ""), Short("strict-device", ""),
   Long("migrate", "all"), Long("migrate", "bogus"), Short("dry-run", ""), Long("help", "")}
    \union {Long("content", c) : c \in Contents \union {"bogus"}}
Offsets == {Short("offset-reserved", 4), Long("offset-dtb", 1)}

MCCommandLines ==
  {[opts |-> o, path |-> p] : o \in {<<>>} \union {<< o >> : o \in Opts},
                              p \in DOMAIN Dumps \union DOMAIN Devices \union {"none"}}
    \union {[opts |-> << o1, o2 >>, path |-> p] :
              o1 \in Opts, o2 \in Opts, p \in DOMAIN Devices \union {"ept32", "zero12"}}
    \union {[opts |-> << o1, o2 >>, path |-> p] :
              o1 \in Offsets, o2 \in Offsets \union {Long("content", "disk")},
              p \in DOMAIN Dumps \union DOMAIN Devices}

(* /dev/reserved, whose disk is there, with nothing else asked for         *)
PartitionLines == {[opts |-> << Short("mode", "dtoe") >>, path |-> "/dev/reserved"]}

(* A dump of a reserved partition, cut to the table it begins with         *)
DumpLines == {[opts |-> << Short("mode", "esnapshot") >>, path |-> "ept3"]}
==============================================================================

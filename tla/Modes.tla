-------------------------------- MODULE Modes --------------------------------
(***************************************************************************)
(* ampart's commands on a target (src/cli.c): each run reads the DTB and   *)
(* the EPT, decides in memory what to write, and writes the DTB and the    *)
(* EPT one after the other, in the order of its mode.  Runs follow one     *)
(* another on the same target, and each can be refused, meet an I/O error, *)
(* be killed or lose power part of the way.                                *)
(*                                                                         *)
(* The DTB of a disk or of a reserved partition is kept twice, each copy   *)
(* with a checksum (src/dtb.c); that of a plain DTB file once, without.  A *)
(* copy holds one or more DTBs, of which only the partitions node matters. *)
(*                                                                         *)
(* Modelled are all the modes that write: dtoe, etod, dedit, dclone, eedit,*)
(* eclone and ecreate.  What becomes of the blocks when the table changes  *)
(* is the subject of EptWrite, the editing itself that of Edits.           *)
(***************************************************************************)
EXTENDS DtsEdit

CONSTANTS
  DiskSize,         \* cli_options.size of a disk
  Targets,          \* targets to start from: [content, copies, ept]
  Requests,         \* command lines: [mode, args, dry_run]
  GarbageDParts,    \* what an uninitialised dts_partitions_helper may hold
  GarbageTables,    \* what an uninitialised ept_table may hold
  MaxRuns, MaxCuts  \* bounds on the runs and on the interruptions

ASSUME ModesAssumption ==
  /\ DiskSize \in 1 .. Word - 1 /\ MaxRuns \in Nat /\ MaxCuts \in Nat
  /\ <<>> \in GarbageDParts \* the allocator may well hand out zeroes

(* What a target holds before the first run; a DTB without a partitions    *)
(* node has no partitions.                                                 *)
Dtb == [has : BOOLEAN, parts : Seq(DPartition)]
EptTables ==
  [magic : BOOLEAN, version : BOOLEAN, sum : {<<>>} \union (Nat \X Partition),
   parts : Seq(Partition)]

ASSUME TargetsAssumption ==
  \A t \in Targets :
    /\ t.content \in {"disk", "reserved", "dtb"}
    /\ t.copies \in [1 .. (IF t.content = "dtb" THEN 1 ELSE 2) ->
                       [sum : BOOLEAN, dtbs : Seq(Dtb)]]
    /\ \A k \in DOMAIN t.copies : \A j \in DOMAIN t.copies[k].dtbs :
         t.copies[k].dtbs[j].has \/ t.copies[k].dtbs[j].parts = <<>>
    /\ t.ept \in EptTables /\ Len(t.ept.parts) <= MaxParts

(* Memory that was never written does not happen to hold the very list     *)
(* dclone is asked for (the code compares the two, see README).            *)
ASSUME MemoryAssumption ==
  /\ GarbageTables \subseteq EptTables
  /\ \A r \in Requests : r.mode = "dclone" => \A args \in ArgReadings(r.args) :
       DcloneParsed(args).ok => DcloneParsed(args).parts \notin GarbageDParts

ASSUME RequestsAssumption ==
  \A r \in Requests :
    r \in [mode : {"dtoe", "etod", "dedit", "dclone", "eedit", "eclone", "ecreate"},
           args : {r.args}, dry_run : BOOLEAN]

VARIABLES
  content,      \* cli_options.content: "disk", "reserved", "dtb"
  copies,       \* the copies of the DTB as a reader sees them
  stable,       \* the copies on the medium
  ept,          \* the table on the target
  request,      \* the arguments as parsed once the mode has begun
  bhelper,      \* the DTBs in memory; <<>> if none could be read
  table,        \* the old table in memory
  script,       \* what the run has still to do
  pc,           \* "idle", "run", or inside cli_write_dtb: "first", "second", "sync"
  ret,          \* what the mode returned
  cause,        \* "none", "ok", "refused", "io", "killed", "power"
  runs, cuts,   \* counted for the bounds
  before,       \* history: the DTBs a reader saw when the run began
  begun,        \* history: the copies they were chosen from
  outage        \* history: power was lost with a copy unsynced, in this run

target == <<copies, stable, ept>>
memory == <<bhelper, table>>
history == <<runs, cuts, before, begun, outage>>
vars == <<content, target, request, memory, script, pc, ret, cause, history>>

(***************************************************************************)
(* The DTB on the target                                                   *)
(***************************************************************************)
Node(parts) == [has |-> TRUE, parts |-> parts]
NoNode == [has |-> FALSE, parts |-> <<>>]

Copy(dtbs) == [sum |-> TRUE, dtbs |-> dtbs]

(* A write cut short fails the checksum; what it holds may still parse, as *)
(* the old DTBs or as the new ones, or may not.                            *)
TornCopies(old, new) == {[sum |-> FALSE, dtbs |-> d] : d \in {<<>>, old.dtbs, new.dtbs}}

ChosenFirst(c) == c[1]           \* mutant: the checksums are not looked at

(* dtb_partition_choose_correct; a DTB file is not checksummed             *)
Chosen(c) ==
  IF content = "dtb" \/ c[1].sum \/ ~c[2].sum THEN c[1] ELSE c[2]

view == Chosen(copies).dtbs

(* Every DTB is given the same node, or loses its own.                     *)
Composed(node) == Copy([k \in DOMAIN bhelper |-> node])

(***************************************************************************)
(* The EPT on the target.  A write cut short has the new header and some   *)
(* of the new partitions; slots the old table does not use are empty.      *)
(***************************************************************************)
TornTables(old, new) ==
  {[new EXCEPT !.parts = [k \in 1 .. Len(new.parts) |->
       CASE k <= n -> new.parts[k]
         [] k > n /\ k <= Len(old.parts) -> old.parts[k]
         [] OTHER -> Part("", 0, 0, 0)]] : n \in 0 .. Len(new.parts) - 1}

(***************************************************************************)
(* What a mode decides: a sequence of writes and of refusals, each with    *)
(* the code the mode returns when it ends there.                           *)
(***************************************************************************)
Refuse(code) == <<[do |-> "refuse", code |-> code]>>
PutDtb(node, code) == <<[do |-> "dtb", node |-> node, code |-> code]>>
PutEpt(new, code) == <<[do |-> "ept", new |-> new, code |-> code]>>

(* cli_get_capacity *)
capacity == IF content = "disk" THEN DiskSize ELSE Capacity(table.parts)

SameCount(dparts) ==             \* mutant: only the numbers are compared
  bhelper # <<>> /\ Len(bhelper[1].parts) = Len(dparts)

(* dts_compare_partitions_mixed = 0, of the FIRST DTB only                 *)
SameDParts(dparts) == bhelper # <<>> /\ bhelper[1].parts = dparts

PutEptIfNew(new, code) ==
  IF SameTable(table, new) THEN <<>> ELSE PutEpt(new, code)

PutDtbIfNew(dparts, code) ==
  IF SameDParts(dparts) THEN <<>> ELSE PutDtb(Node(dparts), code)

(* dtb_check_buffers_partitions = 0: with several DTBs only the numbers of *)
(* partitions are compared, each entry is compared with itself.            *)
BuffersAgree ==
  /\ bhelper[1].parts # <<>>
  /\ \A k \in DOMAIN bhelper : Len(bhelper[k].parts) = Len(bhelper[1].parts)

Dtoe ==
  LET new == FromDParts(bhelper[1].parts, capacity)
  IN CASE bhelper = <<>> -> Refuse(1)
       [] bhelper # <<>> /\ ~BuffersAgree -> Refuse(2)
       [] bhelper # <<>> /\ BuffersAgree /\ capacity = 0 -> Refuse(3)
       [] OTHER -> IF new.ok THEN PutEptIfNew(Table(new.parts), 5) ELSE Refuse(4)

(* Without a DTB the comparison dereferences a null bhelper->dtbs: -9.     *)
Etod ==
  LET new == ToDParts(table.parts, capacity)
  IN CASE table.parts = <<>> \/ ~ValidTable(table) -> Refuse(-2)
       [] ValidTable(table) /\ ~IsPedantic(table.parts) -> Refuse(1)
       [] OTHER -> IF ~new.ok THEN Refuse(3)
                   ELSE IF bhelper = <<>> THEN Refuse(-9)
                   ELSE PutDtbIfNew(new.dparts, 4)

(* cli_write_ept_from_dtb *)
EptFromDtb(dparts, code) ==
  LET new == FromDParts(dparts, capacity)
  IN CASE content = "dtb" -> <<>>
       [] content # "dtb" /\ capacity = 0 -> Refuse(code)
       [] OTHER -> IF new.ok THEN PutEptIfNew(Table(new.parts), code) ELSE Refuse(code)

EptThenDtb(dparts) ==            \* mutant: the order of eclone
  EptFromDtb(dparts, 5) \o PutDtbIfNew(dparts, 4)

DtbThenEpt(dparts) ==
  PutDtbIfNew(dparts, 4) \o EptFromDtb(dparts, 5)

Dclone(args) ==
  LET new == DcloneParsed(args)
  IN CASE args = <<>> -> <<>>
       [] Len(args) > MaxParts -> Refuse(1)
       [] args # <<>> /\ Len(args) <= MaxParts /\ bhelper = <<>> -> Refuse(2)
       [] OTHER -> IF new.ok THEN DtbThenEpt(new.parts) ELSE Refuse(3)

(* Without a DTB the null bhelper->dtbs is read, and an argument can make  *)
(* the parser abort: the process dies in both cases.                       *)
Dedit(args) ==
  LET new == DeditParsed(bhelper[1].parts, args)
  IN CASE args = <<>> -> Refuse(-1)
       [] args # <<>> /\ bhelper = <<>> -> Refuse(-9)
       [] args # <<>> /\ bhelper # <<>> /\ Parsed("dedit", args) = "aborted" -> Refuse(-9)
       [] OTHER -> IF new.ok THEN DtbThenEpt(new.parts) ELSE Refuse(3)

(* cli_write_dtb_from_ept *)
DtbFromEpt(parts, code) ==
  LET new == ToDParts(parts, capacity)
  IN CASE IsPedantic(parts) /\ new.ok -> PutDtbIfNew(new.dparts, code)
       [] IsPedantic(parts) /\ ~new.ok -> Refuse(code)
       [] OTHER -> IF bhelper # <<>> /\ ~bhelper[1].has THEN <<>>
                   ELSE PutDtb(NoNode, code)

Eclone(args) ==
  LET new == EcloneParsed(args, capacity)
  IN CASE args = <<>> -> <<>>
       [] Len(args) > MaxParts -> Refuse(1)
       [] args # <<>> /\ Len(args) <= MaxParts /\ capacity = 0 -> Refuse(2)
       [] OTHER -> IF new.ok THEN PutEptIfNew(Table(new.parts), 4) \o DtbFromEpt(new.parts, 5)
                   ELSE Refuse(3)

(* The new table keeps the header of the old one, whatever it is.          *)
Reheaded(parts) == [table EXCEPT !.parts = parts, !.sum = Checksum(parts)]

Eedit(args) ==
  LET new == EeditParsed(table.parts, capacity, args)
  IN CASE args = <<>> -> Refuse(-1)
       [] args # <<>> /\ capacity = 0 -> Refuse(1)
       [] args # <<>> /\ capacity # 0 /\ Parsed("eedit", args) = "aborted" -> Refuse(-9)
       [] OTHER -> IF new.ok THEN PutEptIfNew(Reheaded(new.parts), 3) \o DtbFromEpt(new.parts, 4)
                   ELSE Refuse(2)

Ecreate(args) ==
  LET new == EcreateParsed(table.parts, capacity, args)
  IN CASE Len(args) > MaxParts -> Refuse(-1)
       [] Len(args) <= MaxParts /\ capacity = 0 -> Refuse(2)
       [] OTHER -> IF new.ok THEN PutEptIfNew(Table(new.parts), 4) \o DtbFromEpt(new.parts, 5)
                   ELSE Refuse(3)

Script(r) ==
  CASE r.mode = "dtoe"    -> Dtoe
    [] r.mode = "etod"    -> Etod
    [] r.mode = "dedit"   -> Dedit(r.args)
    [] r.mode = "dclone"  -> Dclone(r.args)
    [] r.mode = "eedit"   -> Eedit(r.args)
    [] r.mode = "eclone"  -> Eclone(r.args)
    [] r.mode = "ecreate" -> Ecreate(r.args)

(***************************************************************************)
(* A run                                                                   *)
(***************************************************************************)
Init ==
  /\ \E t \in Targets : content = t.content /\ copies = t.copies /\ ept = t.ept
  /\ stable = copies
  /\ request = [mode |-> "none", args |-> <<>>, dry_run |-> TRUE]
  /\ bhelper = <<>> /\ table = ept /\ script = <<>>
  /\ pc = "idle" /\ ret = 0 /\ cause = "none"
  /\ runs = 0 /\ cuts = 0
  /\ before = view /\ begun = copies /\ outage = FALSE

(* cli_read.  The helper of a lone DTB without a partitions node, and the  *)
(* table of a DTB file, are never filled in.                               *)
Read(b, t) ==
  /\ IF Len(view) = 1 /\ ~view[1].has
       THEN b \in {<<[has |-> FALSE, parts |-> g]>> : g \in GarbageDParts}
       ELSE b = view
  /\ IF content = "dtb" THEN t \in GarbageTables ELSE t = ept

Ends(code, why) ==
  /\ pc' = "idle" /\ ret' = code /\ cause' = why
  /\ script' = <<>>

Continues ==
  /\ pc' = "run"
  /\ script' = Tail(script)
  /\ UNCHANGED <<ret, cause>>

(* The shell starts ampart; it reads the target.                           *)
Start(r) ==
  /\ pc = "idle" /\ runs < MaxRuns
  /\ request' = r
  /\ \E b \in {view} \union {<<[has |-> FALSE, parts |-> g]>> : g \in GarbageDParts},
        t \in {ept} \union GarbageTables :
       Read(b, t) /\ bhelper' = b /\ table' = t
  /\ pc' = "decide" /\ cause' = "none" /\ ret' = 0
  /\ runs' = runs + 1
  /\ before' = view /\ begun' = copies
  /\ outage' = FALSE
  /\ UNCHANGED <<content, target, script, cuts>>

Decide ==
  /\ pc = "decide"
  /\ \E a \in ArgReadings(request.args) :
       LET read == [request EXCEPT !.args = a]
       IN request' = read /\ script' = Script(read)
  /\ pc' = "run"
  /\ UNCHANGED <<content, target, memory, ret, cause, history>>

Exit ==
  /\ pc = "run" /\ script = <<>>
  /\ Ends(0, "ok")
  /\ UNCHANGED <<content, target, request, memory, history>>

Doing(what) == pc = "run" /\ script # <<>> /\ Head(script).do = what

Refused ==
  /\ Doing("refuse")
  /\ Ends(Head(script).code, "refused")
  /\ UNCHANGED <<content, target, request, memory, history>>

(* cli_write_ept, see EptWrite                                             *)
WriteEpt ==
  /\ Doing("ept")
  /\ LET new == Head(script).new
         legal == content = "dtb" \/ ValidTable(new)
     IN IF ~legal
          THEN Ends(Head(script).code, "refused") /\ UNCHANGED ept
          ELSE /\ Continues
               /\ ept' = IF content = "dtb" \/ request.dry_run THEN ept ELSE new
  /\ UNCHANGED <<content, copies, stable, request, memory, history>>

CutEpt(why) ==
  /\ Doing("ept") /\ cuts < MaxCuts
  /\ content # "dtb" /\ ~request.dry_run /\ ValidTable(Head(script).new)
  /\ ept' \in {ept} \union TornTables(ept, Head(script).new)
  /\ Ends(IF why = "io" THEN Head(script).code ELSE -9, why)
  /\ cuts' = cuts + 1
  /\ UNCHANGED <<content, copies, stable, request, memory, runs, before, begun, outage>>

(***************************************************************************)
(* cli_write_dtb                                                           *)
(***************************************************************************)
NamesLegal(dparts) ==
  /\ \A k \in DOMAIN dparts : dparts[k].name \in LegalNames
  /\ NamesUnique(dparts)

(* No DTB to write to, or a partitions list that is empty or illegal       *)
DtbRefused(node) ==
  \/ bhelper = <<>>
  \/ node.has /\ (node.parts = <<>> \/ ~NamesLegal(node.parts))

Emptied == <<[sum |-> FALSE, dtbs |-> <<>>]>>    \* mutant: O_TRUNC on a disk too

Opened == IF content = "dtb" THEN <<[sum |-> FALSE, dtbs |-> <<>>]>> ELSE copies

(* The compose can fail too, and the open; O_TRUNC empties a DTB file.     *)
OpenDtb ==
  /\ Doing("dtb")
  /\ LET refused == DtbRefused(Head(script).node)
     IN \/ /\ refused
           /\ Ends(Head(script).code, "refused")
           /\ UNCHANGED copies
        \/ /\ ~refused
           /\ Ends(Head(script).code, "io")
           /\ UNCHANGED copies
        \/ /\ ~refused /\ request.dry_run
           /\ Continues
           /\ UNCHANGED copies
        \/ /\ ~refused /\ ~request.dry_run
           /\ pc' = "first"
           /\ copies' = Opened
           /\ UNCHANGED <<script, ret, cause>>
  /\ UNCHANGED <<content, stable, ept, request, memory, history>>

hand == IF pc = "first" THEN 1 ELSE 2       \* the copy being written
composed == Composed(Head(script).node)

WriteCopy ==
  /\ pc \in {"first", "second"}
  /\ copies' = [copies EXCEPT ![hand] = composed]
  /\ pc' = IF hand < Len(copies) THEN "second" ELSE "sync"
  /\ UNCHANGED <<content, stable, ept, request, memory, script, ret, cause, history>>

CutCopy(why) ==
  /\ pc \in {"first", "second"} /\ cuts < MaxCuts
  /\ \E c \in {copies[hand]} \union TornCopies(copies[hand], composed) :
       copies' = [copies EXCEPT ![hand] = c]
  /\ Ends(IF why = "io" THEN Head(script).code ELSE -9, why)
  /\ cuts' = cuts + 1
  /\ UNCHANGED <<content, stable, ept, request, memory, runs, before, begun, outage>>

SyncDtb ==
  /\ pc = "sync"
  /\ \/ stable' = copies /\ Continues
     \/ UNCHANGED stable /\ Ends(Head(script).code, "io")
  /\ UNCHANGED <<content, copies, ept, request, memory, history>>

(***************************************************************************)
(* Interruptions that do not cut a write short                             *)
(***************************************************************************)
Kill ==
  /\ pc # "idle" /\ cuts < MaxCuts
  /\ Ends(-9, "killed")
  /\ cuts' = cuts + 1
  /\ UNCHANGED <<content, target, request, memory, runs, before, begun, outage>>

(* The copies were written to the page cache; any part of what was not     *)
(* synced may have reached the medium.  The EPT is written with O_DSYNC.   *)
LosePower ==
  /\ cuts < MaxCuts
  /\ pc # "idle" \/ copies # stable
  /\ copies' \in {c \in [DOMAIN copies -> UNION
                     {{copies[k], stable[k]} \union TornCopies(stable[k], copies[k]) :
                        k \in DOMAIN copies}] :
        \A k \in DOMAIN copies :
          c[k] \in {copies[k], stable[k]} \union
                     (IF copies[k] = stable[k] THEN {} ELSE TornCopies(stable[k], copies[k]))}
  /\ stable' = copies'
  /\ outage' = (outage \/ copies # stable)
  /\ Ends(-9, "power")
  /\ cuts' = cuts + 1
  /\ UNCHANGED <<content, ept, request, memory, runs, before, begun>>

Next ==
  \/ \E r \in Requests : Start(r)
  \/ Decide \/ Exit \/ Refused
  \/ WriteEpt \/ CutEpt("io") \/ CutEpt("killed")
  \/ OpenDtb \/ WriteCopy \/ CutCopy("io") \/ CutCopy("killed") \/ SyncDtb
  \/ Kill \/ LosePower

Spec == Init /\ [][Next]_vars

(***************************************************************************)
(* Properties                                                              *)
(***************************************************************************)
TypeOK ==
  /\ content \in {"disk", "reserved", "dtb"}
  /\ Len(copies) = (IF content = "dtb" THEN 1 ELSE 2)
  /\ Len(stable) = Len(copies)
  /\ \A k \in DOMAIN copies : copies[k].sum \in BOOLEAN /\ stable[k].sum \in BOOLEAN
  /\ Len(ept.parts) <= MaxParts
  /\ pc \in {"idle", "decide", "run", "first", "second", "sync"}
  /\ script # <<>> => Head(script).do \in {"refuse", "dtb", "ept"}
  /\ pc \in {"first", "second", "sync"} => Head(script).do = "dtb"
  /\ cause \in {"none", "ok", "refused", "io", "killed", "power"}
  /\ cause = "ok" => ret = 0

Uniform(dtbs) == \A j, k \in DOMAIN dtbs : dtbs[j] = dtbs[k]

Asked(modes) == request.mode \in modes /\ request.args # <<>>

(* A run that really wrote what it was asked to, or found it was there.    *)
Success == cause = "ok" /\ ~request.dry_run /\ Uniform(before)

(* The modes that make the table from the DTB, and those that make the DTB *)
(* from the table                                                          *)
FromTheDtb == request.mode = "dtoe" \/ Asked({"dclone", "dedit"})
FromTheEpt == request.mode \in {"etod", "ecreate"} \/ Asked({"eclone", "eedit"})

(* What the mode is to begin with, given what the run found: the list of   *)
(* the DTB, or the table                                                   *)
WantedDParts ==
  CASE request.mode = "dtoe"   -> before[1].parts
    [] request.mode = "dclone" -> DcloneParsed(request.args).parts
    [] request.mode = "dedit"  -> DeditParsed(before[1].parts, request.args).parts

WantedParts ==
  CASE request.mode = "etod"    -> table.parts
    [] request.mode = "eclone"  -> EcloneParsed(request.args, capacity).parts
    [] request.mode = "eedit"   -> EeditParsed(table.parts, capacity, request.args).parts
    [] request.mode = "ecreate" -> EcreateParsed(table.parts, capacity, request.args).parts

(* The DTB that goes with a table: the list of what a pedantic one has     *)
(* beyond the default, no node with another.  (A list that was never read  *)
(* may happen to be the one that is wanted; then none is written.)         *)
Derived(d, parts) ==
  LET list == ToDParts(parts, capacity).dparts
  IN IF IsPedantic(parts) THEN bhelper = before \/ bhelper[1].parts # list => d.parts = list
                          ELSE ~d.has

(* All the copies are whole, alike, and on the medium.                     *)
Sealed == stable = copies /\ \A k \in DOMAIN copies : copies[k] = Copy(view)

(* A run that returned 0 leaves its target whole and as it was asked for,  *)
(* whatever earlier runs left half done: the list and the table are those  *)
(* wanted, the DTB goes with the table, and the copies of the DTB are      *)
(* sealed.  Excepted is a run that finds the list it wants, in the copy    *)
(* dtb_partition_choose_correct chooses, and so writes no DTB: what an     *)
(* earlier run has torn, or not synced, stays as it is.  If that leaves no *)
(* copy with a right checksum, there was none before, and the first was    *)
(* taken as it is (dtb.c:224); if there was one, a reader finds one now.   *)
Delivered ==
  Success =>
    /\ copies = begun \/ Sealed
    /\ (\E k \in DOMAIN begun : begun[k].sum) => Chosen(copies).sum
    /\ (FromTheDtb /\ (request.mode = "dclone" \/ before[1].has)) =>
         /\ \A k \in DOMAIN view : view[k] = Node(WantedDParts)
         /\ content # "dtb" => ept.parts = FromDParts(WantedDParts, capacity).parts
    /\ (FromTheEpt /\ content # "dtb") =>
         /\ ept.parts = WantedParts
         /\ \A k \in DOMAIN view : Derived(view[k], WantedParts)

(* A table with no name twice, whose partitions all lie on the disk        *)
OnDisk(parts) ==
  /\ parts \in Seq([name : STRING, offset : 0 .. DiskSize, size : 0 .. DiskSize, mask : Int])
  /\ \A k \in DOMAIN parts : parts[k].offset + parts[k].size <= DiskSize
  /\ NamesUnique(parts)

(* u-boot, given a partitions node, rebuilds the EPT from it.  After a run *)
(* on a disk that returned 0 that gives the table that is there: whenever  *)
(* the table was made from the DTB; and where the DTB was made from the    *)
(* table, if that lies on the disk: the two conversions are each other's   *)
(* inverse on such a table if it is pedantic, and the node is gone if it   *)
(* is not.                                                                 *)
TableStays ==
  (Success /\ content = "disk" /\ view # <<>> /\ view[1].has
   /\ (FromTheDtb \/ (FromTheEpt /\ OnDisk(ept.parts)))) =>
     LET rebuilt == FromDParts(view[1].parts, DiskSize)
     IN rebuilt.ok /\ rebuilt.parts = ept.parts

(* The two copies of the DTB make its update atomic for a reader: begun on *)
(* two good copies, a run that fails or is killed at any point leaves the  *)
(* DTBs of before or all of them complete with the new node.  (Power loss  *)
(* is excepted: the copies are synced together, so both may be torn.)      *)
intact == \A k \in DOMAIN begun : begun[k].sum /\ begun[k].dtbs = before

DtbSurvives ==
  (intact /\ ~outage /\ content # "dtb" /\ view # before) =>
     /\ DOMAIN view = DOMAIN before
     /\ Uniform(view)
     /\ copies[1].sum

(* The source of a conversion is on the target before what is derived from *)
(* it: dclone and dedit change the EPT only once the DTB is the one asked  *)
(* for, and eclone, eedit and ecreate the DTB only once the EPT is.  A dry *)
(* run changes neither.                                                    *)
SourceFirst ==
  [][/\ (ept' # ept \/ copies' # copies) => (~request.dry_run \/ cause' = "power")
     /\ (ept' # ept /\ Uniform(before)
           /\ (request.mode = "dclone" \/ (request.mode = "dedit" /\ before[1].has))) =>
          \A k \in DOMAIN view : view[k] = Node(WantedDParts)
     /\ (copies' # copies /\ request.mode \in {"eclone", "eedit", "ecreate"}
           /\ content # "dtb" /\ cause' # "power") =>
          ept.parts = WantedParts]_vars

(***************************************************************************)
(* What the documentation says and the code does not do (see README)       *)
(***************************************************************************)
(* dtoe, "if multiple DTBs exist, yet they don't guarantee the same EPT,   *)
(* no construted EPT will be used" (doc/available-modes.md:35).            *)
DtoeNeedsOneEpt ==
  [][(request.mode = "dtoe" /\ ept' # ept) =>
       \A j, k \in DOMAIN view :
         FromDParts(view[j].parts, capacity) = FromDParts(view[k].parts, capacity)]_vars
==============================================================================

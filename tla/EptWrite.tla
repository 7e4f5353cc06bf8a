------------------------------- MODULE EptWrite -------------------------------
(***************************************************************************)
(* cli_write_ept (src/cli.c): plan a migration from the old table to the   *)
(* new one, validate the new table, open the target, migrate, and only     *)
(* then write the table.  Composes MigratePlan and Migrate; the steps of   *)
(* io_migrate are those of Migrate, on the same disk.                      *)
(*                                                                         *)
(* The table area of the reserved partition is kept apart from the blocks  *)
(* the plan moves (see README).                                            *)
(***************************************************************************)
EXTENDS MigratePlan

CONSTANTS
  Count, Torn,            \* of Migrate; Count bounds the blocks of the disk
  Requests                \* what cli_write_ept may be called with

Content == 0 .. Count - 1

ASSUME WriteAssumption == Count \in Nat \ {0} /\ Torn \notin Content

ASSUME RequestAssumption ==
  \A r \in Requests : r.old.parts \in Seq(Partition) /\ r.new.parts \in Seq(Partition)

(* The disk has room for both tables and its blocks can be numbered.  The  *)
(* code checks neither: ept.c:932 cuts a count off at 32 bits (see README).*)
Fits(old, new) ==
  LET block == Least(MinimumBlock(old), MinimumBlock(new))
  IN \A parts \in {old, new} : Capacity(parts) \div block <= Count

ASSUME DiskAssumption ==
  Count < IdLimit /\ \A r \in Requests : Fits(r.old.parts, r.new.parts)

VARIABLES
  request,     \* [old, new, content, migrate, dry_run]
  mhelper,     \* the plan, once and for all
  step,        \* "validate", "open", "migrate", "write", "sync", "exit"
  ret,         \* what cli_write_ept returns, -1 until it does, -2: lost power
  ept,         \* the table on the target: "old", "new", "torn"
  disk, target, pending, main, sub, msource, i, depth, pc, status, origin, planned

M == INSTANCE Migrate

own == <<request, mhelper, step, ret, ept>>
blocks == <<disk, target, pending, main, sub, msource, i, depth, pc, status, origin, planned>>
vars == <<own, blocks>>

can_migrate ==
  /\ request.migrate # "none"
  /\ request.content = "disk"
  /\ mhelper.ok

(* mhelper.entries, which Migrate runs on: entries past the plan's count   *)
(* are not pending.                                                        *)
InitEntries ==
  /\ disk = [b \in M!Block |-> b]
  /\ planned = IF can_migrate THEN mhelper.pending ELSE {}
  /\ target = [b \in M!Block |-> IF b \in planned THEN mhelper.target[b] ELSE 0]
  /\ M!Started

Init ==
  /\ request \in Requests
  /\ mhelper = Plan(request.old.parts, request.new.parts, request.migrate = "all")
  /\ step = "validate" /\ ret = -1 /\ ept = "old"
  /\ InitEntries

Return(code) == step' = "exit" /\ ret' = code

ValidateWet ==      \* mutant: the dry run is not looked at
  /\ step = "validate"
  /\ CASE request.content = "dtb" -> Return(0)
       [] request.content # "dtb" /\ ~ValidTable(request.new) -> Return(3)
       [] OTHER -> step' = "open" /\ UNCHANGED ret
  /\ UNCHANGED <<request, mhelper, ept, blocks>>

(* content dtb, an illegal table and a dry run end here, in this order     *)
Validate ==
  /\ step = "validate"
  /\ CASE request.content = "dtb" -> Return(0)
       [] request.content # "dtb" /\ ~ValidTable(request.new) -> Return(3)
       [] request.content # "dtb" /\ ValidTable(request.new) /\ request.dry_run ->
            Return(0)
       [] OTHER -> step' = "open" /\ UNCHANGED ret
  /\ UNCHANGED <<request, mhelper, ept, blocks>>

Open ==
  /\ step = "open"
  /\ \/ step' = (IF can_migrate THEN "migrate" ELSE "write") /\ UNCHANGED ret
     \/ Return(1)
  /\ UNCHANGED <<request, mhelper, ept, blocks>>

Migrate ==
  /\ step = "migrate"
  /\ M!Step \/ M!ReadFails \/ M!WriteStops("failed")
  /\ UNCHANGED own

Migrated ==
  /\ step = "migrate"
  /\ status # "running"
  /\ IF status = "done" THEN step' = "write" /\ UNCHANGED ret ELSE Return(2)
  /\ UNCHANGED <<request, mhelper, ept, blocks>>

Write ==
  /\ step = "write"
  /\ \/ ept' = "new" /\ step' = "sync" /\ UNCHANGED ret
     \/ ept' = ept /\ Return(3)                             \* seek fails
     \/ ept' \in {"old", "new", "torn"} /\ Return(4)        \* write fails
  /\ UNCHANGED <<request, mhelper, blocks>>

Sync ==       \* then BLKRRPART, whose result is ignored
  /\ step = "sync"
  /\ Return(0) \/ Return(5)
  /\ UNCHANGED <<request, mhelper, ept, blocks>>

LosePower ==
  /\ step # "exit"
  /\ Return(-2)
  /\ \/ UNCHANGED <<ept, blocks>>
     \/ step = "write" /\ ept' \in {"new", "torn"} /\ UNCHANGED blocks
     \/ step = "migrate" /\ M!WriteStops("crashed") /\ UNCHANGED ept
  /\ UNCHANGED <<request, mhelper>>

Next == Validate \/ Open \/ Migrate \/ Migrated \/ Write \/ Sync \/ LosePower

Spec == Init /\ [][Next]_vars

(***************************************************************************)
(* Properties                                                              *)
(***************************************************************************)
TypeOK ==
  /\ step \in {"validate", "open", "migrate", "write", "sync", "exit"}
  /\ ret \in -2 .. 5
  /\ ept \in {"old", "new", "torn"}
  /\ M!TypeOK

(* Layouts a user means: no wrap, no name twice, no two partitions overlap *)
Disjoint(p, q) == p.size = 0 \/ q.size = 0 \/ End(p) <= q.offset \/ End(q) <= p.offset

Unwrapped(parts) == \A k \in DOMAIN parts : parts[k].offset + parts[k].size < Word

WellFormed(parts) ==
  /\ NamesUnique(parts)
  /\ Unwrapped(parts)
  /\ \A k, l \in DOMAIN parts : k # l => Disjoint(parts[k], parts[l])

Moved(r) == {n \in LegalNames : r.migrate = "all" \/ (r.migrate = "essential" /\ n \in Essential)}

(* The data of partition n is where the new table says, up to the smaller  *)
(* of the two sizes.                                                       *)
Kept(n) ==
  \A k \in Find(request.old.parts, n), l \in Find(request.new.parts, n) :
    LET old == request.old.parts[k]
        new == request.new.parts[l]
        block == mhelper.block
    IN \A b \in 0 .. (Least(old.size, new.size) \div block) - 1 :
         disk[new.offset \div block + b] = origin[old.offset \div block + b]

(* What a user asks of a migration, from the command to the blocks: when   *)
(* the new table is on the disk, every partition to be migrated has its    *)
(* data at its new place, whatever cycles the moves form, and the ones     *)
(* that stay put have not been overwritten.                                *)
DataFollowsTable ==
  (/\ ept = "new" /\ can_migrate
   /\ WellFormed(request.old.parts) /\ WellFormed(request.new.parts))
     => \A n \in Moved(request) : Kept(n)

(* The plan of two well-formed layouts is one io_migrate can carry out: no *)
(* block is the target of two, none is its own target ("bad plan!"), none  *)
(* lies beyond the disk.                                                   *)
PlanSound ==
  (can_migrate /\ WellFormed(request.old.parts) /\ WellFormed(request.new.parts))
     => /\ M!Injective
        /\ \A b \in planned : target[b] # b /\ target[b] \in 0 .. mhelper.count - 1

(* Blocks move only for a disk whose new table is legal and outside a dry  *)
(* run; the table on the disk changes only after a migration that ended    *)
(* well, or that was not to be done.                                       *)
WritesInOrder ==
  [][/\ disk' # disk => /\ request.content = "disk" /\ ~request.dry_run
                        /\ ValidTable(request.new) /\ ept = "old"
     /\ ept' # ept => /\ request.content # "dtb" /\ ~request.dry_run
                      /\ ValidTable(request.new)
                      /\ can_migrate => status = "done"]_vars

(* "all -> migrate all partitions", "essential" the essential ones         *)
(* (cli.c:215, doc/command-line-interface.md:67): a write to a disk that   *)
(* returned 0 has migrated them.                                           *)
ExitZeroMeansMigrated ==
  (/\ ret = 0 /\ request.content = "disk" /\ ~request.dry_run
   /\ WellFormed(request.old.parts) /\ WellFormed(request.new.parts))
     => \A n \in Moved(request) : Kept(n)
==============================================================================

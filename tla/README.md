# TLA+ models of ampart

ampart edits the partition table of Amlogic's eMMC devices. The table exists in
two forms. The *EPT* (eMMC partition table, `src/include/ept.h`) lies on the
disk, one entry per partition with name, offset, size and mask. The *DTB* holds
a `partitions` node with names, sizes and masks, from which u-boot derives an
EPT. ampart reads both, decides in memory what they should become, optionally
moves the data of partitions whose offset changes, and writes the two back.
It runs on a live system as root, on the disk it was started from; what is hard
about it is the order of the writes and what is left when one of them does not
happen.

Paths of the sources are relative to the repository: `src/io.c`,
`doc/migration.md` and so on (`src/src/io.c` in `PROJECT.json`, whose paths
begin at the directory that holds the repository).

## The system

| Part | State | Operations | Modelled in |
|---|---|---|---|
| Block migration (`src/io.c`) | the disk, `entries[]`, two block buffers, the recursion | `io_migrate`, `io_migrate_recursive` | `Migrate`, `BlockMove` |
| EPT data structure (`src/ept.c`) | none of its own: values | checksum, validity, comparison, capacity, pedantic layout, conversion to and from DTB partitions, common block size | `EptTable` |
| Migration planning (`src/ept.c`) | the plan it returns | `ept_migrate_plan` | `MigratePlan` |
| Writing the EPT (`src/cli.c`) | the target | `cli_write_ept` | `EptWrite` |
| Modes (`src/cli.c`) | target, DTB and table in memory, options | `cli_read`, `cli_mode_*`, `cli_write_dtb` | `Modes` |
| EPT editing (`src/ept.c`) | the table in memory | `ept_eedit_parse`, `ept_eclone_parse`, `ept_ecreate_parse`, `ept_ungap` | `EptEdit`, `Edits` |
| DTB list editing (`src/dts.c`) | the partition list in memory | `dts_dedit_parse`, `dts_dclone_parse` | `DtsEdit`, `Edits` |
| Argument language (`src/parg.c`) | editors and definers | `parg_parse_*`, places, adjustments | `Parg` |
| DTS (`src/dts.c`, `src/stringblock.c`) | phandle list, property names | find, read, sort, assign phandles, compose | `Dts` |
| DTB container (`src/dtb.c`, `src/gzip.c`) | two checksummed copies, several DTBs, gzip | read, choose, compare, implement, remove, combine, compose | `DtbRewrite`; the copies in `Modes` |
| Options, target and lookup (`src/cli.c`, `src/io.c`) | `cli_options` | `cli_parse_options`, `io_identify_target_type`, `io_find_disk`, `cli_read` | `Target` |
| Full transfers (`src/io.c`) | bytes left | `io_read_till_finish`, `io_write_till_finish` | `Transfers` |
| Reports, snapshots, web report, version | - | formatting | no |

How they interact: everything is a call in one thread. `cli_read` fills the DTB
helper and the table; a mode derives the new list or table; `cli_write_dtb`
composes the new DTB and writes its copies; `cli_write_ept` plans a migration
with `ept_migrate_plan`, runs `io_migrate` on it and writes the table. The
shared state is the target, and through it runs of ampart act on one another:
a run finds what an earlier one left, finished or not.

What is hard: chains and cycles of moves with memory for two blocks; a failed
transfer, a kill or a power loss in the middle of a migration, between the two
copies of the DTB, or between the DTB and the EPT; comparisons that save a write
and may take the half-done for the done; a plan that fails; unsigned arithmetic
at the boundaries; memory read before it was filled. What each part must
guarantee is listed with its module below. `PROJECT.json` lists the hazards line
by line, with the properties that watch them.

## Modules

### `BlockMove`: what a migration promises

As if the whole disk were read first: each block is delivered with the content
its source had when the migration *started*. A migration that stops may have
delivered any part, and damaged the one destination it was writing.

### `Migrate`: `io_migrate`

One action per stretch of code ending in at most one transfer: `SkipBlock`,
`ReadMain` and `Finish` are the loop of `io_migrate`; `BadPlan`, `Enter`,
`WriteLast` and `WriteAndRecurse` one frame of `io_migrate_recursive`.
`pending` is the set of entries with that flag, `main` and `sub` the contents of
`*buffer_main` and `*buffer_sub`. The frames above the current one have nothing
left to do but to pass its result on, so `depth` stands for the stack.
`ReadFails`, `WriteStops` and `Crash` are the failures; a write cut short leaves
the old block, the new one or `Torn`. The disk is opened with `O_DSYNC`, so
writes are durable one by one. `origin` and `planned` are history.

Correct means: `ImplementsPromise` (it refines `BlockMove`, for any plan, also
one with two sources for one target), `Migrated`, `LossBound`, `DepthBounded`
and `Termination`.

### `EptTable`: tables as values

Checksum, validity, comparison, capacity, `ept_pedantic_offsets`,
`ept_is_not_pedantic`, the two conversions and `ept_get_minimum_block`, as
functions. Offsets and sizes wrap at `Word` (2^64 in the code); `Rest` is
`(uint64_t)-1`. The checksum adds up the *first* partition `partitions_count`
times (`ept.c:132`), so it is modelled as that pair and no more.

### `MigratePlan`: `ept_migrate_plan`

From two tables the block size and the target of each block, with the
truncation to `uint32_t` (`IdLimit`), both shrinks, the overwriting order of the
two loops and the early `return 6`.

### `EptWrite`: `cli_write_ept`

Composes `MigratePlan` with the steps of `Migrate` on one disk. `Validate`,
`Open`, `Migrate`, `Migrated`, `Write` and `Sync` are the function in its order;
`LosePower` can come at any point. As in the code, `can_migrate` is computed
before anything is validated, and a failed plan makes it false.

The table area (in the reserved partition) is kept apart from the blocks the
plan moves: `ept` is `old`, `new` or `torn`. In the code the area is part of
`reserved`. A plan that moves `reserved` (only a non-pedantic request does) would
move the table's bytes with it; that is not in the model.

### `Modes`: runs of ampart on a target

A run is `Start` (with `cli_read`), `Decide` (the mode, which yields a `script`
of writes and refusals), then the script: `WriteEpt` in one step, as its inside
is `EptWrite`, and `OpenDtb`, `WriteCopy`, `SyncDtb` for `cli_write_dtb`. `copies`
is the DTB as the page cache shows it, `stable` as the medium holds it.
Interruptions: an I/O error, a kill, or a power loss that leaves any part of
what was not synced. Then the next run starts on what is there. `dtoe`, `etod`,
`dclone`, `eclone`, `dedit`, `eedit` and `ecreate` each have an operator that
gives their script; the last five take their arguments through `Parg` and
their result from `DtsEdit` and `EptEdit`.

What uninitialised memory holds is a choice: `GarbageDParts` for the helper of a
lone DTB without a partitions node (`dtb.c:512-517`), `GarbageTables` for the
table of a DTB file (`cli.c:1166`), `NameReadings` and `IndexReadings` for a
selector that is copied without its end (`parg.c:314`, `parg.c:324`).

### `Parg`, `EptEdit`, `DtsEdit`: what arguments do

`Parg` is a partition argument after it was split at its separators: an
operation, a selector, a name, numbers with their sign, masks and a place.
`LegalFor` is what each mode allows; `Parsed` the outcome of parsing, which may
also be an abort (`parg.c:373` frees a pointer into the array of editors).
`EptEdit` has every operation of `ept_eedit_each`, the cloning of tables, and
`ept_ecreate_parse` with `ept_ungap`: sorting, the best of the greedy fills of
the gap before `reserved`, and the two chains. `DtsEdit` is the same for the list
of the DTB. All of it is operators, so that `Modes` can use whole commands.

### `Edits`: a command argument by argument

`Prepare`, `Parse`, `Edit`, `Finish`: the loops of `ept_eedit_parse`,
`ept_ecreate_parse` and `dts_dedit_parse`, with the list in `list`. It asks what
a sequence of arguments leaves that no single one would.

### `Dts`: the device tree

The structure block is a sequence of tokens (`begin`, `end`, `prop`, `nop`,
`fin`) and the string block a set of names. `PartitionsAt` finds the node,
`Partitions` reads it (up to the first thing that is wrong, as the parser does:
what it read so far stays in the helper), `Sorted` is `dts_sort_partitions`,
`Dropped` and `Assigned` the bookkeeping of phandles, `Composed` the new node,
`Implemented` and `Removed` the two rewrites with their second reading.

### `DtbRewrite`: an image, again and again

`Read`, `Compose`, `Write`, `Finish` are one command's way from the target and
back: an image of one or more DTBs, plain, multi or zipped. `Die` is the abort
of the parser (`dts.c:577` frees a pointer into the middle of the helper), which
may also go unnoticed. All DTBs of an image change or none.

### `Target`: what is worked on

`TakeOption` is one round of `cli_parse_options`, `Identify` is
`io_identify_target_type` with `cli_options_complete_target_info`, `LookInto` one round of
`io_find_disk` (the disks in any order, as `readdir` pleases), `SeekDtb` and
`SeekEpt` the offsets and amounts of `cli_read`, in unsigned arithmetic.

### `Transfers`: one full read or write

The two loops of `src/io.c:50-88` against a kernel that delivers any part
(`Deliver`), reports the end of the file (`EndOfFile`), interrupts or fails. It
justifies what the other modules take for granted: a transfer succeeds, or
leaves a beginning.

### Checking and proving

The modules named `MC...` hold the instances (`MCArgs` the arguments two of them
share), the modules named `..._proofs` the theorems about the module they are
named after. `Recursion` has what several of them use: induction and recursion
over the natural numbers, stated for sets and functions. None of the proof
modules changes a definition: TLC and the prover speak of the same formulas.
An operator with the comment "mutant" is a wrong version of the definition that
follows it; it is used only to see that a property notices.

## Runs

| Run | Shows |
|---|---|
| `MCMigrate.cfg` | All 16552 states of all plans over 4 blocks (every set of moved blocks, every target function), with a failure or a power loss at every point: refinement of `BlockMove`, `Migrated`, `LossBound`, `DepthBounded`, and that every migration ends. |
| `MCEptWrite.cfg` | Every well-formed old layout of three partitions against every new one, and every option on one pair: `DataFollowsTable`, `PlanSound`, `WritesInOrder`. |
| `MCModes.cfg` | Two runs of every writing mode with up to two interruptions on disks, reserved partitions and DTB files: `Delivered`, `TableStays`, `DtbSurvives`, `SourceFirst`. |
| `MCEdits.cfg` | Sequences of up to three (`eedit`; four in a few) or two (`dedit`, `ecreate`) arguments: `StaysWithin`, `OthersKept`, `DefinedApart`; and `ept_ungap` on tables of three sizes of bootloader and partitions of every size: `EssentialsKept`, `EssentialsApart`, `GapUsed`. |
| `MCDtbRewrite.cfg` | Repeated rewrites of twenty images: `ReadsBack`, `PhandlesUnique`, `OthersUntouched`, `PhandlesReused`, `StaysWritable`, `SortedByRecord`. |
| `MCTransfers.cfg` | Every transfer of up to 5 units on files of up to 6: `CompleteOrError`, `PrefixOnly`, `Ends`. |
| `MCTarget.cfg` | Command lines of up to two options on 40 dumps and seven devices: `ContentTrue`, `BySizeFits`. |

- `DataFollowsTable`: with the new table on the disk every migrated partition has
  its data at its new place, block for block, from the command down to the
  transfers. `PlanSound`: for well-formed layouts no block is the target of two,
  none its own target and none beyond the disk, so `io_migrate` never meets a
  "bad plan".
- `Delivered`: a run that returns 0 leaves the list and the table it was asked for,
  and the DTB that goes with the table (the list that a pedantic one stands for, no
  node with another), whatever was left by earlier interrupted runs. If it wrote
  the DTB, the copies are whole, alike and on the medium. If it did not, because the
  list in the copy it chose is the wanted one, they are as they were found: running
  an interrupted `dclone` again brings list and table to what was asked for, but does
  not mend a torn copy, nor sync one that was not. A right checksum is never lost, but
  where both were wrong they may stay so (see the remarks). A lone DTB without a node
  is excepted for `dtoe` and `dedit` (see the remarks).
- `TableStays`: after a run on a disk that returned 0, deriving the EPT from the
  DTB gives the EPT that is there, so u-boot does not change it at the next boot.
  For the modes that go from the table to the DTB it asks that the table has no
  name twice and lies on the disk (`OnDisk`); what `eclone` and `etod` do where it
  does not is among the remarks.
- `DtbSurvives`: started on two good copies, a run that fails or is killed
  leaves a reader the old DTBs, or all of the new ones.
- `SourceFirst`: `dclone` changes the EPT only under a finished DTB, `eclone` the
  DTB only under a finished EPT; a dry run changes neither.

- `StaysWithin`: no order of moving and growing pushes a partition over the end of
  the disk, unless an argument names a size so large that the 64-bit end wraps.
  `OthersKept`: one argument concerns one partition and leaves the order of the
  others. `DefinedApart`: a partition defined without an offset lands behind
  everything, also after earlier arguments reordered the table.
- `EssentialsKept`, `EssentialsApart`, `GapUsed`: `ept_ungap` loses nothing, overlaps
  nothing, and puts nothing behind `reserved` that would still fit before it.
- `ReadsBack`: whatever is written to an image is what the next run reads.
  `PhandlesUnique`, `PhandlesReused`: no phandle is given twice, and they do not
  grow from rewrite to rewrite, as far as the phandles of the old node were all
  read (`Lowest`; see the remarks). `StaysWritable`: no rewrite makes the next one
  impossible, for DTBs that have a phandle outside `/partitions` and nothing after
  the root node but `FDT_END` (`Anchored`). `OthersUntouched`: the rest of every tree is token for token what it
  was. `SortedByRecord`: the order is that of `part-0`, `part-1`, ...
- `CompleteOrError`, `PrefixOnly`, `Ends`: see `Transfers`.
- `ContentTrue`: the bytes a target begins with count more
  than its size, and the last `--content` most. `BySizeFits`: what is read from a
  target known by its size alone lies within it.

### Runs that contradict the documentation

Each of these checks a sentence of the documentation or of a message, and TLC
finds it violated by what the code does.

| Run | Sentence | Code |
|---|---|---|
| `MCEptWriteSkipped` | "all migrate all partitions" | `cli.c:500`: if the plan fails (an empty partition that begins where the disk ends, `ept.c:962`) the table is written without a migration, exit code 0 |
| `MCModesMultiDtoe` | "If multiple DTBs exist, yet they don't guarantee the same EPT, no construted EPT will be used" | `dtb.c:561`: `entry_b` is taken from `phelper_a` |
| `MCEditsMisread` | "A negative number to select a partition from end to start (-1 for the last)" | `parg.c:324`: the digits are copied without a NUL after them, so more of them may be read |
| `MCTargetFindDisk` | "ampart will find its underlying disk /dev/mmcblk0 and operate on that instead" | `io.c:186`: the number is compared with a line that ends in a newline; `io.c:181`: the search ends at a disk without the partition |
| `MCTargetShortDump` | "remaning data size smaller than minimum required for DTB checksum" | `cli.c:130`: the difference is unsigned, a dump shorter than the offset passes the test and is read for ever |

### Bounds

- `Count = 4` in `MCMigrate`: all shapes of a plan are there, a cycle of four, a
  cycle with a tail, two cycles, chains that meet, a block targeting itself. What
  holds for every `Count` is proved.
- `MCEptWrite`: sizes 1 and 2, offsets 0 to 3 on a disk of 5 units, blocks of 1
  and 2 units. Two essential partitions and one that is not can swap, rotate,
  grow, shrink and overlap (in the new table). `Word = IdLimit = 64` is far from
  wrapping here; a size that wraps is among the arguments of `MCEdits`.
- `MCModes`: `DiskSize = 10` has room for the four pedantic partitions and two
  more. The lists cover "the rest", fixed sizes, an explicit `cache`, sizes that
  do not fit, a repeated name and too many. `MaxParts = 6` stands for 32. Two
  runs: one may be interrupted and the second repairs or repeats. Two
  interruptions: one in each run, or two after one another.
- Targets start as they are found in the field: both copies alike and good, and
  several DTBs with one partition list. Unlike DTBs are left to
  `MCModesMultiDtoe`. The EPT may be pedantic or not, empty, or with a wrong checksum.

- `MCEdits`: lists of three and four partitions and one that is full but for one
  place; arguments of every operation, selectors from both ends, sizes and
  offsets that reach over the end, a size that wraps. For `ept_ungap`, bootloaders
  that end before, at and behind `reserved`, and partitions of 0 to 4 units around
  a gap of 3, so that none, one, two or three fit and exact fits are among them.
- `MCDtbRewrite`: trees with phandles in nodes before and after `/partitions`, with
  and without `linux,phandle`, children out of order, records that do not
  match, misfits, phandles that clash, two `/partitions`; two DTBs, and images that
  fit only zipped or not at all. Three lists and the removal, in any order.
- `MCTransfers`: a file can be shorter than, as long as and longer than what is asked.
  The proofs hold for every size.
- `MCTarget`: sizes at and on either side of each limit, every beginning, two disks
  of which one lacks the partition, options that force, contradict and overrule.

`CHECK_DEADLOCK FALSE` stands in every configuration because a migration, a call
of `cli_write_ept`, a transfer, a command and a bounded sequence of runs come to
an end. A read past the end of a file is the one case that should end and does
not: `Ends` excepts it and `MCTargetShortDump` shows it.

### Fairness

`Termination` needs `WF_vars(Step)`, where `Step` excludes the failures. ampart is
one thread that takes no lock and waits for no peer, so as long as its transfers
return it takes its next step. That they return is `Ends`, under `WF` of the
loop's own steps and `SF_vars(Answer)`: ampart opens its files for blocking I/O and
installs no signal handler, so a call that is tried again and again is answered,
with data or with an error. Neither covers a read at the end of a file.

## Proofs

`Migrate_proofs`, for every `Count` above 0 (`CountAssumption`; `io_migrate`
refuses 0), every content and every plan; `TornAssumption` only keeps the torn
content apart from the good ones.

| Theorem | Establishes |
|---|---|
| `TypeCorrect` | `Spec => []TypeOK` |
| `MigrationCorrect` | `Spec => []Migrated` |
| `LossBounded` | `Spec => []LossBound` |
| `RecursionBounded` | `Spec => []DepthBounded` |
| `Refinement` | `Spec => ImplementsPromise` |

None of the properties is inductive: they speak of the disk and say nothing of
the buffers. The strengthening `IInv` says where the content of each block
that is still needed is to be found. `SourcesIntact`: a pending block is
unchanged on the disk, save the one just overwritten, whose content is in a
buffer. `Buffers`: during a frame `main` is the *original* content of
`msource`, and before a write `sub` is that of the block about to be overwritten
if it has a move of its own. `DeliveredIntact`: for injective plans what was
delivered is not overwritten. `Scanned`: the loop leaves no pending entry behind
it, which makes `done` mean that all is delivered. `InvStep` goes through
the actions one by one. `DepthBounded` follows from `FramesRetired`, the same
bound made exact at the entry of a frame. `Refinement` maps a write to
`Deliver(msource)`, whatever stops the run to `Stop`, and every other step to a
stutter, using `Buffers` for the content that is written.

`Transfers_proofs`, for every size of a transfer and of the file
(`TransfersAssumption`: they are natural numbers):

| Theorem | Establishes |
|---|---|
| `Types` | `Spec => []TypeOK` |
| `Complete` | `Spec => []CompleteOrError` |
| `Prefix` | `Spec => []PrefixOnly` |

The strengthening ties the place in the buffer to the offset of the file
(`Position`: they differ only by what the last call moved and the loop has yet to
count), and says that exactly the part up to there is new (`Moved`).

`Target_proofs`, for every set of files, every layout and every command line that
satisfies `TargetAssumption`:

| Theorem | Establishes |
|---|---|
| `TypeCorrect` | `Spec => []TypeOK` |
| `ContentRight` | `Spec => []ContentTrue` |
| `SizeSuffices` | `Spec => []BySizeFits` |
| `TargetNeverReplaced` | what ampart works on is the target the command line names |

The invariant follows an option to where it takes effect. `Told`: the options read
so far have left their mark, and of several `--content` the last counts. `Known`:
once identified, the size is that of the file and the content is the forced one
or what the beginning and the size say. `Placed`: the part being read lies where the
content puts it. `TargetNeverReplaced` is the other side of the finding of
`MCTargetFindDisk`: `Text` never equals `SysText`, so no lookup succeeds.

`EptWrite_proofs`, for every disk and every set of requests, under
`RequestAssumption` (tables are lists of partitions), `BlockAssumption` (the
largest block, 4 MiB, has no odd divisor but 1) and `DiskAssumption` (both tables
fit the disk, and its blocks can be numbered in 32 bits: otherwise `ept.c:932` cuts
the count, listed with the hazard at `ept.c:982`):

| Theorem | Establishes |
|---|---|
| `PlansSound` | `Spec => []PlanSound` |
| `DataFollows` | `Spec => []DataFollowsTable` |
| `OrderOfWrites` | `Spec => WritesInOrder` |
| `TypeCorrect` | `Spec => []TypeOK`, for tables in which no end wraps |

The proof has three layers. *Arithmetic*: the block found by halving divides every
offset and size of both tables (`MinimumBlockDivides`; this is where 4 MiB has to be
a power of two: of two blocks found by halving the smaller divides the larger,
`DivisorsChain`). *The plan*: in whole blocks the extents of a well-formed table
are disjoint and lie on the disk, so the plan sends no two blocks to one
(`PlanInjective`), nothing beyond the disk (`PlanInRange`) and nothing onto a
partition that stays (`PlanSpares`). *The composition*: a step of `cli_write_ept`
is a step of `io_migrate` or leaves the disk alone (`BlockStep`), so `IInv` of
`Migrate_proofs`, instantiated on the variables of `EptWrite`, is kept and the
theorem about `Migrated` can be used. `IInv` of this module adds `PlanKept` (the plan
in memory is still the one that was drawn) and `InOrder`. `TypeCorrect` needs its
hypothesis: a table whose end wraps past 2^64 may send a block beyond the disk
(the hazard at `ept.c:982`), and `io_migrate` is then called outside its types. The
properties themselves ask for well-formed tables and need no such hypothesis.

`Modes_proofs`, for any number of runs and interruptions, any list of partitions and
arguments, and any garbage in memory, under `TargetsAssumption` (the shape of
what is on a target), `RequestsAssumption` (the seven modes) and `MemoryAssumption`
(memory that was never written does not hold the very list `dclone` is asked for:
`dtb.c:512` leaves it uninitialised and the code compares it):

| Theorem | Establishes |
|---|---|
| `TypeCorrect` | `Spec => []TypeOK` |
| `Survival` | `Spec => []DtbSurvives` |
| `Delivery` | `Spec => []Delivered` |
| `SourceThenDerived` | `Spec => SourceFirst` |
| `TableKept` | `Spec => []TableStays` |
| `RoundTrip` | on a pedantic table on the disk the two conversions undo each other |

The invariant describes what the rest of a script still has to do. `DtbThenTable` and
`TableThenDtb`: what is no longer in the script has been written, or already was
what is wanted; for `dtoe` and `etod` as for the modes with arguments, and with the
DTB that goes with a table. `Fresh`: as long as `cli_write_dtb` has not been called
the copies are those the run began with, which the history variable `begun` keeps,
and once it has finished they are `Sealed`. `Survives`: at each point inside
`cli_write_dtb` which of the two copies are the old ones and which the new.
`Delivered` is inductive only with these, since a mode that finds nothing to write
returns 0 at once. `ScriptFits` shows for each of the seven modes that its script has
the shape the invariant asks for.

`TableKept` is about two values that are never written by one step. Its invariant
`TwoAgree` names them before either is on the target: the node and the table that the
rest of the script is going to leave (`Outcome`), of which the one rebuilds the other
(`Match`). For `dtoe`, `dclone` and `dedit` the table is made from the node by the
function u-boot uses. For the other modes it is the reverse, and rests on
`RoundTrip`. Where a pedantic table puts its partitions follows from the sizes
(`Layout`), what the DTB keeps are the sizes and masks of those that the default table
does not have or has otherwise (`KeptIs`), the merge with the default table puts each
back where it was (`MergedIs`), and the last partition, whose size the DTB gives as
"the rest" if it fills the disk, ends where it did (`LaidAgain`). If the table is not
pedantic, the node is removed and there is nothing to rebuild from.

`Edits_proofs`, for every list of up to `MaxParts` partitions, every sequence of
arguments and every way they can be misread, under `EditRequestsAssumption` (lists
and arguments have the types of their structs) and `NamesAssumption` (the names
of the default table are legal):

| Theorem | Establishes |
|---|---|
| `TypeCorrect` | `Spec => []TypeOK` |
| `StaysInside` | `Spec => []StaysWithin` |
| `EssentialsStay` | `Spec => [](NamesUnique(old) => EssentialsKept)` |
| `NoOverlap` | `Spec => [](no end in list wraps => EssentialsApart)` |
| `GapFilled` | `Spec => []GapUsed` |
| `OthersStay` | `Spec => OthersKept` |
| `DefinedBehind` | `Spec => DefinedApart` |

Most of it is about `ept_ungap`, whose loops are functions defined by recursion.
Each is shown to be what its rounds say (`PickedLoop`, `SortLoop`, `FillLoop`, ...),
then what it computes for every list, by induction over the rounds: `PickedIs` and
`ChainedIs`; `SortedIs`, that two nested loops of swaps sort in descending order and
lose nobody; `FillsIs` and `BestIs`, what a greedy fill takes and leaves and that the
best start is kept; `BestIsFull`, the argument behind `GapUsed`: with the sizes in
descending order, starting at a partition that was left out but would fit would
leave less. `UngappedIs` puts them together. The invariant adds to the properties
what the list is at each stage (`Created`: before the first argument it is what
`ept_ungap` returned) and that arguments are legal once parsed (`Staged`). The
hypothesis of `EssentialsStay` is what `ept_valid_table` has checked when the
table was read; with a name twice the second would replace the first. That of
`NoOverlap` fails only if the partitions together are larger than 2^64.

`DtbRewrite_proofs`, for every image, every list of partitions and any number of
rewrites, under `DtbRewriteAssumption` (the shape of images; a list has names,
natural sizes and masks, and no more than `MaxParts` partitions; a plain image has one DTB) and `DtsAssumption` (there is room for a partition):

| Theorem | Establishes |
|---|---|
| `TypeCorrect` | `Spec => []TypeOK` |
| `SortedAsRecorded` | `Spec => []SortedByRecord` |
| `OthersStay` | `Spec => []OthersUntouched`, if `OnePartitions` |
| `WrittenReadsBack` | `Spec => []ReadsBack`, if `OnePartitions` |
| `PhandlesDistinct` | `Spec => []PhandlesUnique` |
| `PhandlesLow` | `Spec => []PhandlesReused` |
| `WritableForEver` | `Spec => []StaysWritable`, if `OnePartitions` |

It rests on a theory of the token sequence. *Levels*: how many nodes are open after
a token; a node is a stretch over which the level stays above what it was before
it (`NodeLevels`), and what `EndOf` finds is one (`NodeEnds`, `EndOfNode`). *One node in
place of another*: the levels of all other tokens stay (`ReplacedLevels`), so a tree
stays one and the nodes named `partitions` below the root stay what they were,
but for the one that was replaced (`ReplacedTree`, `ReplacedCandidates`).
*The new node*: what `Composed` lays end to end is one node, whatever the
partitions are called (`ComposedNode`). Together, the search finds exactly the new
node, and without it the same tokens are left (`ReplacedFound`, `SameRest`, `Inserted`,
`Exchanged`). *Sorting*: a round puts a phandle where the record has it and never
moves one that an earlier round has put there; if the record names each
phandle once, none is left over (`SortRound`, `SortedRight`). *Phandles*: a token's parent
is where the level last rose to the token's own (`ParentUp`), so a node in the place of
another is the parent of none but its own tokens (`ReplacedParent`); the new node
has the phandles assigned and no other, each for one node (`ComposedApart`); those
assigned are none of `Free` and no two the same (`AssignedIs`, which rests on `Nth`
finding what it looks for, `NthIs`); and whatever phandle `dts_drop_partitions_phandles`
frees stood in the old node, so that with legal phandles no node outside it has it
(`ReadInside`, `OthersUsed`). Together: what legal phandles become is legal
(`ReplacedLegal`, `ImplementedLegal`), and as `n` free phandles are found among the
first `c + n` if `c` are taken, the new ones stay that low (`ImplementedLowest`).

`WritableForEver` needs that what is composed reads back. *What is written*: the
tokens of each partition and of the node as a whole, with their strings and values
(`ComposedTokens`, `NodeAt`). *Where it comes to lie*: the splice leaves them next to
each other, in the place where `/partitions` is then found (`Spot`). *What is read of
them*: no token is objected to (`NoneWrong`), the count, the name, the size, the mask and the
phandle of each partition are those composed (`HeadRead`, `PartRead`), and the children
are found one after the other (`ChildrenRead`); they lie in the order of the record
already, so sorting leaves them alone (`SortedAsIs`). `NodeRead` puts these together, and
as the helper that comes of it is one `Implemented` takes (`Takes`), a DTB that was
written takes the next list (`TakesAgain`). The same holds of one whose node was taken
out, if a phandle is left outside it (`StripStays`).

The invariant is built in layers: `TInv` (shapes), `SInv` (the DTBs are device
trees, and the helper is what was read of one), `KInv` (the DTBs made and written are
those found but for `/partitions`, and what is written meets what was wanted), and, on
top of `SInv`, `LInv` (until the list is put in, the image is the one the run began
with; phandles are legal and low in what is made of a list and in what is written), and
`WInv` on top of `KInv` (an image that was anchored stays one whose DTBs can be written).
`OnePartitions` asks that a DTB found has one node `/partitions` at most, as every
device tree has; without it `OthersStay` is false, see the remarks.

Model-checked only: `Termination` and `Ends`, since liveness is not proved. Every
other property of a passing run is stated by a theorem.

## Remarks

- After an interrupted run a second one that finds the list it wants in the copy it
  chooses writes no DTB and returns 0 (`cli.c:998`, `cli.c:676`, `cli.c:801`). If
  both copies fail their checksum, as after a power loss before the one `fsync`, the
  first is chosen as it is (`dtb.c:224`), and both go on failing it. u-boot's judgement
  of such copies is outside the program. `Delivered` says exactly this much.
- A second interruption can cost both DTB copies. A copy torn by a first run
  stays torn when the next run finds the other copy right and has nothing to
  write; `DtbSurvives` therefore asks for two good copies at the start.
- The two copies are synced once, after both have been written, so a power loss
  can tear both. `DtbSurvives` excepts it, and no document promises more.
- A DTB *file* is emptied by `O_TRUNC` before it is written.
- An interrupted migration cannot be resumed: nothing records which blocks were
  moved, and running it again would move them twice. `LossBound` bounds the
  loss of content, not of order.
- A table with right partitions and a wrong checksum counts as the same
  (`ept.c:450-495`) and is not rewritten.

Seen while modelling, and not kept as a run:

- `etod` compares only the first of several DTBs (`cli.c:676`).
- `dclone` refuses exactly 32 partitions, which a DTB may have (`dts.c:1024`).
- `eclone`, `eedit` and `ecreate` go on with a DTB file, whose table was never read
  (`cli.c:1055`).
- `eclone` of the four default partitions writes the EPT and is then refused by
  `cli_write_dtb`, which takes no empty list (`cli.c:422`).
- A table found on a disk may reach beyond it, and `etod` asks only whether it is
  pedantic. What it makes of such a table does not lead back to it: the DTB has no
  offsets, and `ept_pedantic_offsets` ends at the capacity (`ept.c:332`). A table with
  a name twice is never written, but one that is already there is not checked by a
  mode that would write the same. `TableStays` leaves both out.
- `eclone` of a partition that begins beyond the capacity takes more off its size than
  there is (`ept.c:644`): the size wraps to nearly 2^64 under the message that it was
  shrunk, the end wraps back to the capacity and passes the check.
- A migration is planned from an old table whose checksum is wrong (`cli.c:500`).
- `dtoe` on a lone DTB without a node takes memory that was never set (`dtb.c:512`,
  `dtb.c:517`) for a list and may write a table from it, where
  `doc/available-modes.md:34` says that none is constructed.
- `ecreate` does not always remove the node from the DTB, as
  `doc/available-modes.md:239` says it does: if the table it makes is pedantic, as
  with arguments for `cache` and `env` at the default gaps it can be, the node is
  written or kept (`cli.c:793`). `Delivered` and `TableStays` ask for the DTB that goes
  with the table, which is what the code sees to.
- A partition is worked on by itself as a whole disk, without `--strict-device` and
  with no look for its disk, if it begins with zeros, if it is larger than a reserved
  partition and begins with nothing known, or if `--content disk` is given
  (`cli.c:362-366`); `doc/command-line-interface.md:70` says that the disk is found.
  `Target` has it so, and `MCTarget` has such partitions.
- `dtoe` on a node that could not be read to its end takes the partitions it got so
  far.
- The short options `-s` and `-M` are not in the string given to getopt
  (`cli.c:254`).
- `free` is given pointers into the middle of a block (`dts.c:577`, `parg.c:373`).
- `ept_ungap` does nothing for a gap of 0, and computes a huge one when the
  bootloader ends behind `reserved` (`ept.c:1278`).
- With two nodes `/partitions`, the last is taken. `dtb_buffer_entry_remove_partitions`
  takes it out and refuses the result if another one can be read; one that cannot be
  read, and gives no partition before its first mistake, is left and found next time.
- Only `phandle` properties are dropped when `/partitions` is replaced
  (`dts_drop_partitions_phandles` and `dts.c:505`): one that the old node had only as
  `linux,phandle` stays taken for that rewrite.
- With the last phandle of a tree removed together with `/partitions`, the node
  cannot be put back (`dts.c:875`).

## Not modelled

The bytes of the flattened device tree (offsets, padding, endianness: `Dts` has
tokens), zlib, the splitting of an argument at its separators, usage texts,
reports, snapshots and the web report: formatting without state. Phandles so
large that the list of them wraps (`dts.c:770`). Version 1 of the multi-DTB header.
Out of memory: every such path returns before anything was written. The modes
`dsnapshot`, `esnapshot` and `webreport` write nothing. `BLKRRPART` (its result is
ignored). The scripts and udev rules around the program.

## Plan

Every invariant and action property is both checked and proved. What is left is what
TLAPS has no rules for here, liveness and `ENABLED`, which stays with TLC; and the parts
listed above as not modelled, the bytes of the device tree first.

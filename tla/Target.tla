-------------------------------- MODULE Target --------------------------------
(***************************************************************************)
(* What ampart works on (src/cli.c, src/io.c): it takes the options of the *)
(* command line one by one, finds out from the size and the first bytes of *)
(* the target what it contains, looks for the whole disk if the target is  *)
(* one of its partitions, and reads the DTB and the EPT from where they    *)
(* should be.                                                              *)
(*                                                                         *)
(* Paths name files of the system, which does not change meanwhile.  A     *)
(* block device has a number, and if it is a partition, the kernel lists   *)
(* its name and number under its disk in /sys/block.                       *)
(***************************************************************************)
EXTENDS Integers, Sequences, FiniteSets

CONSTANTS
  Word,               \* size_t wraps here
  DtbSize,            \* DTB_PARTITION_SIZE, of one copy
  DataSize,           \* DTB_PARTITION_DATA_SIZE
  ReservedPartSize,   \* EPT_PARTITION_RESERVED_SIZE
  TableSize,          \* sizeof(struct ept_table)
  MagicSize,          \* the first bytes that are looked at
  OffsetReserved,     \* the default of --offset-reserved
  OffsetDtb,          \* the default of --offset-dtb
  Files,              \* path -> [file, size, head, name, dev]
  SysBlock,           \* disk -> its partitions in /sys/block: name -> dev
  CommandLines        \* [opts, path]; options [name, short, arg]

ASSUME TargetAssumption ==
  /\ Word \in Nat \ {0} /\ DtbSize \in Nat /\ DataSize \in Nat /\ ReservedPartSize \in Nat
  /\ TableSize \in Nat /\ MagicSize \in Nat \ {0} /\ OffsetReserved \in Nat /\ OffsetDtb \in Nat
  /\ 0 < DataSize /\ DataSize < DtbSize /\ TableSize < OffsetDtb
  /\ OffsetReserved + OffsetDtb + 2 * DtbSize <= ReservedPartSize
  /\ \A p \in DOMAIN Files :
       /\ Files[p].file \in {"block", "regular", "other", "absent"}
       /\ Files[p].size \in 0 .. Word - 1
       /\ Files[p].head \in {"zero", "ept", "dtb", "gzip", "else"}
  /\ \A c \in CommandLines : c.path \in DOMAIN Files \union {"none"} /\ Len(c.opts) \in Nat
  /\ DOMAIN SysBlock \subseteq DOMAIN Files

VARIABLES
  cmd,            \* the command line
  at,             \* options taken
  options,        \* cli_options
  unread,         \* the disks that are still to come from readdir
  pc, ret,
  reading         \* what is being read: [offset, amount]

vars == <<cmd, at, options, unread, pc, ret, reading>>

Quit(code) ==
  /\ pc' = "exit" /\ ret' = code
  /\ UNCHANGED <<cmd, at, unread, reading>>

Nothing == [offset |-> 0, amount |-> 0]

Init ==
  /\ cmd \in CommandLines /\ at = 0
  /\ options = [mode |-> "", content |-> "auto", strict |-> FALSE, dry_run |-> FALSE,
                offset_reserved |-> OffsetReserved, offset_dtb |-> OffsetDtb,
                target |-> "none", size |-> 0, rereadpart |-> TRUE]
  /\ unread = {} /\ pc = "options" /\ ret = 0 /\ reading = Nothing

(***************************************************************************)
(* Options                                                                 *)
(***************************************************************************)
Modes == {"", "dtoe", "etod", "epedantic", "dedit", "eedit", "dsnapshot", "esnapshot",
          "webreport", "dclone", "eclone", "ecreate"}
Contents == {"auto", "dtb", "reserved", "disk"}
Migrates == {"essential", "none", "all"}

(* The short forms of two options are not among those getopt is given.     *)
Recognised(o) == ~(o.short /\ o.name \in {"migrate", "strict-device"})

LegalForm(o) == Recognised(o)   \* mutant: any mode and content is taken

Legal(o) ==
  /\ Recognised(o)
  /\ o.name = "mode" => o.arg \in Modes
  /\ o.name = "content" => o.arg \in Contents
  /\ o.name = "migrate" => o.arg \in Migrates

With(o) ==
  CASE o.name = "mode"            -> [options EXCEPT !.mode = o.arg]
    [] o.name = "content"         -> [options EXCEPT !.content = o.arg]
    [] o.name = "strict-device"   -> [options EXCEPT !.strict = TRUE]
    [] o.name = "dry-run"         -> [options EXCEPT !.dry_run = TRUE]
    [] o.name = "offset-reserved" -> [options EXCEPT !.offset_reserved = o.arg]
    [] o.name = "offset-dtb"      -> [options EXCEPT !.offset_dtb = o.arg]
    [] OTHER                      -> options       \* --migrate, --gap-...

Refusal(o) ==
  CASE o.name = "mode"    -> 1
    [] o.name = "content" -> 2
    [] OTHER              -> 3

(* One round of cli_parse_options; wherever the target is written, getopt  *)
(* gives the options first.                                                *)
TakeOption ==
  /\ pc = "options" /\ at < Len(cmd.opts)
  /\ LET o == cmd.opts[at + 1]
     IN CASE o.name \in {"help", "version"} -> Quit(0) /\ UNCHANGED options
          [] o.name \notin {"help", "version"} /\ ~Legal(o) ->
               Quit(Refusal(o)) /\ UNCHANGED options
          [] OTHER -> /\ options' = With(o) /\ at' = at + 1
                      /\ UNCHANGED <<cmd, unread, pc, ret, reading>>

(* cli_complete_options, up to the target                                  *)
TakeTarget ==
  /\ pc = "options" /\ at = Len(cmd.opts)
  /\ IF cmd.path = "none"
       THEN Quit(14) /\ UNCHANGED options
       ELSE /\ options' = [options EXCEPT !.target = cmd.path]
            /\ pc' = "identify"
            /\ UNCHANGED <<cmd, at, unread, ret, reading>>

(***************************************************************************)
(* Identification                                                          *)
(***************************************************************************)
file == Files[options.target]

(* io_identify_target_type_get_basic_stat                                  *)
StatSize(f) == IF f.file \in {"block", "regular"} THEN f.size ELSE 0

BySizeLoose(size) ==            \* mutant: more than a DTB means a disk
  IF size > DtbSize THEN "disk" ELSE "dtb"

(* io_identify_target_type_guess_content_from_size                         *)
BySize(size) ==
  CASE size > ReservedPartSize -> "disk"
    [] size = ReservedPartSize -> "reserved"
    [] size > DtbSize /\ size < ReservedPartSize -> "unsupported"
    [] OTHER -> "dtb"

(* io_identify_target_type_guess_content_by_read, of the first bytes       *)
ByRead(f) ==
  CASE StatSize(f) < MagicSize \/ f.head = "else" -> "unsupported"
    [] StatSize(f) >= MagicSize /\ f.head = "zero" -> "disk"
    [] StatSize(f) >= MagicSize /\ f.head = "ept" -> "reserved"
    [] OTHER -> "dtb"

GuessedBySize(f) ==             \* mutant: the size counts more than the header
  IF BySize(StatSize(f)) = "unsupported" THEN ByRead(f) ELSE BySize(StatSize(f))

(* io_identify_target_type_guess_content                                   *)
Guessed(f) == IF ByRead(f) = "unsupported" THEN BySize(StatSize(f)) ELSE ByRead(f)

Content(guess) == IF options.content = "auto" THEN guess ELSE options.content

(* Is the target a partition?  If not told, its own content decides.       *)
IsPartition(guess) ==
  file.file = "block" /\ (IF options.content = "auto" THEN guess ELSE options.content) # "disk"

(* io_identify_target_type and cli_options_complete_target_info            *)
Identify ==
  /\ pc = "identify"
  /\ LET guess == Guessed(file)
         known == options.content # "auto" \/ guess # "unsupported"
         lookup == IsPartition(guess) /\ ~options.strict
     IN \/ /\ file.file = "absent" \/ ~known
           /\ Quit(13) /\ UNCHANGED options
        \/ /\ file.file # "absent" /\ known
           /\ options' = [options EXCEPT !.size = StatSize(file), !.content = Content(guess),
                            !.rereadpart = file.file = "block" /\ Content(guess) = "disk"]
           /\ unread' = IF lookup THEN DOMAIN SysBlock ELSE {}
           /\ pc' = IF lookup THEN "lookup" ELSE "seek_dtb"
           /\ UNCHANGED <<cmd, at, ret, reading>>

(* The text of a device number, and what the kernel gives for it in sysfs  *)
Text(dev) == << dev >>
SysText(dev) == << dev, "newline" >>

(* One round of io_find_disk, the disks coming in any order: it gives up   *)
(* at a disk that has no partition of this name.                           *)
LookInto(disk) ==
  /\ pc = "lookup" /\ disk \in unread
  /\ IF file.name \notin DOMAIN SysBlock[disk]
       THEN Quit(13) /\ UNCHANGED options
       ELSE /\ unread' = unread \ {disk}
            /\ IF Text(file.dev) = SysText(SysBlock[disk][file.name])
                 THEN /\ options' = [options EXCEPT !.target = disk, !.content = "disk",
                                                    !.rereadpart = TRUE]
                      /\ pc' = "seek_dtb"
                 ELSE UNCHANGED <<options, pc>>
            /\ UNCHANGED <<cmd, at, ret, reading>>

NoMoreDisks ==
  /\ pc = "lookup" /\ unread = {}
  /\ Quit(13) /\ UNCHANGED options

(***************************************************************************)
(* Reading                                                                 *)
(***************************************************************************)
(* io_seek_dtb, io_seek_ept                                                *)
DtbOffset ==
  CASE options.content = "dtb"      -> 0
    [] options.content = "reserved" -> options.offset_dtb
    [] options.content = "disk"     -> options.offset_reserved + options.offset_dtb

EptOffset == IF options.content = "disk" THEN options.offset_reserved ELSE 0

(* What remains of the target, in unsigned arithmetic                      *)
Remaining(offset) == (options.size - offset) % Word

Smaller(m, n) == IF m < n THEN m ELSE n

Whole == options.content # "dtb"        \* the DTB has two copies and a checksum

(* cli_read, dtb_read_into_buffer_helper: both copies, or all of a file.   *)
SeekDtb ==
  /\ pc = "seek_dtb"
  /\ LET remaining == Remaining(DtbOffset)
     IN IF Whole /\ 2 * DtbSize > remaining
          THEN pc' = "seek_ept" /\ UNCHANGED reading
          ELSE /\ reading' = [offset |-> DtbOffset,
                              amount |-> IF Whole THEN 2 * DtbSize
                                         ELSE Smaller(remaining, DataSize)]
               /\ pc' = "dtb"
  /\ UNCHANGED <<cmd, at, options, unread, ret>>

SeekEpt ==
  /\ pc = "seek_ept"
  /\ IF Whole /\ Remaining(EptOffset) >= TableSize
       THEN reading' = [offset |-> EptOffset, amount |-> TableSize] /\ pc' = "ept"
       ELSE pc' = "dispatch" /\ UNCHANGED reading
  /\ UNCHANGED <<cmd, at, options, unread, ret>>

Within == reading.offset + reading.amount <= file.size

(* io_read_till_finish: past the end of the target it never finishes (see  *)
(* Transfers); it may fail.  cli_read goes on in both cases.               *)
EndRead ==
  /\ pc \in {"dtb", "ept"} /\ Within
  /\ pc' = IF pc = "dtb" THEN "seek_ept" ELSE "dispatch"
  /\ UNCHANGED <<cmd, at, options, unread, ret, reading>>

FailRead ==
  /\ pc \in {"dtb", "ept"}
  /\ pc' = IF pc = "dtb" THEN "seek_ept" ELSE "dispatch"
  /\ UNCHANGED <<cmd, at, options, unread, ret, reading>>

(* cli_dispatcher; what the modes do is the subject of Modes.              *)
Dispatch ==
  /\ pc = "dispatch"
  /\ Quit(IF options.mode = "" THEN 29 ELSE 0)
  /\ UNCHANGED options

Next ==
  \/ TakeOption \/ TakeTarget \/ Identify
  \/ (\E disk \in unread : LookInto(disk)) \/ NoMoreDisks
  \/ SeekDtb \/ SeekEpt \/ EndRead \/ FailRead \/ Dispatch

Spec == Init /\ [][Next]_vars

(***************************************************************************)
(* Properties                                                              *)
(***************************************************************************)
Steps == {"options", "identify", "lookup", "seek_dtb", "dtb", "seek_ept", "ept", "dispatch", "exit"}

TypeOK ==
  /\ at \in 0 .. Len(cmd.opts)
  /\ pc \in Steps /\ ret \in Nat
  /\ options.mode \in Modes /\ options.content \in Contents
  /\ options.strict \in BOOLEAN /\ options.dry_run \in BOOLEAN /\ options.rereadpart \in BOOLEAN
  /\ options.target \in DOMAIN Files \union {"none"} /\ options.size \in 0 .. Word - 1
  /\ unread \subseteq DOMAIN SysBlock
  /\ pc \in {"seek_dtb", "dtb", "seek_ept", "ept", "dispatch"} => options.content # "auto"
  /\ pc \notin {"options", "exit"} => options.target # "none"

Operating == pc \in {"seek_dtb", "dtb", "seek_ept", "ept", "dispatch"}

Given(name) == {i \in 1 .. at : cmd.opts[i].name = name}

(* Whatever its size, a target that begins with the EPT is not taken for a *)
(* disk or a DTB, and one that begins with a DTB not for a disk or a       *)
(* reserved partition, unless --content forces it; and the content that    *)
(* the last --content forces is what the target is worked on as.           *)
ContentTrue ==
  (Operating /\ options.target = cmd.path) =>
    LET last == CHOOSE i \in Given("content") : \A j \in Given("content") : j <= i
    IN IF Given("content") # {} /\ cmd.opts[last].arg # "auto"
         THEN options.content = cmd.opts[last].arg
         ELSE StatSize(file) >= MagicSize =>
                /\ file.head = "ept" => options.content = "reserved"
                /\ file.head \in {"dtb", "gzip"} => options.content = "dtb"

ReadsWithin == pc \in {"dtb", "ept"} => Within

(* A target whose content is told from its size alone has all that is then *)
(* read from it, at the default offsets.                                   *)
BySizeFits ==
  (Given("content") = {} /\ Given("offset-reserved") = {} /\ Given("offset-dtb") = {}
     /\ Operating /\ options.target = cmd.path /\ ByRead(file) = "unsupported") => ReadsWithin

(***************************************************************************)
(* What the documentation and the messages say and the code does not do    *)
(***************************************************************************)
(* "If not set, and target is, e.g. /dev/reserved, ampart will find its    *)
(* underlying disk /dev/mmcblk0 and operate on that instead"               *)
(* (doc/command-line-interface.md:70): with a disk that has the partition  *)
(* in /sys/block, the lookup does not fail.                                *)
FindsDisk ==
  [][(pc = "lookup" /\ \E d \in DOMAIN SysBlock :
        file.name \in DOMAIN SysBlock[d] /\ SysBlock[d][file.name] = file.dev) =>
       pc' # "exit"]_vars

(* "remaning data size smaller than minimum required for DTB checksum"     *)
(* (src/src/dtb.c:410): what is read is there to be read.                  *)
EnoughToRead == ReadsWithin
==============================================================================

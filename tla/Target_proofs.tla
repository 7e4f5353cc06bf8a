---------------------------- MODULE Target_proofs ----------------------------
(***************************************************************************)
(* For every command line and every set of files and devices: the types of *)
(* Target, that a target is taken for what it begins with or is forced to  *)
(* be, that what is read from one known by its size lies in it, and that   *)
(* no target is ever replaced by the disk it is a part of.                 *)
(***************************************************************************)
EXTENDS Target, TLAPS

Fields == {"mode", "content", "strict", "dry_run", "offset_reserved", "offset_dtb",
           "target", "size", "rereadpart"}

(* What the options taken so far force the content to be                   *)
Last == CHOOSE i \in Given("content") : \A j \in Given("content") : j <= i
Forced == IF Given("content") = {} THEN "auto" ELSE cmd.opts[Last].arg

(* Each option has left its mark in cli_options, and nothing else has.     *)
Told ==
  /\ DOMAIN options = Fields
  /\ at \in Nat /\ cmd \in CommandLines
  /\ Given("offset-reserved") = {} => options.offset_reserved = OffsetReserved
  /\ Given("offset-dtb") = {} => options.offset_dtb = OffsetDtb
  /\ pc \in {"options", "identify"} => options.content = Forced
  /\ pc = "options" => options.target = "none"
  /\ pc \notin {"options", "exit"} => options.target = cmd.path

(* From the identification on, size and content are those it found.        *)
Known ==
  (Operating \/ pc = "lookup") =>
    /\ file.file # "absent" /\ options.size = StatSize(file)
    /\ options.content = IF Forced = "auto" THEN Guessed(file) ELSE Forced

(* What is being read is what the content says there is.                   *)
Placed ==
  /\ pc = "dtb" => /\ reading.offset = DtbOffset
                   /\ reading.amount = IF Whole THEN 2 * DtbSize
                                       ELSE Smaller(Remaining(DtbOffset), DataSize)
  /\ pc = "ept" => Whole /\ reading = [offset |-> EptOffset, amount |-> TableSize]

IInv == TypeOK /\ Told /\ Known /\ Placed

(* The number in /sys/block is followed by a newline.                      *)
LEMMA NeverSame == \A x, y : Text(x) # SysText(y)
  BY DEF Text, SysText

LEMMA SizeType == \A p \in DOMAIN Files : StatSize(Files[p]) \in 0 .. Word - 1
  BY TargetAssumption DEF StatSize

(* The first state, with the defaults of cli_options.                      *)
LEMMA InitInv == Init => IInv
<1> SUFFICES ASSUME Init PROVE IInv
  OBVIOUS
<1>1. at = 0 /\ pc = "options" /\ \A name : Given(name) = {}
  <2>1. at = 0 /\ pc = "options"
    BY DEF Init
  <2>2. 1 .. 0 = {}
    OBVIOUS
  <2> QED BY <2>1, <2>2 DEF Given
<1>2. DOMAIN options = Fields
  BY DEF Init, Fields
<1>3. Forced = "auto"
  BY <1>1 DEF Forced
<1>4. TypeOK
  <2>1. Word - 1 \in Nat
    BY TargetAssumption
  <2>2. 0 \in 0 .. Len(cmd.opts)
    <3>1. Len(cmd.opts) \in Nat
      BY TargetAssumption DEF Init
    <3> QED BY <3>1
  <2>3. options.mode = "" /\ options.content = "auto" /\ options.strict = FALSE
        /\ options.dry_run = FALSE /\ options.rereadpart = TRUE
        /\ options.target = "none" /\ options.size = 0
    BY DEF Init
  <2>4. unread = {} /\ ret = 0
    BY DEF Init
  <2>5. "" \in Modes /\ "auto" \in Contents /\ "options" \in Steps
    BY DEF Modes, Contents, Steps
  <2>6. 0 \in 0 .. Word - 1
    BY <2>1
  <2> QED BY <1>1, <2>2, <2>3, <2>4, <2>5, <2>6 DEF TypeOK
<1>5. Told
  <2>1. /\ options.content = "auto" /\ options.strict = FALSE /\ options.target = "none"
        /\ options.offset_reserved = OffsetReserved /\ options.offset_dtb = OffsetDtb
        /\ cmd \in CommandLines
    BY DEF Init
  <2> QED BY <1>1, <1>2, <1>3, <2>1 DEF Told
<1>6. Known /\ Placed
  BY <1>1 DEF Known, Placed, Operating
<1> QED BY <1>4, <1>5, <1>6 DEF IInv

(* Taking an option leaves its mark and those of the options before it.    *)
LEMMA GivenNext ==
  ASSUME at \in Nat, at' = at + 1, cmd' = cmd, NEW name
  PROVE  Given(name)' = IF cmd.opts[at + 1].name = name
                          THEN Given(name) \union {at + 1} ELSE Given(name)
<1>1. 1 .. at' = (1 .. at) \union {at + 1}
  OBVIOUS
<1> QED BY <1>1 DEF Given

LEMMA GivenSame == ASSUME UNCHANGED <<at, cmd>>, NEW name PROVE Given(name)' = Given(name)
  BY DEF Given

LEMMA ForcedSame == ASSUME UNCHANGED <<at, cmd>> PROVE Forced' = Forced
<1>1. Given("content")' = Given("content")
  BY GivenSame
<1>2. Last' = Last
  BY <1>1 DEF Last
<1> QED BY <1>1, <1>2 DEF Forced

(* The last --content is the one that forces.                              *)
LEMMA ForcedNext ==
  ASSUME at \in Nat, at' = at + 1, cmd' = cmd
  PROVE  Forced' = IF cmd.opts[at + 1].name = "content" THEN cmd.opts[at + 1].arg ELSE Forced
<1> DEFINE G == Given("content")
<1>1. CASE cmd.opts[at + 1].name = "content"
  <2>1. G' = G \union {at + 1}
    BY <1>1, GivenNext
  <2>2. \A j \in G : j \in Nat /\ j <= at
    BY DEF Given
  <2>3. Last' = CHOOSE i \in G' : \A j \in G' : j <= i
    BY DEF Last
  <2>4. at + 1 \in G' /\ \A j \in G' : j \in Nat /\ j <= at + 1
    BY <2>1, <2>2
  <2> HIDE DEF G
  <2>5. Last' \in G' /\ \A j \in G' : j <= Last'
    BY <2>3, <2>4
  <2>6. Last' = at + 1
    BY <2>4, <2>5
  <2> QED BY <1>1, <2>1, <2>6 DEF Forced, G
<1>2. CASE cmd.opts[at + 1].name # "content"
  <2>1. G' = G
    BY <1>2, GivenNext
  <2>2. Last' = Last
    BY <2>1 DEF Last
  <2> QED BY <1>2, <2>1, <2>2 DEF Forced
<1> QED BY <1>1, <1>2

(* A command that gives up has nothing left to be right about.             *)
LEMMA QuitStep == ASSUME IInv, NEW code \in Nat, Quit(code), UNCHANGED options PROVE IInv'
<1> USE DEF Quit
<1>1. pc' = "exit" /\ ret' = code /\ UNCHANGED <<at, cmd, unread, options>>
  OBVIOUS
<1>2. \A name : Given(name)' = Given(name)
  BY GivenSame
<1>3. TypeOK'
  BY <1>1 DEF IInv, TypeOK, Steps
<1>4. Told'
  BY <1>1, <1>2 DEF IInv, Told
<1>5. Known' /\ Placed'
  BY <1>1 DEF Known, Placed, Operating
<1> QED BY <1>3, <1>4, <1>5 DEF IInv

(* An option changes its own field of cli_options.                         *)
LEMMA WithFacts ==
  ASSUME DOMAIN options = Fields, NEW o
  PROVE  /\ DOMAIN With(o) = Fields
         /\ With(o).mode = IF o.name = "mode" THEN o.arg ELSE options.mode
         /\ With(o).content = IF o.name = "content" THEN o.arg ELSE options.content
         /\ With(o).strict = IF o.name = "strict-device" THEN TRUE ELSE options.strict
         /\ With(o).dry_run = IF o.name = "dry-run" THEN TRUE ELSE options.dry_run
         /\ With(o).offset_reserved =
              IF o.name = "offset-reserved" THEN o.arg ELSE options.offset_reserved
         /\ With(o).offset_dtb = IF o.name = "offset-dtb" THEN o.arg ELSE options.offset_dtb
         /\ With(o).target = options.target
         /\ With(o).size = options.size
         /\ With(o).rereadpart = options.rereadpart
<1> USE DEF Fields
<1>1. CASE o.name = "mode" BY <1>1 DEF With
<1>2. CASE o.name = "content" BY <1>2 DEF With
<1>3. CASE o.name = "strict-device" BY <1>3 DEF With
<1>4. CASE o.name = "dry-run" BY <1>4 DEF With
<1>5. CASE o.name = "offset-reserved" BY <1>5 DEF With
<1>6. CASE o.name = "offset-dtb" BY <1>6 DEF With
<1>7. CASE o.name \notin {"mode", "content", "strict-device", "dry-run", "offset-reserved", "offset-dtb"}
  <2>1. With(o) = options
    BY <1>7 DEF With
  <2> QED BY <1>7, <2>1
<1> QED BY <1>1, <1>2, <1>3, <1>4, <1>5, <1>6, <1>7

LEMMA TakeOptionStep == ASSUME IInv, TakeOption PROVE IInv'
<1> DEFINE o == cmd.opts[at + 1]
<1>1. CASE o.name \in {"help", "version"}
  <2>1. Quit(0) /\ UNCHANGED options
    BY <1>1 DEF TakeOption
  <2> QED BY <2>1, QuitStep
<1>2. CASE o.name \notin {"help", "version"} /\ ~Legal(o)
  <2>1. Quit(Refusal(o)) /\ UNCHANGED options
    BY <1>2 DEF TakeOption
  <2>2. Refusal(o) \in Nat
    BY DEF Refusal
  <2> QED BY <2>1, <2>2, QuitStep
<1>3. CASE o.name \notin {"help", "version"} /\ Legal(o)
  <2>1. /\ options' = With(o) /\ at' = at + 1 /\ UNCHANGED <<cmd, unread, pc, ret, reading>>
        /\ pc = "options" /\ at < Len(cmd.opts)
    BY <1>3 DEF TakeOption
  <2>2. at \in Nat /\ Len(cmd.opts) \in Nat /\ cmd \in CommandLines /\ DOMAIN options = Fields
    BY TargetAssumption DEF IInv, Told
  <2> DEFINE w == With(o)
  <2>3. /\ DOMAIN w = Fields
        /\ w.mode = IF o.name = "mode" THEN o.arg ELSE options.mode
        /\ w.content = IF o.name = "content" THEN o.arg ELSE options.content
        /\ w.strict = IF o.name = "strict-device" THEN TRUE ELSE options.strict
        /\ w.dry_run = IF o.name = "dry-run" THEN TRUE ELSE options.dry_run
        /\ w.offset_reserved =
             IF o.name = "offset-reserved" THEN o.arg ELSE options.offset_reserved
        /\ w.offset_dtb = IF o.name = "offset-dtb" THEN o.arg ELSE options.offset_dtb
        /\ w.target = options.target /\ w.size = options.size
        /\ w.rereadpart = options.rereadpart
    BY <2>2, WithFacts
  <2>4. options' = w
    BY <2>1
  <2>5. /\ o.name = "mode" => o.arg \in Modes
        /\ o.name = "content" => o.arg \in Contents
    BY <1>3 DEF Legal
  <2>6. \A name : Given(name)' = IF o.name = name THEN Given(name) \union {at + 1} ELSE Given(name)
    BY <2>1, <2>2, GivenNext
  <2>7. Forced' = IF o.name = "content" THEN o.arg ELSE Forced
    BY <2>1, <2>2, ForcedNext
  <2> HIDE DEF o, w
  <2>8. TypeOK'
    <3>1. at' \in 0 .. Len(cmd'.opts)
      BY <2>1, <2>2
    <3>2. /\ options'.mode \in Modes /\ options'.content \in Contents
          /\ options'.size \in 0 .. Word - 1
          /\ options'.target \in DOMAIN Files \union {"none"}
      BY <2>3, <2>4, <2>5 DEF IInv, TypeOK
    <3>3. options'.strict \in BOOLEAN /\ options'.dry_run \in BOOLEAN /\ options'.rereadpart \in BOOLEAN
      BY <2>3, <2>4 DEF IInv, TypeOK
    <3>4. pc' = "options" /\ pc' \in Steps /\ ret' \in Nat /\ unread' \subseteq DOMAIN SysBlock
      BY <2>1 DEF IInv, TypeOK
    <3> QED BY <3>1, <3>2, <3>3, <3>4 DEF TypeOK
  <2>9. Told'
    <3>1. DOMAIN options' = Fields /\ at' \in Nat /\ cmd' \in CommandLines
      BY <2>1, <2>2, <2>3, <2>4
    <3>2. /\ Given("offset-reserved")' = {} => options'.offset_reserved = OffsetReserved
          /\ Given("offset-dtb")' = {} => options'.offset_dtb = OffsetDtb
      BY <2>3, <2>4, <2>6 DEF IInv, Told
    <3>3. options'.content = Forced' /\ options'.target = "none"
      BY <2>1, <2>3, <2>4, <2>7 DEF IInv, Told
    <3> QED BY <2>1, <3>1, <3>2, <3>3 DEF Told
  <2>10. Known' /\ Placed'
    BY <2>1 DEF Known, Placed, Operating
  <2> QED BY <2>8, <2>9, <2>10 DEF IInv
<1> QED BY <1>1, <1>2, <1>3

LEMMA TakeTargetStep == ASSUME IInv, TakeTarget PROVE IInv'
<1>1. CASE cmd.path = "none"
  <2>1. Quit(14) /\ UNCHANGED options
    BY <1>1 DEF TakeTarget
  <2> QED BY <2>1, QuitStep
<1>2. CASE cmd.path # "none"
  <2>1. /\ options' = [options EXCEPT !.target = cmd.path] /\ pc = "options" /\ pc' = "identify"
        /\ UNCHANGED <<cmd, at, unread, ret, reading>>
    BY <1>2 DEF TakeTarget
  <2>2. DOMAIN options = Fields
    BY DEF IInv, Told
  <2>3. /\ DOMAIN options' = Fields /\ options'.target = cmd.path
        /\ UNCHANGED <<options.mode, options.content, options.strict, options.dry_run, options.size,
                       options.offset_reserved, options.offset_dtb, options.rereadpart>>
    BY <2>1, <2>2 DEF Fields
  <2>4. \A name : Given(name)' = Given(name)
    BY <2>1, GivenSame
  <2>5. Forced' = Forced
    BY <2>1, ForcedSame
  <2>6. cmd.path \in DOMAIN Files
    BY <1>2, TargetAssumption DEF IInv, Told
  <2>7. TypeOK'
    BY <1>2, <2>1, <2>3, <2>6 DEF IInv, TypeOK, Steps
  <2>8. Told'
    BY <2>1, <2>3, <2>4, <2>5 DEF IInv, Told
  <2>9. Known' /\ Placed'
    BY <2>1 DEF Known, Placed, Operating
  <2> QED BY <2>7, <2>8, <2>9 DEF IInv
<1> QED BY <1>1, <1>2

(* What the guess can be; a guess of the size is one of three.             *)
LEMMA GuessType == ASSUME NEW f PROVE Guessed(f) \in {"disk", "reserved", "dtb", "unsupported"}
<1>1. ByRead(f) \in {"disk", "reserved", "dtb", "unsupported"}
  BY DEF ByRead
<1>2. BySize(StatSize(f)) \in {"disk", "reserved", "dtb", "unsupported"}
  BY DEF BySize
<1> QED BY <1>1, <1>2 DEF Guessed

LEMMA IdentifyStep == ASSUME IInv, Identify PROVE IInv'
<1> DEFINE guess == Guessed(file)
           known == options.content # "auto" \/ guess # "unsupported"
           lookup == IsPartition(guess) /\ ~options.strict
<1>1. CASE file.file = "absent" \/ ~known
  <2>1. Quit(13) /\ UNCHANGED options
    BY <1>1 DEF Identify
  <2> QED BY <2>1, QuitStep
<1>2. CASE file.file # "absent" /\ known
  <2>1. /\ options' = [options EXCEPT !.size = StatSize(file), !.content = Content(guess),
                          !.rereadpart = file.file = "block" /\ Content(guess) = "disk"]
        /\ unread' = IF lookup THEN DOMAIN SysBlock ELSE {}
        /\ pc' = IF lookup THEN "lookup" ELSE "seek_dtb"
        /\ UNCHANGED <<cmd, at, ret, reading>> /\ pc = "identify"
    BY <1>2 DEF Identify
  <2>2. /\ DOMAIN options = Fields /\ options.content = Forced /\ options.target = cmd.path
        /\ options.target \in DOMAIN Files /\ options.content \in Contents
    BY <2>1 DEF IInv, Told, TypeOK
  <2>3. /\ DOMAIN options' = Fields
        /\ UNCHANGED <<options.mode, options.strict, options.dry_run, options.target,
                       options.offset_reserved, options.offset_dtb>>
        /\ options'.size = StatSize(file) /\ options'.content = Content(guess)
        /\ options'.rereadpart \in BOOLEAN
    BY <2>1, <2>2 DEF Fields
  <2>4. file' = file /\ file = Files[options.target]
    BY <2>3 DEF file
  <2>5. StatSize(file) \in 0 .. Word - 1
    BY <2>2, <2>4, SizeType
  <2>6. Content(guess) = IF Forced = "auto" THEN guess ELSE Forced
    BY <2>2 DEF Content
  <2>7. Content(guess) \in Contents /\ Content(guess) # "auto"
    <3>1. guess \in {"disk", "reserved", "dtb", "unsupported"}
      BY GuessType
    <3> HIDE DEF guess
    <3> QED BY <1>2, <2>2, <3>1 DEF Content, Contents
  <2>8. \A name : Given(name)' = Given(name)
    BY <2>1, GivenSame
  <2>9. Forced' = Forced
    BY <2>1, ForcedSame
  <2> HIDE DEF guess, known, lookup
  <2>10. pc' \in {"lookup", "seek_dtb"} /\ unread' \subseteq DOMAIN SysBlock
    BY <2>1
  <2>11. TypeOK'
    BY <2>1, <2>2, <2>3, <2>5, <2>7, <2>10 DEF IInv, TypeOK, Steps
  <2>12. Told'
    BY <2>1, <2>2, <2>3, <2>8, <2>9, <2>10 DEF IInv, Told
  <2>13. Known'
    BY <1>2, <2>3, <2>4, <2>6, <2>9 DEF Known, guess
  <2>14. Placed'
    BY <2>10 DEF Placed
  <2> QED BY <2>11, <2>12, <2>13, <2>14 DEF IInv
<1> QED BY <1>1, <1>2

(* A disk never matches, so a lookup goes on or gives up.                  *)
LEMMA LookIntoStep == ASSUME IInv, NEW disk, LookInto(disk) PROVE IInv'
<1>1. CASE file.name \notin DOMAIN SysBlock[disk]
  <2>1. Quit(13) /\ UNCHANGED options
    BY <1>1 DEF LookInto
  <2> QED BY <2>1, QuitStep
<1>2. CASE file.name \in DOMAIN SysBlock[disk]
  <2>1. /\ unread' = unread \ {disk} /\ UNCHANGED <<options, pc, cmd, at, ret, reading>>
        /\ pc = "lookup"
    BY <1>2, NeverSame DEF LookInto
  <2>2. (\A name : Given(name)' = Given(name)) /\ Forced' = Forced /\ file' = file
    BY <2>1, GivenSame, ForcedSame DEF file
  <2>3. TypeOK'
    BY <2>1 DEF IInv, TypeOK
  <2>4. Told'
    BY <2>1, <2>2 DEF IInv, Told
  <2>5. Known'
    BY <2>1, <2>2 DEF IInv, Known, Operating
  <2>6. Placed'
    BY <2>1 DEF Placed
  <2> QED BY <2>3, <2>4, <2>5, <2>6 DEF IInv
<1> QED BY <1>1, <1>2

(* Seeking, reading and the failures of both leave cli_options alone.      *)
LEMMA SeekOrReadStep ==
  ASSUME IInv, UNCHANGED <<cmd, at, options, unread, ret>>, Operating,
         pc' \in {"dtb", "seek_ept", "ept", "dispatch"}, Placed'
  PROVE  IInv'
<1>1. (\A name : Given(name)' = Given(name)) /\ Forced' = Forced /\ file' = file
  BY GivenSame, ForcedSame DEF file
<1>2. pc \in {"seek_dtb", "dtb", "seek_ept", "ept", "dispatch"}
  BY DEF Operating
<1>3. TypeOK'
  BY <1>2 DEF IInv, TypeOK, Steps
<1>4. Told'
  BY <1>1, <1>2 DEF IInv, Told
<1>5. Known'
  BY <1>1 DEF IInv, Known
<1> QED BY <1>3, <1>4, <1>5 DEF IInv

LEMMA SeekDtbStep == ASSUME IInv, SeekDtb PROVE IInv'
<1>1. UNCHANGED <<cmd, at, options, unread, ret>> /\ pc' \in {"dtb", "seek_ept"} /\ Operating
  BY DEF SeekDtb, Operating
<1>2. CASE pc' = "dtb"
  <2>1. reading' = [offset |-> DtbOffset, amount |-> IF Whole THEN 2 * DtbSize
                                               ELSE Smaller(Remaining(DtbOffset), DataSize)]
    BY <1>2 DEF SeekDtb
  <2>2. DtbOffset' = DtbOffset /\ Whole' = Whole /\ Remaining(DtbOffset)' = Remaining(DtbOffset)
    BY <1>1 DEF DtbOffset, Whole, Remaining
  <2>3. Placed'
    BY <1>2, <2>1, <2>2 DEF Placed, Smaller
  <2> QED BY <1>1, <2>3, SeekOrReadStep
<1>3. CASE pc' = "seek_ept"
  BY <1>1, <1>3, SeekOrReadStep DEF Placed
<1> QED BY <1>1, <1>2, <1>3

LEMMA SeekEptStep == ASSUME IInv, SeekEpt PROVE IInv'
<1>1. UNCHANGED <<cmd, at, options, unread, ret>> /\ pc' \in {"ept", "dispatch"} /\ Operating
  BY DEF SeekEpt, Operating
<1>2. CASE pc' = "ept"
  <2>1. Whole /\ reading' = [offset |-> EptOffset, amount |-> TableSize]
    BY <1>2 DEF SeekEpt
  <2>2. EptOffset' = EptOffset /\ Whole' = Whole
    BY <1>1 DEF EptOffset, Whole
  <2>3. Placed'
    BY <1>2, <2>1, <2>2 DEF Placed
  <2> QED BY <1>1, <2>3, SeekOrReadStep
<1>3. CASE pc' = "dispatch"
  BY <1>1, <1>3, SeekOrReadStep DEF Placed
<1> QED BY <1>1, <1>2, <1>3

LEMMA ReadStep == ASSUME IInv, EndRead \/ FailRead PROVE IInv'
<1>1. /\ UNCHANGED <<cmd, at, options, unread, ret>> /\ Operating
      /\ pc' \in {"seek_ept", "dispatch"}
  BY DEF EndRead, FailRead, Operating
<1>2. Placed'
  BY <1>1 DEF Placed
<1> QED BY <1>1, <1>2, SeekOrReadStep

LEMMA StutterStep == ASSUME IInv, UNCHANGED vars PROVE IInv'
<1>1. UNCHANGED <<cmd, at, options, unread, pc, ret, reading>>
  BY DEF vars
<1>2. (\A name : Given(name)' = Given(name)) /\ Forced' = Forced /\ file' = file
  BY <1>1, GivenSame, ForcedSame DEF file
<1>3. TypeOK'
  BY <1>1, <1>2 DEF IInv, TypeOK, Operating
<1>4. Told' /\ Known'
  BY <1>1, <1>2 DEF IInv, Told, Known, Operating
<1>5. Placed'
  BY <1>1 DEF IInv, Placed, DtbOffset, EptOffset, Whole, Remaining
<1> QED BY <1>3, <1>4, <1>5 DEF IInv

(* IInv is kept by each step, and so holds throughout.                     *)
LEMMA Invariance == Spec => []IInv
<1>1. IInv /\ [Next]_vars => IInv'
  <2> SUFFICES ASSUME IInv, [Next]_vars PROVE IInv'
    OBVIOUS
  <2>1. CASE TakeOption BY <2>1, TakeOptionStep
  <2>2. CASE TakeTarget BY <2>2, TakeTargetStep
  <2>3. CASE Identify BY <2>3, IdentifyStep
  <2>4. ASSUME NEW disk \in unread, LookInto(disk) PROVE IInv'
    BY <2>4, LookIntoStep
  <2>5. CASE NoMoreDisks
    <3>1. Quit(13) /\ UNCHANGED options
      BY <2>5 DEF NoMoreDisks
    <3> QED BY <3>1, QuitStep
  <2>6. CASE SeekDtb BY <2>6, SeekDtbStep
  <2>7. CASE SeekEpt BY <2>7, SeekEptStep
  <2>8. CASE EndRead \/ FailRead BY <2>8, ReadStep
  <2>9. CASE Dispatch
    <3>1. Quit(IF options.mode = "" THEN 29 ELSE 0) /\ UNCHANGED options
      BY <2>9 DEF Dispatch
    <3>2. (IF options.mode = "" THEN 29 ELSE 0) \in Nat
      OBVIOUS
    <3> QED BY <3>1, <3>2, QuitStep
  <2>10. CASE UNCHANGED vars BY <2>10, StutterStep
  <2> QED BY <2>1, <2>2, <2>3, <2>4, <2>5, <2>6, <2>7, <2>8, <2>9, <2>10 DEF Next
<1> QED BY <1>1, InitInv, PTL DEF Spec

(* The fields of cli_options keep their types, for any command line.       *)
THEOREM TypeCorrect == Spec => []TypeOK
<1>1. IInv => TypeOK BY DEF IInv
<1> QED BY <1>1, Invariance, PTL

(* The last --content decides, and without it the bytes the target begins  *)
(* with, before its size.                                                  *)
THEOREM ContentRight == Spec => []ContentTrue
<1>1. IInv => ContentTrue
  <2> SUFFICES ASSUME IInv, Operating PROVE ContentTrue
    BY DEF ContentTrue
  <2>1. options.content = IF Forced = "auto" THEN Guessed(file) ELSE Forced
    BY DEF IInv, Known
  <2>2. CASE Given("content") # {} /\ cmd.opts[Last].arg # "auto"
    <3>1. options.content = cmd.opts[Last].arg
      BY <2>1, <2>2 DEF Forced
    <3> QED BY <2>2, <3>1 DEF ContentTrue, Last
  <2>3. CASE ~(Given("content") # {} /\ cmd.opts[Last].arg # "auto")
    <3>1. options.content = Guessed(file)
      BY <2>1, <2>3 DEF Forced
    <3>2. ASSUME StatSize(file) >= MagicSize PROVE ~(StatSize(file) < MagicSize)
      <4>1. StatSize(file) \in Nat
        BY SizeType DEF IInv, TypeOK, Told, Operating, file
      <4> QED BY <3>2, <4>1, TargetAssumption
    <3>3. ASSUME StatSize(file) >= MagicSize, file.head = "ept" PROVE Guessed(file) = "reserved"
      BY <3>2, <3>3 DEF Guessed, ByRead
    <3>4. ASSUME StatSize(file) >= MagicSize, file.head \in {"dtb", "gzip"}
          PROVE  Guessed(file) = "dtb"
      BY <3>2, <3>4 DEF Guessed, ByRead
    <3> QED BY <2>3, <3>1, <3>3, <3>4 DEF ContentTrue, Last
  <2> QED BY <2>2, <2>3
<1> QED BY <1>1, Invariance, PTL

(* At the default offsets, all that is read from a target known by its     *)
(* size alone lies in it: the limits of the guess fit the reads.           *)
THEOREM SizeSuffices == Spec => []BySizeFits
<1>1. IInv => BySizeFits
  <2> SUFFICES ASSUME IInv, Given("content") = {}, Given("offset-reserved") = {},
                      Given("offset-dtb") = {}, Operating, ByRead(file) = "unsupported",
                      pc \in {"dtb", "ept"}
               PROVE  Within
    BY DEF BySizeFits, ReadsWithin
  <2>1. /\ options.content = BySize(StatSize(file)) /\ options.size = StatSize(file)
        /\ options.offset_reserved = OffsetReserved /\ options.offset_dtb = OffsetDtb
    BY DEF IInv, Known, Told, Forced, Guessed
  <2>2. /\ options.target \in DOMAIN Files /\ options.content \in {"dtb", "reserved", "disk"}
        /\ options.size \in 0 .. Word - 1
    BY DEF IInv, TypeOK, Contents
  <2>3. file.size \in Nat /\ options.size <= file.size
    BY <2>1, <2>2, TargetAssumption DEF StatSize, file
  <2>4. /\ Word \in Nat /\ DtbSize \in Nat /\ DataSize \in Nat /\ ReservedPartSize \in Nat
        /\ TableSize \in Nat /\ OffsetReserved \in Nat /\ OffsetDtb \in Nat
        /\ DataSize < DtbSize /\ TableSize < OffsetDtb
        /\ OffsetReserved + OffsetDtb + 2 * DtbSize <= ReservedPartSize
    BY TargetAssumption
  <2>5. ASSUME Whole PROVE options.size >= ReservedPartSize
    <3>1. options.content = "reserved" \/ options.content = "disk"
      BY <2>2, <2>5 DEF Whole
    <3> QED BY <2>1, <2>2, <2>4, <3>1 DEF BySize
  <2>6. CASE pc = "dtb" /\ Whole
    <3>1. reading.offset <= OffsetReserved + OffsetDtb /\ reading.offset \in Nat
          /\ reading.amount = 2 * DtbSize
      BY <2>1, <2>2, <2>4, <2>6 DEF IInv, Placed, DtbOffset, Whole
    <3> QED BY <2>2, <2>3, <2>4, <2>5, <2>6, <3>1 DEF Within
  <2>7. CASE pc = "dtb" /\ ~Whole
    <3>1. reading.offset = 0 /\ reading.amount = Smaller(Remaining(0), DataSize)
      BY <2>7 DEF IInv, Placed, DtbOffset, Whole
    <3>2. Remaining(0) = options.size
      BY <2>2, <2>4 DEF Remaining
    <3>3. reading.amount \in Nat /\ reading.amount <= options.size
      BY <2>2, <2>4, <3>1, <3>2 DEF Smaller
    <3> QED BY <2>2, <2>3, <3>1, <3>3 DEF Within
  <2>8. CASE pc = "ept"
    <3>1. Whole /\ reading.offset \in {0, OffsetReserved} /\ reading.amount = TableSize
      BY <2>1, <2>8 DEF IInv, Placed, EptOffset
    <3> QED BY <2>2, <2>3, <2>4, <2>5, <3>1 DEF Within
  <2> QED BY <2>6, <2>7, <2>8
<1> QED BY <1>1, Invariance, PTL

(* On no system is a partition ever replaced by its disk: what is worked   *)
(* on is what the command line names.                                      *)
THEOREM TargetNeverReplaced == Spec => [](Operating => options.target = cmd.path)
<1>1. IInv => (Operating => options.target = cmd.path)
  BY DEF IInv, Told, Operating
<1> QED BY <1>1, Invariance, PTL
==============================================================================

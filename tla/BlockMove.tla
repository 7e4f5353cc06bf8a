------------------------------ MODULE BlockMove ------------------------------
(***************************************************************************)
(* What a migration promises, whatever buffers it uses: every planned      *)
(* block is delivered to its target with the content it had when the       *)
(* migration STARTED, as if the whole disk had been read into memory       *)
(* first.  A migration that stops early (I/O error, power loss) has        *)
(* delivered some of the blocks, and damaged at most the one destination   *)
(* it was writing.                                                         *)
(*                                                                         *)
(* doc/migration.md speaks of reading each block into a buffer of its own; *)
(* Migrate is the program, which has two buffers.                          *)
(***************************************************************************)
CONSTANTS
  Block,     \* block identifiers
  Value      \* what a block of the disk can hold

VARIABLES
  disk,      \* Block -> Value
  origin,    \* the disk as the migration found it
  target,    \* Block -> Block, meaningful on the planned blocks only
  todo,      \* the planned blocks not delivered yet
  status     \* "running", "done" or "stopped"

vars == <<disk, origin, target, todo, status>>

Init ==
  /\ disk \in [Block -> Value]
  /\ origin = disk
  /\ target \in [Block -> Block]
  /\ todo \in SUBSET Block
  /\ status = "running"

Deliver(b) ==
  /\ status = "running"
  /\ b \in todo
  /\ disk' = [disk EXCEPT ![target[b]] = origin[b]]
  /\ todo' = todo \ {b}
  /\ UNCHANGED <<origin, target, status>>

Finish ==
  /\ status = "running"
  /\ todo = {}
  /\ status' = "done"
  /\ UNCHANGED <<disk, origin, target, todo>>

Stop ==
  /\ status = "running"
  /\ status' = "stopped"
  /\ \/ UNCHANGED disk
     \/ \E b \in todo, v \in Value : disk' = [disk EXCEPT ![target[b]] = v]
  /\ UNCHANGED <<origin, target, todo>>

Next == (\E b \in Block : Deliver(b)) \/ Finish \/ Stop

Spec == Init /\ [][Next]_vars
==============================================================================

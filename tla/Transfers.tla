------------------------------ MODULE Transfers ------------------------------
(***************************************************************************)
(* io_read_till_finish and io_write_till_finish (src/io.c): read() and     *)
(* write() may transfer less than they are asked for, and fail for now     *)
(* (EAGAIN, EINTR) or for good; the loops call them until all is done.     *)
(*                                                                         *)
(* Unit i of the source holds i, a unit of the destination that nothing    *)
(* was transferred to holds 0.  The file has `length' units from where the *)
(* transfer begins: a read finds no more (and returns 0), a write finds no *)
(* room for more (and fails).  The kernel is external; it keeps the offset *)
(* of the file, the loops the place in the buffer and the size left.       *)
(***************************************************************************)
EXTENDS Integers

CONSTANTS MaxSize, MaxLength      \* bounds on the transfers

ASSUME TransfersAssumption == MaxSize \in Nat /\ MaxLength \in Nat

VARIABLES
  kind,       \* "read", "write"
  size,       \* units to transfer
  length,     \* units the file has, or has room for
  pos,        \* offset of the file
  at,         \* how far `buffer' was advanced
  left,       \* `size' in the loop
  dest,       \* what the destination holds: the buffer, or the file
  r,          \* what the last call returned, -1 for an error
  pc          \* "call", "again", "advance", "done", "failed"

fixed == <<kind, size, length>>
vars == <<fixed, pos, at, left, dest, r, pc>>

DestSize == IF kind = "read" THEN size ELSE length

Init ==
  /\ kind \in {"read", "write"} /\ size \in 0 .. MaxSize /\ length \in 0 .. MaxLength
  /\ pos = 0 /\ at = 0 /\ left = size /\ r = 0
  /\ dest = [k \in 1 .. DestSize |-> 0]
  /\ pc = IF size = 0 THEN "done" ELSE "call"

(***************************************************************************)
(* The kernel                                                              *)
(***************************************************************************)
(* n units, at least one and not all of them if it pleases                 *)
Deliver(n) ==
  /\ pc = "call" /\ n <= left /\ pos + n <= length
  /\ dest' = [k \in DOMAIN dest |->
                IF kind = "read"
                  THEN IF k \in at + 1 .. at + n THEN pos + (k - at) ELSE dest[k]
                  ELSE IF k \in pos + 1 .. pos + n THEN at + (k - pos) ELSE dest[k]]
  /\ pos' = pos + n /\ r' = n /\ pc' = "advance"
  /\ UNCHANGED <<fixed, at, left>>

EndOfFile ==
  /\ pc = "call" /\ kind = "read" /\ pos >= length
  /\ r' = 0 /\ pc' = "advance"
  /\ UNCHANGED <<fixed, pos, at, left, dest>>

Interrupt ==
  /\ pc = "call"
  /\ r' = -1 /\ pc' = "again"
  /\ UNCHANGED <<fixed, pos, at, left, dest>>

(* An I/O error, or no room.                                               *)
Fail ==
  /\ pc = "call"
  /\ r' = -1 /\ pc' = "failed"
  /\ UNCHANGED <<fixed, pos, at, left, dest>>

Answer == Fail \/ \E n \in 1 .. left : Deliver(n)

(***************************************************************************)
(* The loops                                                               *)
(***************************************************************************)
NotReissued == "again"            \* mutant: errno is tested again, nothing is called
Reissued == "call"

(* io_can_retry                                                            *)
Again ==
  /\ pc = "again" /\ pc' = Reissued
  /\ UNCHANGED <<fixed, pos, at, left, dest, r>>

LeftShort == left - r - 1         \* mutant: counts one too many
LeftAfter == left - r

AtKept == at                      \* mutant: the buffer is not advanced
AtAfter == at + r

FinishedShort == TRUE             \* mutant: one call is enough
Finished == left - r = 0

Advance ==
  /\ pc = "advance"
  /\ left' = LeftAfter /\ at' = AtAfter
  /\ pc' = IF Finished THEN "done" ELSE "call"
  /\ UNCHANGED <<fixed, pos, dest, r>>

Next == (\E n \in 1 .. left : Deliver(n)) \/ EndOfFile \/ Interrupt \/ Fail \/ Again \/ Advance

(* ampart opens its files for blocking I/O and handles no signal, so calls *)
(* do not fail for now for ever: asked again and again, the kernel answers.*)
Fairness == WF_vars(Again) /\ WF_vars(Advance) /\ SF_vars(Answer)

Spec == Init /\ [][Next]_vars /\ Fairness

(***************************************************************************)
(* Properties                                                              *)
(***************************************************************************)
TypeOK ==
  /\ kind \in {"read", "write"} /\ size \in Nat /\ length \in Nat
  /\ pos \in Nat /\ at \in Nat /\ left \in Nat /\ r \in Nat \union {-1}
  /\ dest \in [1 .. DestSize -> Nat]
  /\ pc \in {"call", "again", "advance", "done", "failed"}

(* A transfer that succeeds transferred every unit to its place, however   *)
(* the kernel cut it up and whatever interrupted it; in particular none    *)
(* succeeds when the file has less than was asked for.                     *)
CompleteOrError ==
  pc = "done" => /\ size <= length
                 /\ \A k \in 1 .. size : dest[k] = k

(* At every moment, hence also when it failed or the process was killed,   *)
(* a beginning of the destination is new and the rest is as it was: this   *)
(* is what Modes and EptWrite take a write cut short to leave behind.      *)
PrefixOnly ==
  \E n \in 0 .. size : \A k \in 1 .. DestSize : dest[k] = IF k <= n THEN k ELSE 0

(* The loops end, if there is enough to read.                              *)
Ends == (kind = "write" \/ size <= length) ~> pc \in {"done", "failed"}
==============================================================================

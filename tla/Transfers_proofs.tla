-------------------------- MODULE Transfers_proofs --------------------------
(***************************************************************************)
(* For transfers and files of every size: the types of Transfers, that a   *)
(* transfer that succeeds is complete, and that one that does not has      *)
(* written a beginning of the destination and nothing else.                *)
(***************************************************************************)
EXTENDS Transfers, TLAPS

(* The place in the buffer and the offset of the file are the same, but    *)
(* for what the last call transferred and the loop has yet to count; that  *)
(* much of the destination is new.                                         *)
Position ==
  /\ pos = IF pc = "advance" THEN at + r ELSE at
  /\ at + left = size
  /\ pc = "advance" => r \in 0 .. left
  /\ pos <= size /\ pos <= length

Moved == \A k \in 1 .. DestSize : dest[k] = IF k <= pos THEN k ELSE 0

Ended == pc = "done" => left = 0

IInv == TypeOK /\ Position /\ Moved /\ Ended

(* Nothing has been transferred in the beginning.                          *)
LEMMA InitInv == Init => IInv
  BY TransfersAssumption DEF Init, IInv, TypeOK, Position, Moved, Ended, DestSize

(* The steps of the kernel and of the loops keep IInv; only Deliver        *)
(* changes the destination, only Advance the place in the buffer.          *)
LEMMA NextInv == ASSUME IInv, [Next]_vars PROVE IInv'
<1> USE DEF IInv, TypeOK, Position, Ended, fixed
<1>1. ASSUME NEW n \in 1 .. left, Deliver(n) PROVE IInv'
  <2> USE <1>1
  <2>1. UNCHANGED <<kind, size, length, at, left>> /\ DestSize' = DestSize
    BY DEF Deliver, DestSize
  <2>2. pos' = pos + n /\ r' = n /\ pc' = "advance" /\ pos = at /\ pos + n <= length
    BY DEF Deliver
  <2>3. n \in Nat /\ pos \in Nat /\ left \in Nat /\ size \in Nat /\ length \in Nat
    OBVIOUS
  <2>4. Position'
    BY <2>1, <2>2, <2>3
  <2>5. dest' = [k \in 1 .. DestSize |-> IF k \in pos + 1 .. pos + n THEN k ELSE dest[k]]
    <3>1. dest \in [1 .. DestSize -> Nat] /\ DOMAIN dest = 1 .. DestSize
      OBVIOUS
    <3>2. \A k \in 1 .. DestSize : k \in Int
      OBVIOUS
    <3>3. ASSUME NEW k \in 1 .. DestSize PROVE at + (k - pos) = k /\ pos + (k - at) = k
      BY <2>2, <2>3
    <3> QED BY <2>2, <3>1, <3>2, <3>3 DEF Deliver
  <2>6. Moved'
    <3> SUFFICES ASSUME NEW k \in 1 .. DestSize
                 PROVE  dest'[k] = IF k <= pos + n THEN k ELSE 0
      BY <2>1, <2>2 DEF Moved
    <3>1. k \in Nat /\ dest[k] = IF k <= pos THEN k ELSE 0
      BY <2>3 DEF Moved, DestSize
    <3>2. dest'[k] = IF k \in pos + 1 .. pos + n THEN k ELSE dest[k]
      BY <2>5
    <3> QED BY <3>1, <3>2, <2>3
  <2>7. dest' \in [1 .. DestSize -> Nat]
    <3>1. \A k \in 1 .. DestSize : k \in Nat /\ dest[k] \in Nat
      BY <2>3 DEF DestSize
    <3> QED BY <2>5, <3>1
  <2>8. TypeOK'
    BY <2>1, <2>2, <2>3, <2>7
  <2> QED BY <2>2, <2>4, <2>6, <2>8
<1>2. ASSUME EndOfFile PROVE IInv'
  <2>1. /\ UNCHANGED <<kind, size, length, pos, at, left, dest>> /\ DestSize' = DestSize
        /\ pc = "call" /\ pc' = "advance" /\ r' = 0
    BY <1>2 DEF EndOfFile, DestSize
  <2>2. Moved'
    BY <2>1 DEF Moved
  <2> QED BY <2>1, <2>2
<1>3. ASSUME Interrupt \/ Fail \/ Again PROVE IInv'
  <2>1. /\ UNCHANGED <<kind, size, length, pos, at, left, dest>> /\ DestSize' = DestSize
        /\ pc # "advance" /\ pc' \in {"call", "again", "failed"} /\ r' \in {r, -1}
    BY <1>3 DEF Interrupt, Fail, Again, Reissued, DestSize
  <2>2. Moved'
    BY <2>1 DEF Moved
  <2> QED BY <2>1, <2>2
<1>4. ASSUME Advance PROVE IInv'
  <2>1. UNCHANGED <<kind, size, length, pos, dest, r>> /\ DestSize' = DestSize
    BY <1>4 DEF Advance, DestSize
  <2>2. pc = "advance" /\ left' = left - r /\ at' = at + r
        /\ pc' = IF left - r = 0 THEN "done" ELSE "call"
    BY <1>4 DEF Advance, LeftAfter, AtAfter, Finished
  <2>3. Moved'
    BY <2>1 DEF Moved
  <2> QED BY <2>1, <2>2, <2>3
<1>5. CASE UNCHANGED vars
  BY <1>5 DEF vars, Moved, DestSize
<1> QED BY <1>1, <1>2, <1>3, <1>4, <1>5 DEF Next

(* IInv holds throughout.                                                  *)
LEMMA Invariance == Spec => []IInv
<1>1. Init => IInv BY InitInv
<1>2. IInv /\ [Next]_vars => IInv' BY NextInv
<1> QED BY <1>1, <1>2, PTL DEF Spec

(* Sizes, offsets and contents stay of their types, for any file.          *)
THEOREM Types == Spec => []TypeOK
<1>1. IInv => TypeOK BY DEF IInv
<1> QED BY <1>1, Invariance, PTL

(* io_read_till_finish and io_write_till_finish return 0 only when every   *)
(* unit is in its place, however the kernel cuts the transfer up.          *)
THEOREM Complete == Spec => []CompleteOrError
<1>1. IInv => CompleteOrError
  <2> SUFFICES ASSUME IInv, pc = "done" PROVE size <= length /\ \A k \in 1 .. size : dest[k] = k
    BY DEF CompleteOrError
  <2>1. pos = size /\ size \in Nat /\ length \in Nat /\ size <= length
    BY DEF IInv, TypeOK, Position, Ended
  <2>2. \A k \in 1 .. size : k \in 1 .. DestSize /\ k <= pos
    BY <2>1 DEF DestSize
  <2> QED BY <2>1, <2>2 DEF IInv, Moved
<1> QED BY <1>1, Invariance, PTL

(* What a transfer leaves behind wherever it stops is a beginning of what  *)
(* it was to transfer.                                                     *)
THEOREM Prefix == Spec => []PrefixOnly
<1>1. IInv => PrefixOnly
  <2> SUFFICES ASSUME IInv PROVE PrefixOnly
    OBVIOUS
  <2>1. pos \in 0 .. size
    BY DEF IInv, TypeOK, Position
  <2>2. \A k \in 1 .. DestSize : dest[k] = IF k <= pos THEN k ELSE 0
    BY DEF IInv, Moved
  <2> QED BY <2>1, <2>2 DEF PrefixOnly
<1> QED BY <1>1, Invariance, PTL
==============================================================================

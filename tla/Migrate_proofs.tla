---------------------------- MODULE Migrate_proofs ----------------------------
(***************************************************************************)
(* For every disk size, every content and every plan: the types of         *)
(* Migrate, what a finished or interrupted migration leaves on the disk,   *)
(* the bound on the recursion, and the refinement of BlockMove.            *)
(***************************************************************************)
EXTENDS Migrate, FiniteSetTheorems, TLAPS

(* What the two buffers and the disk hold between them: every block still  *)
(* to be delivered is intact on the disk, in buffer_main or in buffer_sub. *)
Buffers ==
  /\ pc = "scan" => depth = 0
  /\ pc = "enter" => msource \in pending
  /\ pc = "write" => /\ msource \in planned /\ msource \notin pending
                     /\ target[msource] # msource
  /\ (status = "running" /\ pc # "scan") => main = origin[msource]
  /\ (status = "running" /\ pc = "write" /\ target[msource] \in pending)
        => sub = origin[target[msource]]

SourcesIntact ==
  \A b \in pending :
     \/ disk[b] = origin[b]
     \/ pc = "enter" /\ b = msource
     \/ status # "running" /\ pc = "write" /\ b = target[msource]

DeliveredIntact ==
  Injective => \A b \in planned \ todo : disk[target[b]] = origin[b]

UntouchedIntact == \A b \in Untouched : disk[b] = origin[b]

(* The scan has left no pending entry behind it.                           *)
Scanned ==
  /\ \A b \in pending : b >= i
  /\ pc = "enter" => (i \in pending => msource = i)
  /\ pc = "write" => i \notin pending
  /\ pc # "scan" => i < Count
  /\ status = "done" => pc = "scan" /\ i = Count

IInv == TypeOK /\ Buffers /\ SourcesIntact /\ DeliveredIntact /\ UntouchedIntact /\ Scanned

(* The entry of io_migrate, with every entry of the plan still pending,     *)
(* satisfies the strengthened invariant.                                   *)
LEMMA InitInv == Init => IInv
  BY CountAssumption DEF Init, Started, IInv, TypeOK, Buffers, SourcesIntact,
     DeliveredIntact, UntouchedIntact, Scanned, Untouched, todo, Block, Value

(* What the provers need of the block ids: the integers from 0 to Count-1. *)
LEMMA BlockFacts ==
  /\ Count \in Nat /\ 0 < Count
  /\ \A b : b \in Block <=> b \in Int /\ 0 <= b /\ b < Count
BY CountAssumption DEF Block

(* A torn block and a block of the original disk are both disk contents.   *)
LEMMA ValueFacts == Torn \in Value /\ Content \subseteq Value
BY DEF Value

(* The types, with what Scanned says of the loop index.                    *)
LEMMA TypeStep == ASSUME TypeOK, Scanned, [Next]_vars PROVE TypeOK'
<1> USE BlockFacts, ValueFacts DEF TypeOK, plan, Running, Stops
<1>1. CASE SkipBlock BY <1>1 DEF SkipBlock
<1>2. CASE ReadMain BY <1>2 DEF ReadMain
<1>3. CASE Finish BY <1>3 DEF Finish
<1>4. CASE BadPlan BY <1>4 DEF BadPlan
<1>5. CASE Enter BY <1>5 DEF Enter
<1>6. CASE WriteLast BY <1>6 DEF WriteLast, Scanned
<1>7. CASE WriteAndRecurse BY <1>7 DEF WriteAndRecurse
<1>8. CASE ReadFails BY <1>8 DEF ReadFails
<1>9. ASSUME NEW how \in {"failed", "crashed"}, WriteStops(how) PROVE TypeOK'
  BY <1>9 DEF WriteStops
<1>10. CASE Crash BY <1>10 DEF Crash
<1>11. CASE UNCHANGED vars BY <1>11 DEF vars
<1>12. QED BY <1>1, <1>2, <1>3, <1>4, <1>5, <1>6, <1>7, <1>8, <1>9, <1>10,
              <1>11 DEF Next, Step

(* Every transfer, failure and power loss of io_migrate keeps the          *)
(* strengthened invariant: one step per action, one conjunct below it.     *)
LEMMA InvStep == ASSUME IInv, [Next]_vars PROVE IInv'
<1> DEFINE Rest == /\ Buffers /\ SourcesIntact /\ DeliveredIntact
                   /\ UntouchedIntact /\ Scanned
<1>0. TypeOK' BY TypeStep DEF IInv
<1> USE BlockFacts, ValueFacts DEF IInv, TypeOK, plan, Running, Stops
<1>1. CASE SkipBlock
  <2> USE <1>1 DEF SkipBlock
  <2>1. Buffers' BY DEF Buffers
  <2>2. SourcesIntact' BY DEF SourcesIntact
  <2>3. DeliveredIntact' BY DEF DeliveredIntact, Injective, todo
  <2>4. UntouchedIntact' BY DEF UntouchedIntact, Untouched
  <2>5. Scanned' BY DEF Scanned
  <2>6. QED BY <1>0, <2>1, <2>2, <2>3, <2>4, <2>5
<1>2. CASE ReadMain
  <2> USE <1>2 DEF ReadMain
  <2>1. Buffers' BY DEF Buffers, SourcesIntact
  <2>2. SourcesIntact' BY DEF SourcesIntact
  <2>3. DeliveredIntact' BY DEF DeliveredIntact, Injective, todo
  <2>4. UntouchedIntact' BY DEF UntouchedIntact, Untouched
  <2>5. Scanned' BY DEF Scanned
  <2>6. QED BY <1>0, <2>1, <2>2, <2>3, <2>4, <2>5
<1>3. CASE Finish
  <2> USE <1>3 DEF Finish
  <2>1. Buffers' BY DEF Buffers
  <2>2. SourcesIntact' BY DEF SourcesIntact
  <2>3. DeliveredIntact' BY DEF DeliveredIntact, Injective, todo
  <2>4. UntouchedIntact' BY DEF UntouchedIntact, Untouched
  <2>5. Scanned' BY DEF Scanned
  <2>6. QED BY <1>0, <2>1, <2>2, <2>3, <2>4, <2>5
<1>4. CASE BadPlan \/ Crash
  <2> USE <1>4 DEF BadPlan, Crash
  <2>1. Buffers' BY DEF Buffers
  <2>2. SourcesIntact' BY DEF SourcesIntact
  <2>3. DeliveredIntact' BY DEF DeliveredIntact, Injective, todo
  <2>4. UntouchedIntact' BY DEF UntouchedIntact, Untouched
  <2>5. Scanned' BY DEF Scanned
  <2>6. QED BY <1>0, <2>1, <2>2, <2>3, <2>4, <2>5
<1>5. CASE Enter
  <2> USE <1>5 DEF Enter
  <2>1. Buffers'
    <3>1. msource \in pending /\ msource \in planned BY DEF Buffers
    <3>2. ASSUME target[msource] \in pending
          PROVE  sub' = origin[target[msource]]
      BY <3>2 DEF SourcesIntact
    <3>3. QED BY <3>1, <3>2 DEF Buffers
  <2>2. SourcesIntact' BY DEF SourcesIntact
  <2>3. DeliveredIntact' BY DEF DeliveredIntact, Injective, todo
  <2>4. UntouchedIntact' BY DEF UntouchedIntact, Untouched
  <2>5. Scanned' BY DEF Scanned
  <2>6. QED BY <1>0, <2>1, <2>2, <2>3, <2>4, <2>5
<1>6. CASE WriteLast
  <2> USE <1>6 DEF WriteLast
  <2>1. Buffers' BY DEF Buffers
  <2>2. SourcesIntact' BY DEF SourcesIntact
  <2>3. DeliveredIntact' BY DEF DeliveredIntact, Injective, todo, Buffers
  <2>4. UntouchedIntact' BY DEF UntouchedIntact, Untouched, Buffers
  <2>5. Scanned' BY DEF Scanned
  <2>6. QED BY <1>0, <2>1, <2>2, <2>3, <2>4, <2>5
<1>7. CASE WriteAndRecurse
  <2> USE <1>7 DEF WriteAndRecurse
  <2>1. Buffers' BY DEF Buffers
  <2>2. SourcesIntact' BY DEF SourcesIntact
  <2>3. DeliveredIntact' BY DEF DeliveredIntact, Injective, todo, Buffers
  <2>4. UntouchedIntact' BY DEF UntouchedIntact, Untouched, Buffers
  <2>5. Scanned' BY DEF Scanned
  <2>6. QED BY <1>0, <2>1, <2>2, <2>3, <2>4, <2>5
<1>8. CASE ReadFails
  <2> USE <1>8 DEF ReadFails
  <2>1. Buffers' BY DEF Buffers
  <2>2. SourcesIntact' BY DEF SourcesIntact
  <2>3. DeliveredIntact' BY DEF DeliveredIntact, Injective, todo
  <2>4. UntouchedIntact' BY DEF UntouchedIntact, Untouched
  <2>5. Scanned' BY DEF Scanned
  <2>6. QED BY <1>0, <2>1, <2>2, <2>3, <2>4, <2>5
<1>9. ASSUME NEW how \in {"failed", "crashed"}, WriteStops(how) PROVE Rest'
  <2> USE <1>9 DEF WriteStops
  <2>1. Buffers' BY DEF Buffers
  <2>2. SourcesIntact' BY DEF SourcesIntact
  <2>3. DeliveredIntact' BY DEF DeliveredIntact, Injective, todo, Buffers
  <2>4. UntouchedIntact' BY DEF UntouchedIntact, Untouched, Buffers
  <2>5. Scanned' BY DEF Scanned
  <2>6. QED BY <1>0, <2>1, <2>2, <2>3, <2>4, <2>5
<1>10. CASE UNCHANGED vars
  <2> USE <1>10 DEF vars
  <2>1. Buffers' BY DEF Buffers
  <2>2. SourcesIntact' BY DEF SourcesIntact
  <2>3. DeliveredIntact' BY DEF DeliveredIntact, Injective, todo
  <2>4. UntouchedIntact' BY DEF UntouchedIntact, Untouched
  <2>5. Scanned' BY DEF Scanned
  <2>6. QED BY <1>0, <2>1, <2>2, <2>3, <2>4, <2>5
<1>11. QED BY <1>0, <1>1, <1>2, <1>3, <1>4, <1>5, <1>6, <1>7, <1>8, <1>9,
              <1>10 DEF Next, Step

(* The strengthened invariant holds in every reachable state.              *)
LEMMA Invariance == Spec => []IInv
<1>1. Init => IInv BY InitInv
<1>2. IInv /\ [Next]_vars => IInv' BY InvStep
<1>3. QED BY <1>1, <1>2, PTL DEF Spec

(* The types of Migrate, for every disk and plan.                          *)
THEOREM TypeCorrect == Spec => []TypeOK
<1>1. IInv => TypeOK BY DEF IInv
<1>2. QED BY <1>1, Invariance, PTL

(* A migration that has ended with 0 has no entry left, so that what the   *)
(* strengthened invariant says of those retired holds of all.              *)
LEMMA DoneMigrated == IInv => Migrated
<1> SUFFICES ASSUME IInv, status = "done", Injective
             PROVE  /\ \A b \in planned : disk[target[b]] = origin[b]
                    /\ \A b \in Untouched : disk[b] = origin[b]
  BY DEF Migrated
<1>1. pending = {} /\ todo = {}
  <2>1. pc = "scan" /\ i = Count BY DEF IInv, Scanned
  <2>2. \A b \in pending : b \in Block /\ b >= Count
    BY <2>1 DEF IInv, TypeOK, Scanned
  <2>3. pending = {} BY <2>2, BlockFacts
  <2>4. QED BY <2>1, <2>3 DEF todo
<1>2. QED BY <1>1 DEF IInv, DeliveredIntact, UntouchedIntact

(* io_migrate returning 0 has moved every planned block and kept every     *)
(* block that is no target, for every disk and every injective plan.       *)
THEOREM MigrationCorrect == Spec => []Migrated
  BY DoneMigrated, Invariance, PTL

(* Whenever the migration is stopped, the disk lacks at most the block in  *)
(* flight, and after a cut-short write the one it was overwriting.         *)
THEOREM LossBounded == Spec => []LossBound
<1>1. IInv => LossBound
  <2> SUFFICES ASSUME IInv, Injective, NEW b \in Lost PROVE b \in InFlight
    BY DEF LossBound
  <2>1. b \in planned /\ disk[b] # origin[b] /\ disk[target[b]] # origin[b]
    BY DEF Lost
  <2>2. b \in todo BY <2>1 DEF IInv, DeliveredIntact
  <2>3. CASE b \in pending
    BY <2>1, <2>3 DEF IInv, SourcesIntact, InFlight
  <2>4. CASE b \notin pending
    BY <2>2, <2>4 DEF todo, InFlight
  <2>5. QED BY <2>3, <2>4
<1>2. QED BY <1>1, Invariance, PTL

(* Each frame of the recursion has retired an entry of its own.            *)
FramesRetired ==
  depth + Cardinality(pending)
    <= Cardinality(planned) + (IF pc = "enter" THEN 1 ELSE 0)

(* The plan has finitely many entries, of which those pending are a part.  *)
LEMMA PlannedFinite ==
  ASSUME TypeOK
  PROVE  /\ IsFiniteSet(planned) /\ Cardinality(planned) \in Nat
         /\ IsFiniteSet(pending) /\ Cardinality(pending) \in Nat
         /\ Cardinality(pending) <= Cardinality(planned)
<1>1. IsFiniteSet(Block)
  BY FS_Interval, BlockFacts DEF Block
<1>2. IsFiniteSet(planned) BY <1>1, FS_Subset DEF TypeOK
<1>3. QED BY <1>2, FS_Subset, FS_CardinalityType DEF TypeOK

(* Entering io_migrate_recursive retires the entry of its source before    *)
(* the next frame can be opened, so the bound on the frames is inductive.  *)
LEMMA FramesStep ==
  ASSUME IInv, FramesRetired, [Next]_vars PROVE FramesRetired'
<1>1. TypeOK BY DEF IInv
<1>2. IsFiniteSet(pending) /\ Cardinality(pending) \in Nat
      /\ Cardinality(planned) \in Nat /\ depth \in Nat
      /\ Cardinality(pending) <= Cardinality(planned)
  BY <1>1, PlannedFinite DEF TypeOK
<1>3. msource \in pending => Cardinality(pending \ {msource}) = Cardinality(pending) - 1
  BY <1>2, FS_RemoveElement
<1> USE <1>2 DEF FramesRetired, plan, Running, Stops
<1>4. CASE Enter
  <2>1. msource \in pending BY <1>4 DEF IInv, Buffers, Enter
  <2>2. QED BY <1>3, <1>4, <2>1 DEF Enter
<1>5. CASE ReadFails
  <2>1. CASE pc = "scan" BY <1>5, <2>1 DEF ReadFails
  <2>2. CASE pc = "enter"
    <3>1. msource \in pending BY <2>2 DEF IInv, Buffers
    <3>2. /\ pending' = pending \ {msource} /\ pc' = "write"
          /\ depth' = depth /\ planned' = planned
      BY <1>5, <2>2 DEF ReadFails
    <3>3. QED BY <1>2, <1>3, <2>2, <3>1, <3>2 DEF FramesRetired
  <2>3. QED BY <1>5, <2>1, <2>2 DEF ReadFails
<1>6. CASE ReadMain BY <1>6 DEF ReadMain, IInv, Buffers
<1>7. CASE SkipBlock \/ Finish \/ BadPlan \/ Crash
  BY <1>7 DEF SkipBlock, Finish, BadPlan, Crash
<1>8. CASE WriteLast BY <1>8 DEF WriteLast
<1>9. CASE WriteAndRecurse BY <1>9 DEF WriteAndRecurse
<1>10. ASSUME NEW how, WriteStops(how) PROVE FramesRetired'
  BY <1>10 DEF WriteStops
<1>11. CASE UNCHANGED vars BY <1>11 DEF vars
<1>12. QED BY <1>4, <1>5, <1>6, <1>7, <1>8, <1>9, <1>10, <1>11 DEF Next, Step

(* The recursion never has more frames than the plan has entries, cycles   *)
(* included: it ends, and the stack it needs is bounded by the plan.       *)
THEOREM RecursionBounded == Spec => []DepthBounded
<1>1. Init => FramesRetired
  <2> SUFFICES ASSUME Init PROVE FramesRetired OBVIOUS
  <2>1. TypeOK BY InitInv DEF IInv
  <2>2. QED BY <2>1, PlannedFinite DEF FramesRetired, Init, Started
<1>2. IInv /\ FramesRetired /\ [Next]_vars => FramesRetired' BY FramesStep
<1>3. IInv /\ FramesRetired => DepthBounded
  <2> SUFFICES ASSUME IInv, FramesRetired PROVE DepthBounded OBVIOUS
  <2>1. TypeOK BY DEF IInv
  <2>2. QED BY <2>1, PlannedFinite DEF FramesRetired, DepthBounded, TypeOK
<1>4. QED BY <1>1, <1>2, <1>3, Invariance, PTL DEF Spec

(* Two buffers implement unlimited memory, for every disk and every plan.  *)
THEOREM Refinement == Spec => ImplementsPromise
<1>1. Init => Promise!Init
  BY InitInv DEF Init, Started, Promise!Init, IInv, TypeOK, todo, outcome
<1>2. ASSUME IInv, [Next]_vars PROVE [Promise!Next]_(Promise!vars)
  <2>1. /\ TypeOK
        /\ pc = "enter" => msource \in pending
        /\ pc = "write" => msource \notin pending
        /\ status = "running" /\ pc = "write" => main = origin[msource]
    BY <1>2 DEF IInv, Buffers
  <2> USE <2>1 DEF plan, Running, Stops
  <2>2. CASE SkipBlock \/ ReadMain \/ Enter \/ UNCHANGED vars
    <3>1. UNCHANGED <<disk, origin, target, status>>
      BY <2>2 DEF SkipBlock, ReadMain, Enter, vars
    <3>2. CASE SkipBlock \/ ReadMain \/ UNCHANGED vars
      BY <3>1, <3>2 DEF SkipBlock, ReadMain, vars, todo, outcome, Promise!vars
    <3>3. CASE Enter
      <4>1. todo = pending /\ todo' = (pending \ {msource}) \union {msource}
        BY <3>3 DEF Enter, todo
      <4>2. todo' = todo BY <3>3, <4>1 DEF Enter
      <4>3. QED BY <3>1, <4>2 DEF outcome, Promise!vars
    <3>4. QED BY <2>2, <3>2, <3>3
  <2>3. CASE Finish
    <3>1. \A b \in pending : b \in Block /\ b >= Count
      BY <1>2, <2>3 DEF Finish, IInv, Scanned, TypeOK
    <3>2. todo = {} /\ todo' = {} BY <2>3, <3>1, BlockFacts DEF Finish, todo
    <3>3. outcome = "running" /\ outcome' = "done" BY <2>3 DEF Finish, outcome
    <3>4. Promise!Finish BY <2>3, <3>2, <3>3 DEF Finish, Promise!Finish
    <3>5. QED BY <3>4 DEF Promise!Next
  <2>4. CASE BadPlan \/ Crash \/ ReadFails
    <3>1. outcome = "running" /\ outcome' = "stopped"
      BY <2>4 DEF BadPlan, Crash, ReadFails, outcome
    <3>2. todo' = todo
      <4>1. CASE BadPlan \/ Crash BY <4>1 DEF BadPlan, Crash, todo
      <4>2. CASE ReadFails
        <5>1. CASE pc = "scan" BY <4>2, <5>1 DEF ReadFails, todo
        <5>2. CASE pc = "enter"
          <6>1. todo = pending /\ todo' = (pending \ {msource}) \union {msource}
            BY <4>2, <5>2 DEF ReadFails, todo
          <6>2. QED BY <5>2, <6>1
        <5>3. QED BY <4>2, <5>1, <5>2 DEF ReadFails
      <4>3. QED BY <2>4, <4>1, <4>2
    <3>3. UNCHANGED <<disk, origin, target>> BY <2>4 DEF BadPlan, Crash, ReadFails
    <3>4. Promise!Stop BY <3>1, <3>2, <3>3 DEF Promise!Stop
    <3>5. QED BY <3>4 DEF Promise!Next
  <2>5. CASE WriteLast \/ WriteAndRecurse
    <3>1. msource \in todo /\ main = origin[msource] /\ msource \in Block
      BY <2>5 DEF WriteLast, WriteAndRecurse, todo, TypeOK
    <3>2. todo' = todo \ {msource}
      BY <2>5 DEF WriteLast, WriteAndRecurse, todo
    <3>3. outcome = "running" /\ outcome' = "running"
      BY <2>5 DEF WriteLast, WriteAndRecurse, outcome
    <3>4. Promise!Deliver(msource)
      BY <2>5, <3>1, <3>2, <3>3 DEF WriteLast, WriteAndRecurse, Promise!Deliver
    <3>5. QED BY <3>1, <3>4 DEF Promise!Next
  <2>6. ASSUME NEW how \in {"failed", "crashed"}, WriteStops(how)
        PROVE  Promise!Next
    <3>1. msource \in todo /\ todo' = todo BY <2>6 DEF WriteStops, todo
    <3>2. outcome = "running" /\ outcome' = "stopped"
      BY <2>6 DEF WriteStops, outcome
    <3>3. PICK v \in {disk[target[msource]], main, Torn} :
             disk' = [disk EXCEPT ![target[msource]] = v]
      BY <2>6 DEF WriteStops
    <3>4. v \in Value BY ValueFacts DEF TypeOK
    <3>5. Promise!Stop
      BY <2>6, <3>1, <3>2, <3>3, <3>4 DEF WriteStops, Promise!Stop
    <3>6. QED BY <3>5 DEF Promise!Next
  <2>7. QED BY <1>2, <2>2, <2>3, <2>4, <2>5, <2>6 DEF Next, Step
<1>3. QED BY <1>1, <1>2, Invariance, PTL DEF Spec, ImplementsPromise, Promise!Spec
==============================================================================

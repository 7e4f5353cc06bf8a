------------------------------- MODULE Migrate -------------------------------
(***************************************************************************)
(* io_migrate and io_migrate_recursive (src/io.c): move the blocks of a    *)
(* disk according to a plan of one entry per block, [target, pending].     *)
(* The outer loop scans the entries; a pending one is read into            *)
(* buffer_main and handed to the recursion, which saves the block it is    *)
(* about to overwrite into buffer_sub when that block is itself pending,   *)
(* writes, swaps the buffers and recurses into the overwritten block.      *)
(*                                                                         *)
(* One action is one stretch of code that ends in at most one transfer     *)
(* with the disk.  A transfer can fail, and the machine can lose power     *)
(* between transfers or inside a write; the writes are durable one by one, *)
(* cli_write_ept opens the disk with O_DSYNC.                              *)
(***************************************************************************)
EXTENDS Integers, FiniteSets

CONSTANTS
  Count,      \* mhelper->count, the number of entries
  Content,    \* what a block holds before the migration
  Torn        \* what an interrupted write may leave in a block

ASSUME CountAssumption == Count \in Nat \ {0}   \* io_migrate refuses count 0
ASSUME TornAssumption == Torn \notin Content

Block == 0 .. Count - 1
Value == Content \union {Torn}

VARIABLES
  disk,       \* Block -> Value
  target,     \* entries[b].target
  pending,    \* {b : entries[b].pending}
  main,       \* *buffer_main
  sub,        \* *buffer_sub
  msource,    \* the entry io_migrate_recursive works on
  i,          \* loop index of io_migrate
  depth,      \* live frames of io_migrate_recursive
  pc,         \* "scan", "enter" (recursion entered), "write"
  status,     \* "running", "done", "failed" (nonzero return), "crashed"
  origin,     \* history: the disk before the migration
  planned     \* history: the entries pending before the migration

plan == <<target, origin, planned>>
vars == <<disk, pending, main, sub, msource, i, depth, pc, status, plan>>

TypeOK ==
  /\ disk \in [Block -> Value]
  /\ target \in [Block -> Block]
  /\ pending \in SUBSET planned
  /\ planned \in SUBSET Block
  /\ main \in Value
  /\ sub \in Value
  /\ msource \in Block
  /\ i \in 0 .. Count
  /\ depth \in Nat
  /\ pc \in {"scan", "enter", "write"}
  /\ status \in {"running", "done", "failed", "crashed"}
  /\ origin \in [Block -> Content]

(* Nothing read or moved yet; the buffers start with no meaning.           *)
Started ==
  /\ origin = disk
  /\ pending = planned
  /\ main = Torn /\ sub = Torn
  /\ msource = 0 /\ i = 0 /\ depth = 0
  /\ pc = "scan"
  /\ status = "running"

(* The entries come from ept_migrate_plan: zeroed, then some made pending  *)
(* with a target below count.                                              *)
Init ==
  /\ disk \in [Block -> Content]
  /\ planned \in SUBSET Block
  /\ target \in {t \in [Block -> Block] : \A b \in Block \ planned : t[b] = 0}
  /\ Started

Running(where) == status = "running" /\ pc = where

Stops(how) == status' = how

(***************************************************************************)
(* The loop of io_migrate                                                  *)
(***************************************************************************)
SkipBlockPastEnd ==      \* mutant: the bound of the loop is forgotten
  /\ Running("scan")
  /\ i \notin pending
  /\ i' = i + 1
  /\ UNCHANGED <<disk, pending, main, sub, msource, depth, pc, status, plan>>

SkipBlock ==
  /\ Running("scan")
  /\ i < Count /\ i \notin pending
  /\ i' = i + 1
  /\ UNCHANGED <<disk, pending, main, sub, msource, depth, pc, status, plan>>

ReadMain ==
  /\ Running("scan")
  /\ i < Count /\ i \in pending
  /\ main' = disk[i]
  /\ msource' = i
  /\ depth' = 1
  /\ pc' = "enter"
  /\ UNCHANGED <<disk, pending, sub, i, status, plan>>

Finish ==
  /\ Running("scan")
  /\ i = Count
  /\ Stops("done")
  /\ UNCHANGED <<disk, pending, main, sub, msource, i, depth, pc, plan>>

(***************************************************************************)
(* One frame of io_migrate_recursive                                       *)
(***************************************************************************)
BadPlanContinues ==      \* mutant: back to the loop without advancing it
  /\ Running("enter")
  /\ target[msource] = msource
  /\ pc' = "scan"
  /\ depth' = 0
  /\ UNCHANGED <<disk, pending, main, sub, msource, i, status, plan>>

BadPlan ==     \* "bad plan! target = source"
  /\ Running("enter")
  /\ target[msource] = msource
  /\ Stops("failed")
  /\ UNCHANGED <<disk, pending, main, sub, msource, i, depth, pc, plan>>

EnterUnsaved ==          \* mutant: buffer_sub is not filled
  /\ Running("enter")
  /\ target[msource] # msource
  /\ pending' = pending \ {msource}
  /\ pc' = "write"
  /\ UNCHANGED <<disk, main, sub, msource, i, depth, status, plan>>

EnterStillPending ==     \* mutant: msource->pending is not cleared
  /\ Running("enter")
  /\ target[msource] # msource
  /\ sub' = IF target[msource] \in pending THEN disk[target[msource]] ELSE sub
  /\ pc' = "write"
  /\ UNCHANGED <<disk, pending, main, msource, i, depth, status, plan>>

Enter ==       \* clears msource->pending, saves the block it will overwrite
  /\ Running("enter")
  /\ target[msource] # msource
  /\ pending' = pending \ {msource}
  /\ sub' = IF target[msource] \in pending THEN disk[target[msource]] ELSE sub
  /\ pc' = "write"
  /\ UNCHANGED <<disk, main, msource, i, depth, status, plan>>

WriteLast ==   \* the target has no move of its own: every frame returns 0
  /\ Running("write")
  /\ target[msource] \notin pending
  /\ disk' = [disk EXCEPT ![target[msource]] = main]
  /\ i' = i + 1
  /\ depth' = 0
  /\ pc' = "scan"
  /\ UNCHANGED <<pending, main, sub, msource, status, plan>>

RecurseUnswapped ==      \* mutant: the buffers are not swapped
  /\ Running("write")
  /\ target[msource] \in pending
  /\ disk' = [disk EXCEPT ![target[msource]] = main]
  /\ msource' = target[msource]
  /\ depth' = depth + 1
  /\ pc' = "enter"
  /\ UNCHANGED <<pending, main, sub, i, status, plan>>

WriteAndRecurse ==
  /\ Running("write")
  /\ target[msource] \in pending
  /\ disk' = [disk EXCEPT ![target[msource]] = main]
  /\ main' = sub
  /\ sub' = main
  /\ msource' = target[msource]
  /\ depth' = depth + 1
  /\ pc' = "enter"
  /\ UNCHANGED <<pending, i, status, plan>>

(***************************************************************************)
(* Failures.  Every frame passes a failure on, so it ends the migration.   *)
(***************************************************************************)
ReadFails ==
  /\ \/ /\ Running("scan")
        /\ i < Count /\ i \in pending
        /\ UNCHANGED <<pending, pc>>
     \/ /\ Running("enter")
        /\ target[msource] # msource /\ target[msource] \in pending
        /\ pending' = pending \ {msource}
        /\ pc' = "write"
  /\ Stops("failed")
  /\ UNCHANGED <<disk, main, sub, msource, i, depth, plan>>

WriteStops(how) ==   \* the target holds its old content, the new one, or a mix
  /\ Running("write")
  /\ \E v \in {disk[target[msource]], main, Torn} :
       disk' = [disk EXCEPT ![target[msource]] = v]
  /\ Stops(how)
  /\ UNCHANGED <<pending, main, sub, msource, i, depth, pc, plan>>

Crash ==
  /\ status = "running"
  /\ Stops("crashed")
  /\ UNCHANGED <<disk, pending, main, sub, msource, i, depth, pc, plan>>

Step == SkipBlock \/ ReadMain \/ Finish \/ BadPlan \/ Enter \/ WriteLast \/ WriteAndRecurse

Next == Step \/ ReadFails \/ WriteStops("failed") \/ WriteStops("crashed") \/ Crash

Spec == Init /\ [][Next]_vars

(* The program is one thread that no lock or peer can hold up: while its   *)
(* transfers return, it takes its next step.                               *)
FairSpec == Spec /\ WF_vars(Step)

(***************************************************************************)
(* Properties                                                              *)
(***************************************************************************)
todo == pending \union (IF pc = "write" THEN {msource} ELSE {})

outcome == CASE status = "running" -> "running"
             [] status = "done"    -> "done"
             [] OTHER              -> "stopped"

Promise == INSTANCE BlockMove WITH status <- outcome

(* Two buffers do what unlimited memory would: for ANY plan, also one with *)
(* cycles or with two sources for a target, each block written is written  *)
(* with the content its source had before the migration, and a migration   *)
(* that stops damages nothing but the destination it was writing.          *)
ImplementsPromise == Promise!Spec

Injective == \A a, b \in planned : target[a] = target[b] => a = b

(* The block a plan leaves alone: neither moved nor overwritten.           *)
Untouched == {b \in Block : \A a \in planned : target[a] # b}

(* io_migrate returned 0: every planned block is at its target and the     *)
(* blocks that are no target hold what they held.                          *)
Migrated ==
  (status = "done" /\ Injective) =>
     /\ \A b \in planned : disk[target[b]] = origin[b]
     /\ \A b \in Untouched : disk[b] = origin[b]

(* At any instant, and so after a failure or a power loss at any instant,  *)
(* at most the block in flight is missing from the disk; a write that was  *)
(* cut short can also cost the block it was overwriting.                   *)
Lost == {b \in planned : disk[b] # origin[b] /\ disk[target[b]] # origin[b]}

InFlight ==
  CASE pc = "scan" -> {}
    [] pc = "write" /\ status # "running" -> {msource, target[msource]}
    [] OTHER -> {msource}

LossBound == Injective => Lost \subseteq InFlight

(* The recursion is as deep as a chain of moves is long, so it ends, also  *)
(* on a cycle: no entry is entered twice.                                  *)
DepthBounded == depth + Cardinality(pending) <= Cardinality(planned) + 1

(* The migration ends whatever the plan.                                   *)
Termination == <>(status # "running")
==============================================================================

------------------------------ MODULE MCMigrate ------------------------------
(* Small disks for Migrate: every plan over Count blocks, the blocks all   *)
(* different, so that a block found in the wrong place is told apart.      *)
EXTENDS Migrate

MCContent == Block

MCInit == Init /\ \A b \in Block : disk[b] = b

MCFairSpec == MCInit /\ [][Next]_vars /\ WF_vars(Step)
==============================================================================

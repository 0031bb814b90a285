----------------------------- MODULE MCOp6tSlot -----------------------------
(***************************************************************************)
(* Op6tSlot on phones whose second disk has boot_a, at the place the       *)
(* driver looks at or at another; before it comes a disk with a shorter    *)
(* partition table, behind it a partition.                                 *)
(***************************************************************************)
EXTENDS Op6tSlot

MCNumHandles  == 3
MCIsPartition == <<FALSE, FALSE, TRUE>>
MCNames       == {<<FALSE, TRUE, FALSE>>, <<FALSE, FALSE, FALSE>>}
MCThreeBlocks == <<FALSE, TRUE, FALSE>>

=============================================================================

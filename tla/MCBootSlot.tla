----------------------------- MODULE MCBootSlot -----------------------------
(***************************************************************************)
(* BootSlot on small devices: a UFS device with the boot pair on one LUN   *)
(* and the modem pair and a partition without slots on the next, and an    *)
(* eMMC device with everything in one table.                               *)
(***************************************************************************)
EXTENDS BootSlot

MCNumPartitions == 5

MCUfsLunOf  == <<0, 0, 1, 1, 1>>
MCEmmcLunOf == <<0, 0, 0, 0, 0>>

MCBaseOf == <<"boot", "boot", "modem", "modem", "userdata">>
MCTailOf == <<"a", "b", "a", "b", "">>

Good    == [priority |-> MAX_PRIORITY, active |-> TRUE, fullRetry |-> TRUE,
            successful |-> TRUE, unbootable |-> FALSE]
Pending == [Good EXCEPT !.successful = FALSE]
Spare   == [BlankAttr EXCEPT !.priority = 2, !.successful = TRUE]
Broken  == [BlankAttr EXCEPT !.priority = 2, !.unbootable = TRUE]

(* A new device, a device running A, and one that has just switched to B. *)
MCBootTables == {<<BlankAttr, BlankAttr>>, <<Good, Broken>>, <<Spare, Pending>>}

(* The devices that have had an active slot. *)
MCUsedTables == MCBootTables \ {<<BlankAttr, BlankAttr>>}

=============================================================================

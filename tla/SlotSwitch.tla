----------------------------- MODULE SlotSwitch -----------------------------
(***************************************************************************)
(* What switching slots promises on a UFS device, seen from the media only *)
(* and across power losses.  Three things choose what boots: the active    *)
(* slot of the boot partitions' attributes, the boot LUN, and, LUN by LUN, *)
(* the side of the slotted pairs that holds the live type GUIDs.           *)
(*                                                                         *)
(* They change one at a time and in that order: the request is the change  *)
(* of the active slot, the boot LUN follows it (also after a power loss:   *)
(* the next boot repairs it), and the GUIDs of a LUN change sides together *)
(* and only once the boot LUN agrees with the active slot.                 *)
(***************************************************************************)
CONSTANTS
  Luns,   \* the LUNs with slotted pairs
  None    \* no slot is active: the device was never booted

VARIABLES active, lunSlot, live

Slots == {"a", "b"}

Other(s) == IF s = "a" THEN "b" ELSE "a"

vars == <<active, lunSlot, live>>

Init ==
  /\ active \in Slots \union {None}
  /\ lunSlot = IF active = None THEN "a" ELSE active
  /\ live = [l \in Luns |-> lunSlot]

(* A first boot makes slot a the active one. *)
Adopt ==
  /\ active = None
  /\ active' = "a"
  /\ UNCHANGED <<lunSlot, live>>

(* The user's switch: from here on every boot goes to the other slot. *)
Switch ==
  /\ active # None
  /\ active' = Other(active)
  /\ UNCHANGED <<lunSlot, live>>

FollowLun ==
  /\ active \in Slots
  /\ lunSlot # active
  /\ lunSlot' = active
  /\ UNCHANGED <<active, live>>

MoveGuids(l) ==
  /\ lunSlot = active
  /\ live' = [live EXCEPT ![l] = Other(@)]
  /\ UNCHANGED <<active, lunSlot>>

Next == Adopt \/ Switch \/ FollowLun \/ \E l \in Luns : MoveGuids(l)

Spec == Init /\ [][Next]_vars /\ WF_vars(FollowLun)

=============================================================================

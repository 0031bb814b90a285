------------------------------ MODULE Op6tSlot ------------------------------
(***************************************************************************)
(* Op6tSlotDxe: at every boot it looks for the disk with the boot_a entry, *)
(* marks a slot active in the primary GPT of that disk, one byte, and then *)
(* writes the checksum of the entries and the checksum of the header, each *)
(* with a write of its own.                                                *)
(*                                                                         *)
(* A checksum is modelled by what it was computed from, so that it fits    *)
(* exactly what it was computed from.  FixGptCRC32 always takes three      *)
(* blocks of entries, whatever the size of the table.                      *)
(*                                                                         *)
(* "The offset may very from device to device": a phone may have no disk   *)
(* with the name at the place the driver looks at.                         *)
(***************************************************************************)
EXTENDS Naturals

CONSTANTS
  NumHandles,    \* handles with DiskIo, in the order of LocateHandleBuffer
  IsPartition,   \* Media->LogicalPartition of a handle
  Names,         \* phones: on which handles the name at the offset is "boot_a"
  ThreeBlocks,   \* the entries of the handle's GPT fill exactly three blocks
  MaxCrashes,    \* bound: power losses in a behaviour
  MaxFaults      \* bound: failed protocol calls in a behaviour

Handles == 1 .. NumHandles

ASSUME Op6tAssumption ==
  /\ NumHandles \in Nat \ {0}
  /\ IsPartition \in [Handles -> BOOLEAN]
  /\ Names \subseteq [Handles -> BOOLEAN]
  /\ ThreeBlocks \in [Handles -> BOOLEAN]
  /\ MaxCrashes \in Nat /\ MaxFaults \in Nat

Slots == {"a", "b"}

(* OP6T_SLOT_FLAG_*: BOOTABLE_1 to BOOTABLE_7 and all else are "bootable". *)
Flags == {"active", "bootable", "unbootable"}

(* What a checksum covers; a partition has data where a disk has checksums. *)
Sums == [flags : [Slots -> Flags], span : {"entries", "three blocks", "data"}]

EntriesSum(flags) == [flags |-> flags, span |-> "entries"]

VARIABLES
  hasBootA,  \* hasBootA[k]: what this phone has at the offset is "boot_a"
  gpt,       \* gpt[k]: flags and checksums of the primary GPT of handle k
  backup,    \* backup[k]: flags in the backup GPT, which is always consistent
  pc,
  index,     \* handleIndex
  disk,      \* handle whose DiskIo is in mDiskIoProtocol, 0 for NULL
  slot,      \* slot whose flag is to be written
  failed,    \* a protocol call has failed in this boot
  crashes, faults

vars == <<hasBootA, gpt, backup, pc, index, disk, slot, failed, crashes, faults>>

media == <<hasBootA, gpt, backup>>
budget == <<failed, crashes, faults>>

Target(k) == hasBootA[k] /\ ~IsPartition[k]

Gpt == [flags : [Slots -> Flags], entryCrc : Sums, headerCrc : Sums]

(* Both checksums are right. *)
Valid(g) == g.entryCrc = EntriesSum(g.flags) /\ g.headerCrc = g.entryCrc

Consistent(flags) ==
  [flags |-> flags, entryCrc |-> EntriesSum(flags), headerCrc |-> EntriesSum(flags)]

Data(flags) ==
  LET data == [flags |-> flags, span |-> "data"]
  IN  [flags |-> flags, entryCrc |-> data, headerCrc |-> data]

Init ==
  /\ hasBootA \in Names
  /\ \E flags \in [Slots -> Flags] :
       /\ backup = [k \in Handles |-> flags]
       /\ gpt = [k \in Handles |-> IF IsPartition[k] THEN Data(flags) ELSE Consistent(flags)]
  /\ pc = "off" /\ index = 1 /\ disk = 0 /\ slot = "a"
  /\ failed = FALSE /\ crashes = 0 /\ faults = 0

-----------------------------------------------------------------------------
(* External: the boot loader, the partition driver, the power. *)

(* The loader counts down, gives up on or changes the slots of a good table. *)
LoaderSetsFlags ==
  /\ pc = "off"
  /\ \E t \in Handles, flags \in [Slots -> Flags] :
       /\ Target(t) /\ Valid(gpt[t])
       /\ gpt' = [gpt EXCEPT ![t] = Consistent(flags)]
       /\ backup' = [backup EXCEPT ![t] = flags]
  /\ UNCHANGED <<hasBootA, pc, index, disk, slot, budget>>

(* PartitionDxe restores a primary GPT with bad checksums from the backup. *)
PowerOn ==
  /\ pc = "off"
  /\ gpt' = [k \in Handles |-> IF IsPartition[k] \/ Valid(gpt[k]) THEN gpt[k]
                               ELSE Consistent(backup[k])]
  /\ pc' = "next" /\ index' = 1 /\ disk' = 0 /\ slot' = "a"
  /\ failed' = FALSE
  /\ UNCHANGED <<hasBootA, backup, crashes, faults>>

Reboot ==
  /\ pc = "idle"
  /\ pc' = "off"
  /\ UNCHANGED <<media, index, disk, slot, budget>>

Crash ==
  /\ pc # "off"
  /\ crashes < MaxCrashes
  /\ crashes' = crashes + 1
  /\ pc' = "off"
  /\ UNCHANGED <<media, index, disk, slot, failed, faults>>

Fault ==
  /\ faults < MaxFaults
  /\ faults' = faults + 1
  /\ failed' = TRUE
  /\ UNCHANGED crashes

-----------------------------------------------------------------------------
(* SlotMain *)

(* No handle buffer, or the flags of the right disk cannot be read: return. *)
Returns ==
  /\ (pc = "next" /\ index = 1) \/ pc = "flags"
  /\ Fault
  /\ pc' = "idle"
  /\ UNCHANGED <<media, index, disk, slot>>

(* Mutant of NextHandle: every second handle only. *)
MutNextHandle == index' = index + 2 /\ pc' = "next"

NextHandle == index' = index + 1 /\ pc' = "next"

(* The filters: no logical partition, and the name of boot_a at its place. *)
Examine ==
  /\ pc = "next" /\ index \in Handles
  /\ disk' = index
  /\ IF Target(index) THEN pc' = "flags" /\ index' = index ELSE NextHandle
  /\ UNCHANGED <<media, slot, budget>>

(***************************************************************************)
(* The handle is gone, or the name cannot be read: `continue`.  A handle   *)
(* with DiskIo has BlockIo, which DiskIo stands on.                        *)
(***************************************************************************)
ExamineFails ==
  /\ pc = "next" /\ index \in Handles
  /\ Fault
  /\ \/ disk' = disk
     \/ ~IsPartition[index] /\ disk' = index
  /\ NextHandle
  /\ UNCHANGED <<media, slot>>

(* The slot to be made active: b only if a is unbootable and b is not. *)
Wanted(flags) ==
  IF flags["a"] = "unbootable" /\ flags["b"] # "unbootable" THEN "b" ELSE "a"

AlreadyActive(flags) ==
  \/ flags["a"] = "active"
  \/ flags["a"] = "unbootable" /\ flags["b"] = "active"

ReadFlags ==
  /\ pc = "flags"
  /\ IF AlreadyActive(gpt[index].flags)
     THEN pc' = "idle" /\ slot' = slot
     ELSE pc' = "write" /\ slot' = Wanted(gpt[index].flags)
  /\ UNCHANGED <<media, index, disk, budget>>

FlagWritten == gpt' = [gpt EXCEPT ![index].flags[slot] = "active"]

(* Mutant of WriteFlag: the `break` is missing. *)
MutWriteFlag ==
  /\ pc = "write"
  /\ FlagWritten
  /\ NextHandle
  /\ UNCHANGED <<hasBootA, backup, disk, slot, budget>>

WriteFlag ==
  /\ pc = "write"
  /\ FlagWritten
  /\ pc' = "entries"
  /\ UNCHANGED <<hasBootA, backup, index, disk, slot, budget>>

(* The write fails: `continue`, on to the next disk. *)
WriteFlagFails ==
  /\ pc = "write"
  /\ Fault
  /\ NextHandle
  /\ UNCHANGED <<media, disk, slot>>

(* No disk was taken; the last one looked at gets new checksums. *)
LoopEnds ==
  /\ pc = "next" /\ index \notin Handles
  /\ pc' = IF disk = 0 THEN "idle" ELSE "entries"
  /\ UNCHANGED <<media, index, disk, slot, budget>>

-----------------------------------------------------------------------------
(* FixGptCRC32 *)

ThreeBlockSum(k) ==
  [flags |-> gpt[k].flags, span |-> IF ThreeBlocks[k] THEN "entries" ELSE "three blocks"]

(* Mutant of WriteEntryCrc: the checksum of the header is forgotten. *)
MutWriteEntryCrc ==
  /\ pc = "entries"
  /\ gpt' = [gpt EXCEPT ![disk].entryCrc = ThreeBlockSum(disk)]
  /\ pc' = "idle"
  /\ UNCHANGED <<hasBootA, backup, index, disk, slot, budget>>

WriteEntryCrc ==
  /\ pc = "entries"
  /\ gpt' = [gpt EXCEPT ![disk].entryCrc = ThreeBlockSum(disk)]
  /\ pc' = "header"
  /\ UNCHANGED <<hasBootA, backup, index, disk, slot, budget>>

WriteHeaderCrc ==
  /\ pc = "header"
  /\ gpt' = [gpt EXCEPT ![disk].headerCrc = gpt[disk].entryCrc]
  /\ pc' = "idle"
  /\ UNCHANGED <<hasBootA, backup, index, disk, slot, budget>>

(* No memory, or a failed ReadDisk or WriteDisk. *)
FixFails ==
  /\ pc \in {"entries", "header"}
  /\ Fault
  /\ pc' = "idle"
  /\ UNCHANGED <<media, index, disk, slot>>

-----------------------------------------------------------------------------
SlotMain ==
  Returns \/ Examine \/ ExamineFails \/ ReadFlags \/ WriteFlag \/ WriteFlagFails \/ LoopEnds

FixGptCRC32 == WriteEntryCrc \/ WriteHeaderCrc \/ FixFails

Next == LoaderSetsFlags \/ PowerOn \/ Reboot \/ Crash \/ SlotMain \/ FixGptCRC32

Spec == Init /\ [][Next]_vars

-----------------------------------------------------------------------------
(* Properties *)

(* Every variable has its type. *)
TypeOK ==
  /\ hasBootA \in [Handles -> BOOLEAN]
  /\ gpt \in [Handles -> Gpt]
  /\ backup \in [Handles -> [Slots -> Flags]]
  /\ pc \in {"off", "next", "flags", "write", "entries", "header", "idle"}
  /\ index \in 1 .. NumHandles + 1
  /\ disk \in 0 .. NumHandles
  /\ slot \in Slots
  /\ failed \in BOOLEAN
  /\ crashes \in 0 .. MaxCrashes /\ faults \in 0 .. MaxFaults

(* A boot in which no call fails ends with an active slot under right        *)
(* checksums, whatever failed or was cut off in the boots before.            *)
ActiveAfterBoot ==
  (pc = "idle" /\ ~failed) =>
    \A t \in Handles : Target(t) =>
      Valid(gpt[t]) /\ \E s \in Slots : gpt[t].flags[s] = "active"

(* A flag is written on a disk with boot_a only, whatever fails.  Any other  *)
(* handle may get new checksums, and only after the search came to its end   *)
(* on it: on a phone without such a disk, or in a boot with a failed call.   *)
OnlyTargetWritten ==
  [][\A k \in Handles :
       (pc # "off" /\ ~Target(k) /\ gpt'[k] # gpt[k]) =>
         /\ gpt'[k].flags = gpt[k].flags
         /\ k = disk /\ index \notin Handles
         /\ failed \/ \A h \in Handles : ~Target(h)]_vars

=============================================================================

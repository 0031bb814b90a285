------------------------------ MODULE BootSlot ------------------------------
(***************************************************************************)
(* A/B slot management: BootSlotDxe (run at every boot) and SwitchSlotsApp *)
(* (run by the user) over BootSlotLib.                                     *)
(*                                                                         *)
(* Each run of an image keeps its own PtnEntries (mem), loaded from what   *)
(* the partition driver remembers of the tables (partInfo), and its own    *)
(* PtnEntriesBak (bak).  UpdatePartitionAttributes carries the changes of  *)
(* mem to the primary and the backup GPT of every LUN, one read, one walk  *)
(* and one write per copy.  The UFS boot LUN is set in between.  Power may *)
(* go at any point, a transfer may fail, and no caller ever learns of it.  *)
(*                                                                         *)
(* Control state: pc says where the running image is, image which one it   *)
(* is; "read", "walk" and "write" are inside UpdatePartitionAttributes,    *)
(* which continues at ret.                                                 *)
(***************************************************************************)
EXTENDS SlotTable

CONSTANTS
  IsUfs,          \* root device type: UFS, otherwise EMMC
  BootTables,     \* attributes <<of boot_a, of boot_b>> a device may start with
  MaxCrashes,     \* bound: power losses in a behaviour
  MaxFaults,      \* bound: failed reads, writes, lookups and allocations
  None            \* no slot

ASSUME BootSlotAssumption ==
  /\ IsUfs \in BOOLEAN
  /\ ~IsUfs => Luns = {0}
  /\ BootTables \subseteq Attr \X Attr
  /\ MaxCrashes \in Nat
  /\ MaxFaults \in Nat
  /\ PartitionHasMultiSlot("boot", Index) /\ \A s \in Slots : HasBootEntry(s)
  \* no third name starts with "boot_a" or "boot_b"
  /\ \A i \in Index, s \in Slots : StartsWith(i, "boot", s) => i = BootIndex(s)

Copies == {"primary", "backup"}

(* UpdateType: no caller asks for both at once. *)
UpdateTypes == {"attr", "guid"}

VARIABLES
  disk,      \* disk[c][i]: entry i in copy c of its LUN's GPT
  crcOk,     \* crcOk[c][l]: the checksums of copy c of LUN l are right
  bootLun,   \* the UFS boot LUN attribute; 1 boots slot a, 2 slot b
  partInfo,  \* what EFI_PARTITION_INFO_PROTOCOL says, read when the disk connects
  known,     \* the entries PtnEntries has: all, unless a lookup went wrong
  mem,       \* PtnEntries of the running image
  bak,       \* PtnEntriesBak of the running image
  image,     \* "dxe" or "app"
  pc,
  cur,       \* CurrentSlot
  slot,      \* the slot SetActiveSlot is called with
  utype, ret, lun, copy, idx, ptr, buf, dirty,  \* UpdatePartitionAttributes:
             \* UpdateType, caller, Lun, Iter, i, PtnEntriesPtr, GptHdr, !SkipUpdation
  crashes, faults

media  == <<disk, crcOk, bootLun>>
tables == <<mem, bak>>
flush  == <<utype, ret, lun, copy, idx, ptr, buf, dirty>>
budget == <<crashes, faults>>
vars   == <<media, partInfo, known, tables, image, pc, cur, slot, flush, budget>>

-----------------------------------------------------------------------------
(* Initial states: a device whose two copies agree, set up for one slot. *)

(* PtnEntries is sorted by LUN. *)
FirstLun == LunOf[1]

IsFirst(i, S) == i \in S /\ \A j \in S : i <= j

LunOfSlot(s) == IF s = "a" THEN 1 ELSE 2

(* The tables of a device set up for slot s: its GUIDs are on the s side. *)
ProvisionedGuid(i, s) == IF TailOf[i] = Other(s) THEN IdleGuid ELSE BaseOf[i]

ProvisionedTable(pair, s) ==
  [i \in Index |->
     [guid |-> ProvisionedGuid(i, s),
      attr |-> CASE i = BootIndex("a") -> pair[1]
                 [] i = BootIndex("b") -> pair[2]
                 [] OTHER -> [BlankAttr EXCEPT !.active = ContainsSuffix(i, s)]]]

(* What RAM holds when nothing runs. *)
NoTable == [i \in Index |-> [guid |-> IdleGuid, attr |-> BlankAttr]]

Init ==
  /\ \E pair \in BootTables :
       \E s \in Slots :
         /\ pair[2].active => s = "b"
         /\ ~pair[2].active => s = "a"
         /\ disk = [c \in Copies |-> ProvisionedTable(pair, s)]
         /\ bootLun = LunOfSlot(s)
  /\ crcOk = [c \in Copies |-> [l \in Luns |-> TRUE]]
  /\ known = Index /\ partInfo = NoTable /\ mem = NoTable /\ bak = NoTable /\ buf = NoTable
  /\ image = "dxe" /\ pc = "off" /\ cur = "a" /\ slot = "a"
  /\ utype = "attr" /\ ret = "off" /\ lun = FirstLun /\ copy = "primary"
  /\ idx = 1 /\ ptr = 1 /\ dirty = FALSE
  /\ crashes = 0 /\ faults = 0

(* Without power nothing is left but the media. *)
PowerOff ==
  /\ known' = Index /\ partInfo' = NoTable /\ mem' = NoTable /\ bak' = NoTable /\ buf' = NoTable
  /\ image' = "dxe" /\ pc' = "off" /\ cur' = "a" /\ slot' = "a"
  /\ utype' = "attr" /\ ret' = "off" /\ lun' = FirstLun /\ copy' = "primary"
  /\ idx' = 1 /\ ptr' = 1 /\ dirty' = FALSE

-----------------------------------------------------------------------------
(* Boot: the loader before UEFI and the partition driver.  External. *)

(* Before UEFI starts, the Qualcomm loader may give up on a slot. *)
LoaderMarksUnbootable(s) ==
  /\ pc = "off"
  /\ \A c \in Copies : crcOk[c][LunOf[BootIndex(s)]]
  /\ disk' = [c \in Copies |->
                SetAttr(disk[c], s, [BootAttr(disk[c], s) EXCEPT
                                       !.unbootable = TRUE, !.successful = FALSE])]
  /\ UNCHANGED <<crcOk, bootLun, partInfo, known, tables, image, pc, cur, slot, flush, budget>>

Readable(c, i) == crcOk[c][LunOf[i]]

(* PartitionDxe rewrites a copy with bad checksums from the other one. *)
RestoredDisk ==
  [c \in Copies |-> [i \in Index |->
     IF Readable(c, i) THEN disk[c][i]
     ELSE IF c = "primary" THEN disk["backup"][i] ELSE disk["primary"][i]]]

(* ... and publishes the primary's entries, once for this boot. *)
Connect ==
  /\ pc = "off"
  /\ \A l \in Luns : \E c \in Copies : crcOk[c][l]
  /\ disk' = RestoredDisk
  /\ crcOk' = [c \in Copies |-> [l \in Luns |-> TRUE]]
  /\ partInfo' = RestoredDisk["primary"]
  /\ image' = "dxe"
  /\ pc' = "start"
  /\ UNCHANGED <<bootLun, known, tables, cur, slot, flush, budget>>

-----------------------------------------------------------------------------
(* Failures *)

HasFault == faults < MaxFaults

Fault == HasFault /\ faults' = faults + 1 /\ UNCHANGED crashes

(* Power is lost between two accesses to the media. *)
Crash ==
  /\ pc # "off"
  /\ crashes < MaxCrashes
  /\ crashes' = crashes + 1
  /\ PowerOff
  /\ UNCHANGED <<media, faults>>

(* Entries of the LUN below the cut have reached the media. *)
CopyWritten(S) ==
  [disk EXCEPT ![copy] = [i \in Index |-> IF i \in S THEN buf[i] ELSE disk[copy][i]]]

(* A write that stops at some sector.  The header travels in the same        *)
(* transfer, so that the checksums fit neither the old nor the new entries.  *)
Torn ==
  \E cut \in LunParts(lun) \union {0} :
    /\ disk' = CopyWritten({i \in LunParts(lun) : i <= cut})
    /\ crcOk' = [crcOk EXCEPT ![copy][lun] = FALSE]

(* Power is lost in the middle of WriteBlocks. *)
CrashInWrite ==
  /\ pc = "write"
  /\ crashes < MaxCrashes
  /\ crashes' = crashes + 1
  /\ Torn
  /\ PowerOff
  /\ UNCHANGED <<bootLun, faults>>

-----------------------------------------------------------------------------
(* UpdatePartitionAttributes *)

Goto(label) == pc' = label /\ UNCHANGED flush

(* Position the walk at the first entry of LUN l. *)
BeginCopy(l, c) ==
  /\ pc' = "read"
  /\ lun' = l
  /\ copy' = c
  /\ UNCHANGED <<utype, ret, idx, ptr, buf, dirty>>

(***************************************************************************)
(* The call.  IsUpdatePartitionAttributes compares the whole arrays: with  *)
(* nothing new in table the function returns at once.                      *)
(***************************************************************************)
UpdatePartitionAttributes(type, table, label) ==
  IF table = bak
  THEN Goto(label)
  ELSE /\ pc' = "read"
       /\ utype' = type
       /\ ret' = label
       /\ lun' = FirstLun
       /\ copy' = "primary"
       /\ UNCHANGED <<idx, ptr, buf, dirty>>

(* Mutant of NextLun: the loop over the LUNs does not move on. *)
MutNextLun ==
  LET later == {l \in Luns : l >= lun}
  IN  IF later = {}
      THEN Goto(ret)
      ELSE \E l \in later : IsFirst(l, later) /\ BeginCopy(l, "primary")

(* The primary of the next LUN, after the last one the return. *)
NextLun ==
  LET later == {l \in Luns : l > lun}
  IN  IF later = {}
      THEN Goto(ret)
      ELSE \E l \in later : IsFirst(l, later) /\ BeginCopy(l, "primary")

(* The backup of this LUN, then the next LUN. *)
NextCopy == IF copy = "primary" THEN BeginCopy(lun, "backup") ELSE NextLun

ReadCopy ==
  /\ pc = "read"
  /\ buf' = disk[copy]
  /\ \E first \in LunParts(lun) :
       IsFirst(first, LunParts(lun)) /\ idx' = first /\ ptr' = first
  /\ dirty' = FALSE
  /\ pc' = "walk"
  /\ UNCHANGED <<media, partInfo, known, tables, image, cur, slot, utype, ret, lun, copy, budget>>

(* A LUN whose lookup finds no handle: `continue` with the next one. *)
LunSkipped ==
  /\ pc = "read" /\ copy = "primary"
  /\ Fault
  /\ NextLun
  /\ UNCHANGED <<media, partInfo, known, tables, image, cur, slot>>

(***************************************************************************)
(* A failed lookup, no density or memory, a failed ReadBlocks, a refused   *)
(* header or CRC: the function returns and leaves the remaining copies and *)
(* LUNs as they are.                                                       *)
(***************************************************************************)
FlushExits ==
  /\ pc \in {"read", "write"}
  /\ Fault
  /\ Goto(ret)
  /\ UNCHANGED <<media, partInfo, known, tables, image, cur, slot>>

(* An entry without type GUID is passed over; the pointer stays. *)
WalkSkip ==
  /\ pc = "walk"
  /\ idx \in LunParts(lun) \ known
  /\ idx' = idx + 1
  /\ UNCHANGED <<media, partInfo, known, tables, image, pc, cur, slot,
                 utype, ret, lun, copy, ptr, buf, dirty, budget>>

(* PARTITION_GUID: the entry at the pointer takes the GUID of entry idx. *)
WalkGuid ==
  /\ pc = "walk" /\ utype = "guid"
  /\ idx \in LunParts(lun) \intersect known
  /\ IF buf[ptr].guid # mem[idx].guid
     THEN /\ buf' = [buf EXCEPT ![ptr].guid = mem[idx].guid]
          /\ bak' = [bak EXCEPT ![idx].guid = mem[idx].guid]
          /\ dirty' = TRUE
     ELSE UNCHANGED <<buf, bak, dirty>>
  /\ idx' = idx + 1
  /\ ptr' = ptr + 1
  /\ UNCHANGED <<media, partInfo, known, mem, image, pc, cur, slot, utype, ret, lun, copy, budget>>

(* PARTITION_ATTRIBUTES, the GUID at the pointer is that of entry idx. *)
WalkAttr ==
  /\ pc = "walk" /\ utype = "attr"
  /\ idx \in LunParts(lun) \intersect known
  /\ buf[ptr].guid = mem[idx].guid
  /\ IF buf[ptr].attr # mem[idx].attr
     THEN /\ buf' = [buf EXCEPT ![ptr].attr = mem[idx].attr]
          /\ bak' = [bak EXCEPT ![idx].attr = mem[idx].attr]
          /\ dirty' = TRUE
     ELSE UNCHANGED <<buf, bak, dirty>>
  /\ idx' = idx + 1
  /\ ptr' = ptr + 1
  /\ UNCHANGED <<media, partInfo, known, mem, image, pc, cur, slot, utype, ret, lun, copy, budget>>

(* "GUID is not match!": `continue`, and the pointer stays where it is. *)
WalkMismatch ==
  /\ pc = "walk" /\ utype = "attr"
  /\ idx \in LunParts(lun) \intersect known
  /\ buf[ptr].guid # mem[idx].guid
  /\ idx' = idx + 1
  /\ UNCHANGED <<media, partInfo, known, tables, image, pc, cur, slot,
                 utype, ret, lun, copy, ptr, buf, dirty, budget>>

WalkEnds ==
  /\ pc = "walk"
  /\ idx \notin LunParts(lun)
  /\ IF dirty THEN Goto("write") ELSE NextCopy
  /\ UNCHANGED <<media, partInfo, known, tables, image, cur, slot, budget>>

(* Mutant of WriteCopy: the header checksum is not computed again. *)
MutWriteCopy ==
  /\ pc = "write"
  /\ disk' = CopyWritten(LunParts(lun))
  /\ crcOk' = [crcOk EXCEPT ![copy][lun] = FALSE]
  /\ NextCopy
  /\ UNCHANGED <<bootLun, partInfo, known, tables, image, cur, slot, budget>>

WriteCopy ==
  /\ pc = "write"
  /\ disk' = CopyWritten(LunParts(lun))
  /\ crcOk' = [crcOk EXCEPT ![copy][lun] = TRUE]
  /\ NextCopy
  /\ UNCHANGED <<bootLun, partInfo, known, tables, image, cur, slot, budget>>

(* WriteBlocks reports an error after a part of the copy was written. *)
WriteFails ==
  /\ pc = "write"
  /\ Fault
  /\ Torn
  /\ Goto(ret)
  /\ UNCHANGED <<bootLun, partInfo, known, tables, image, cur, slot>>

-----------------------------------------------------------------------------
(* The images *)

(* BootSlotDxe returns to the boot manager, SwitchSlotsApp waits for a key. *)
Exit == IF image = "dxe" THEN "idle" ELSE "key"

(* Both begin with EnumeratePartitions and UpdatePartitionEntries. *)
Start ==
  /\ pc = "start"
  /\ known' = Index
  /\ mem' = partInfo
  /\ bak' = partInfo
  /\ Goto("current")
  /\ UNCHANGED <<media, partInfo, image, cur, slot, budget>>

(***************************************************************************)
(* Entries a start may do without: one whose handle is passed over or has  *)
(* no partition record, those of a LUN with no handle, those of a LUN      *)
(* whose lookup is an error and of all behind it, for its 128 empty        *)
(* entries leave no room in PtnEntries.                                    *)
(***************************************************************************)
Missing ==
  {{i} : i \in Index} \union {LunParts(l) : l \in Luns}
    \union {{i \in Index : LunOf[i] >= l} : l \in Luns}

(* Mutant of StartsPartly: the boot pair is not asked for. *)
MutStartsPartly ==
  /\ pc = "start"
  /\ Fault
  /\ \E missing \in Missing : known' = Index \ missing
  /\ mem' = [i \in Index |-> IF i \in known' THEN partInfo[i] ELSE NoTable[i]]
  /\ bak' = mem'
  /\ Goto("current")
  /\ UNCHANGED <<media, partInfo, image, cur, slot>>

(* "ignore the error and continue": the image works on what it found, as *)
(* long as the boot pair is there.                                       *)
StartsPartly ==
  /\ pc = "start"
  /\ Fault
  /\ \E missing \in Missing : known' = Index \ missing
  /\ mem' = [i \in Index |-> IF i \in known' THEN partInfo[i] ELSE NoTable[i]]
  /\ bak' = mem'
  /\ Goto(IF PartitionHasMultiSlot("boot", known') THEN "current" ELSE Exit)
  /\ UNCHANGED <<media, partInfo, image, cur, slot>>

(* An unknown root device, or an error of the last lookup: the image ends. *)
StartFails ==
  /\ pc = "start"
  /\ Fault
  /\ Goto(Exit)
  /\ UNCHANGED <<media, partInfo, known, tables, image, cur, slot>>

(***************************************************************************)
(* GetActiveSlot found one, or makes slot A active on a first boot, or     *)
(* finds none (NOT_FOUND).  cur is CurrentSlot in each of its two callers. *)
(***************************************************************************)
GetActiveSlot(found, none) ==
  \/ \E s \in ActiveSlots(mem) : cur' = s /\ mem' = mem /\ Goto(found)
  \/ /\ FirstBoot(mem)
     /\ mem' = DefaultSlotA(mem)
     /\ cur' = "a"
     /\ UpdatePartitionAttributes("attr", mem', found)
  \/ /\ ActiveSlots(mem) = {} /\ ~FirstBoot(mem)
     /\ mem' = mem
     /\ cur' = "a"
     /\ Goto(none)

(* GetCurrentSlotSuffix: with no slot the driver goes on with A, the app stops. *)
GetCurrentSlotSuffix ==
  /\ pc = "current"
  /\ GetActiveSlot("target", IF image = "dxe" THEN "target" ELSE "key")
  /\ UNCHANGED <<media, partInfo, known, bak, image, slot, budget>>

(* Mutant of ChooseSlot: the driver, too, takes the other slot. *)
MutChooseSlot ==
  /\ pc = "target"
  /\ slot' = Other(cur)
  /\ Goto(IF image = "dxe" THEN "clear_a" ELSE "set")
  /\ UNCHANGED <<media, partInfo, known, tables, image, cur, budget>>

(* The driver refreshes the current slot, the app switches to the other. *)
ChooseSlot ==
  /\ pc = "target"
  /\ slot' = IF image = "dxe" THEN cur ELSE Other(cur)
  /\ Goto(IF image = "dxe" THEN "clear_a" ELSE "set")
  /\ UNCHANGED <<media, partInfo, known, tables, image, cur, budget>>

(* BootSlotDxe: for both slots, if (!IsSlotBootable) ClearUnbootable. *)
ClearSlot(s) ==
  /\ pc = (IF s = "a" THEN "clear_a" ELSE "clear_b")
  /\ LET next == IF s = "a" THEN "clear_b" ELSE "set"
     IN  IF IsSlotBootable(mem, s)
         THEN mem' = mem /\ Goto(next)
         ELSE /\ mem' = ClearUnbootable(mem, s)
              /\ UpdatePartitionAttributes("attr", mem', next)
  /\ UNCHANGED <<media, partInfo, known, bak, image, cur, slot, budget>>

(* SetActiveSlot asks GetActiveSlot first and gives up when it fails. *)
SetActiveSlot ==
  /\ pc = "set"
  /\ GetActiveSlot("setattr", Exit)
  /\ UNCHANGED <<media, partInfo, known, bak, image, slot, budget>>

(* Mutant of SetSlotAttributes: the attributes are left to the later flushes. *)
MutSetSlotAttributes ==
  /\ pc = "setattr"
  /\ mem' = SlotActivated(mem, slot, image = "app", image = "dxe")
  /\ Goto(IF cur = slot THEN "checklun" ELSE "swap")
  /\ UNCHANGED <<media, partInfo, known, bak, image, cur, slot, budget>>

SetSlotAttributes ==
  /\ pc = "setattr"
  /\ mem' = SlotActivated(mem, slot, image = "app", image = "dxe")
  /\ UpdatePartitionAttributes("attr", mem', IF cur = slot THEN "checklun" ELSE "swap")
  /\ UNCHANGED <<media, partInfo, known, bak, image, cur, slot, budget>>

(* Mutant of FixedLun: only the change from 2 to 1 is there. *)
MutFixedLun(s) == IF bootLun = 2 /\ s = "a" THEN 1 ELSE bootLun

(* The LUN the code wants once it knows the one in force. *)
FixedLun(s) == IF bootLun = LunOfSlot(Other(s)) THEN LunOfSlot(s) ELSE bootLun

(* The slot stays: the boot LUN is put right if it is the other slot's. *)
CheckBootLun ==
  /\ pc = "checklun"
  /\ bootLun' = IF IsUfs THEN FixedLun(slot) ELSE bootLun
  /\ Goto("done")
  /\ UNCHANGED <<disk, crcOk, partInfo, known, tables, image, cur, slot, budget>>

(* The slot stays and the LUN cannot be read or set: nothing happens. *)
CheckBootLunFails ==
  /\ pc = "checklun" /\ IsUfs
  /\ Fault
  /\ Goto("done")
  /\ UNCHANGED <<media, partInfo, known, tables, image, cur, slot>>

(* SwitchPtnSlots, first half: swap the GUIDs of every pair in memory. *)
SwapGuids ==
  /\ pc = "swap"
  /\ mem' = SwapPtnGuids(mem, known)
  /\ Goto("setlun")
  /\ UNCHANGED <<media, partInfo, known, bak, image, cur, slot, budget>>

(* Without memory for the list SwitchPtnSlots returns: no swap, no LUN. *)
SwapFails ==
  /\ pc = "swap"
  /\ Fault
  /\ Goto("mark")
  /\ UNCHANGED <<media, partInfo, known, tables, image, cur, slot>>

(* Second half: SetBootLU, whatever was read, then write the GUIDs. *)
SetBootLun ==
  /\ pc = "setlun"
  /\ bootLun' = IF IsUfs THEN FixedLun(slot) ELSE bootLun
  /\ UpdatePartitionAttributes("guid", mem, "mark")
  /\ UNCHANGED <<disk, crcOk, partInfo, known, tables, image, cur, slot, budget>>

(* A failed GetBootLU leaves 0, which is then set; a failed SetBootLU is lost. *)
SetBootLunFails ==
  /\ pc = "setlun" /\ IsUfs
  /\ Fault
  /\ bootLun' \in {0, bootLun}
  /\ UpdatePartitionAttributes("guid", mem, "mark")
  /\ UNCHANGED <<disk, crcOk, partInfo, known, tables, image, cur, slot>>

(* Mutant of MarkActive: marks the slot that was found, not the one asked for. *)
MutMarkActive ==
  /\ pc = "mark"
  /\ mem' = MarkPtnActive(mem, cur, known)
  /\ UpdatePartitionAttributes("attr", mem', "done")
  /\ UNCHANGED <<media, partInfo, known, bak, image, cur, slot, budget>>

MarkActive ==
  /\ pc = "mark"
  /\ mem' = MarkPtnActive(mem, slot, known)
  /\ UpdatePartitionAttributes("attr", mem', "done")
  /\ UNCHANGED <<media, partInfo, known, bak, image, cur, slot, budget>>

(* BootSlotDxe returns; SwitchSlotsApp updates the GUIDs once more, *)
DxeReturns ==
  /\ pc = "done" /\ image = "dxe"
  /\ Goto("idle")
  /\ UNCHANGED <<media, partInfo, known, tables, image, cur, slot, budget>>

AppUpdatesGuids ==
  /\ pc = "done" /\ image = "app"
  /\ UpdatePartitionAttributes("guid", mem, "attrs")
  /\ UNCHANGED <<media, partInfo, known, tables, image, cur, slot, budget>>

(* the attributes once more, *)
AppUpdatesAttributes ==
  /\ pc = "attrs"
  /\ UpdatePartitionAttributes("attr", mem, "reset")
  /\ UNCHANGED <<media, partInfo, known, tables, image, cur, slot, budget>>

(* and resets. *)
ResetSystem ==
  /\ pc = "reset"
  /\ PowerOff
  /\ UNCHANGED <<media, budget>>

-----------------------------------------------------------------------------
(* The user *)

(* The key a failed SwitchSlotsApp waits for. *)
PressKey ==
  /\ pc = "key"
  /\ Goto("idle")
  /\ UNCHANGED <<media, partInfo, known, tables, image, cur, slot, budget>>

RunApp ==
  /\ pc = "idle"
  /\ image' = "app"
  /\ Goto("start")
  /\ UNCHANGED <<media, partInfo, known, tables, cur, slot, budget>>

Reboot ==
  /\ pc = "idle"
  /\ PowerOff
  /\ UNCHANGED <<media, budget>>

-----------------------------------------------------------------------------
Flush == ReadCopy \/ WalkSkip \/ WalkGuid \/ WalkAttr \/ WalkMismatch \/ WalkEnds \/ WriteCopy

Image ==
  \/ Start \/ GetCurrentSlotSuffix \/ ChooseSlot \/ \E s \in Slots : ClearSlot(s)
  \/ SetActiveSlot \/ SetSlotAttributes \/ CheckBootLun \/ SwapGuids \/ SetBootLun
  \/ MarkActive \/ DxeReturns \/ AppUpdatesGuids \/ AppUpdatesAttributes \/ ResetSystem

Failure ==
  \/ Crash \/ CrashInWrite
  \/ LunSkipped \/ FlushExits \/ WriteFails \/ StartsPartly \/ StartFails
  \/ CheckBootLunFails \/ SwapFails \/ SetBootLunFails

User == PressKey \/ RunApp \/ Reboot

External == Connect \/ \E s \in Slots : LoaderMarksUnbootable(s)

Next == Flush \/ Image \/ Failure \/ User \/ External

Spec == Init /\ [][Next]_vars

(***************************************************************************)
(* The firmware is one thread: an image that runs takes its next step, and *)
(* a powered device connects its disk.  Nothing makes the user act, not    *)
(* even press the key SwitchSlotsApp waits for, and nothing makes a        *)
(* failure happen.                                                         *)
(***************************************************************************)
Fairness == WF_vars(Flush) /\ WF_vars(Image) /\ WF_vars(Connect)

FairSpec == Spec /\ Fairness

-----------------------------------------------------------------------------
(* Properties *)

Labels == {"off", "start", "current", "target", "clear_a", "clear_b", "set",
           "setattr", "checklun", "swap", "setlun", "mark", "done", "attrs",
           "reset", "idle", "key", "read", "walk", "write"}

(* Every variable has its type. *)
TypeOK ==
  /\ disk \in [Copies -> Table]
  /\ crcOk \in [Copies -> [Luns -> BOOLEAN]]
  /\ bootLun \in {0, 1, 2}
  /\ known \subseteq Index
  /\ partInfo \in Table /\ mem \in Table /\ bak \in Table /\ buf \in Table
  /\ image \in {"dxe", "app"}
  /\ pc \in Labels /\ ret \in Labels
  /\ cur \in Slots /\ slot \in Slots
  /\ utype \in UpdateTypes /\ lun \in Luns /\ copy \in Copies
  /\ idx \in Nat /\ ptr \in Nat /\ dirty \in BOOLEAN
  /\ crashes \in 0 .. MaxCrashes /\ faults \in 0 .. MaxFaults

(* Whenever power goes, every LUN keeps a GPT copy with right checksums: the *)
(* primary and the backup are never both in the middle of a write.           *)
SomeCopyValid == \A l \in Luns : \E c \in Copies : crcOk[c][l]

(* The table the next boot will read, whenever it happens. *)
NextBootTable == RestoredDisk["primary"]

(* Entries whose GUIDs a switch exchanges. *)
Pairs == UNION {{i} \X SwapPartners(i, Index) : i \in Index}

IsPair(i, j) == <<i, j>> \in Pairs

(* In a copy the next boot may use, a pair owns the GUIDs it was born with:  *)
(* one side has the live one, the other the idle one.  A half-written swap   *)
(* never counts.                                                             *)
PairsKept ==
  \A c \in Copies, i, j \in Index :
    (IsPair(i, j) /\ LunOf[i] = LunOf[j] /\ Readable(c, i)) =>
      {disk[c][i].guid, disk[c][j].guid} = {BaseOf[i], IdleGuid}

(* When SetActiveSlot has done its work the slot it was asked for is the one *)
(* GetActiveSlot will find at the next boot, and on UFS the boot LUN is that *)
(* slot's, whatever state a power loss left behind earlier.                  *)
SetActiveSlotHolds ==
  pc = "done" =>
    /\ ActiveSlots(NextBootTable) = {slot}
    /\ ~BootAttr(NextBootTable, Other(slot)).active
    /\ IsUfs => bootLun = LunOfSlot(slot)

(* When SwitchSlotsApp resets the machine after an undisturbed life, every   *)
(* trace of the old slot is gone from both copies of every LUN: attributes,  *)
(* GUIDs and the ACTIVE flags of all slotted partitions agree on the new one. *)
SwitchComplete ==
  (pc = "reset" /\ crashes = 0 /\ faults = 0) =>
    \A c \in Copies :
      /\ \A i \in Index : disk[c][i].guid = ProvisionedGuid(i, slot)
      /\ \A i \in Index : disk[c][i].attr.active = (TailOf[i] = slot)
      /\ disk[c] = mem

(* SwitchSlotsApp never resets into the old slot while the transfers work,   *)
(* whatever a power loss left on the media before.                           *)
ResetOnlyWhenSwitched == pc = "reset" => ActiveSlots(NextBootTable) = {slot}

(* One failure, whatever it is and whatever an app's failed run left behind,  *)
(* never makes BootSlotDxe move the device to another slot: the driver that   *)
(* runs at every boot, on a table that may lack entries, keeps the slot of    *)
(* the next boot and brings the boot LUN to no other slot.                    *)
RefreshKeepsSlot ==
  [][(pc # "off" /\ image = "dxe" /\ ActiveSlots(NextBootTable) # {}) =>
       /\ ActiveSlots(NextBootTable)' = ActiveSlots(NextBootTable)
       /\ bootLun' # bootLun => ActiveSlots(NextBootTable) = {slot}]_vars

(* A device that had an active slot always has one for its next boot. *)
NeverWithoutSlot ==
  [][ActiveSlots(NextBootTable) # {} => ActiveSlots(NextBootTable)' # {}]_vars

(* The slot of the next boot changes only when SwitchSlotsApp writes a       *)
(* primary table that makes its target the active slot.                      *)
OnlyTheAppSwitches ==
  [][\/ ActiveSlots(NextBootTable) = {}
     \/ ActiveSlots(NextBootTable)' = ActiveSlots(NextBootTable)
     \/ /\ image = "app" /\ copy = "primary" /\ WriteCopy
        /\ ActiveSlots(NextBootTable)' = {slot}]_vars

(* The boot LUN moves only after the attributes of its slot are on the disk, *)
(* so that a power loss in between leaves a mismatch BootSlotDxe will repair *)
(* towards the slot the user asked for.                                      *)
LunAfterAttributes ==
  [][bootLun' # bootLun => \E s \in Slots : /\ ActiveSlots(NextBootTable) = {s}
                                             /\ bootLun' = LunOfSlot(s)]_vars

-----------------------------------------------------------------------------
(* What comments of the source say and the code does not do: each is refuted *)
(* by a run.                                                                 *)

(* "This loop iterates twice to update both primary and backup Gpt": once    *)
(* SetActiveSlot is done the boot entries of both copies are those in memory. *)
BothCopiesUpdated ==
  pc = "done" =>
    \A c \in Copies, s \in Slots : BootAttr(disk[c], s) = BootAttr(mem, s)

(* "Set A as active if there is no slot available (shouldn't happen though)": *)
(* BootSlotDxe finds an active slot on every device that has had one.         *)
SlotAvailable ==
  (pc = "current" /\ image = "dxe") => ActiveSlots(mem) # {} \/ FirstBoot(mem)

-----------------------------------------------------------------------------
(* The abstract specification: what the media of a UFS device show. *)

(* The slot whose pairs of LUN l all hold the live GUIDs, None if they differ. *)
LiveSide(l) ==
  LET sides == {s \in Slots :
                  \A i \in LunParts(l) : NextBootTable[i].guid = ProvisionedGuid(i, s)}
  IN  IF sides = {} THEN None ELSE CHOOSE s \in sides : TRUE

PairLuns == {LunOf[i] : i \in {k \in Index : SwapPartners(k, Index) # {}}}

Media == INSTANCE SlotSwitch WITH
  Luns    <- PairLuns,
  active  <- IF ActiveSlots(NextBootTable) = {} THEN None
             ELSE CHOOSE s \in ActiveSlots(NextBootTable) : TRUE,
  lunSlot <- IF bootLun = 1 THEN "a" ELSE "b",
  live    <- [l \in PairLuns |-> LiveSide(l)]

(* The images, their copies in RAM, their torn writes and their restarts     *)
(* implement the switch of SlotSwitch: in its order, LUN by LUN, and with a  *)
(* boot LUN that always ends up following the active slot.                   *)
ImplementsSlotSwitch == Media!Spec

(* However often the power goes, a powered device gets to its menu. *)
BootCompletes == pc = "off" ~> pc = "idle"

(* Every run of an image ends, whatever fails: in the menu, with the machine *)
(* off or, an app that gave up, at the key it asks for.                      *)
ImageEnds == pc = "start" ~> pc \in {"idle", "off", "key"}

=============================================================================

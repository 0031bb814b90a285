-------------------------- MODULE SlotSwitchProofs --------------------------
(***************************************************************************)
(* What a switch leaves on the media, for every partition table and device *)
(* as long as no transfer fails and the two boot entries are on one LUN.   *)
(*                                                                         *)
(*   AppSwitches       Only SwitchSlotsApp changes the slot of the next    *)
(*                     boot, wherever power is lost.                       *)
(*   NeverSlotless     There always is one.                                *)
(*   SwitchIsComplete  A switch that is not disturbed reaches the media    *)
(*                     whole: attributes, GUIDs and flags, both copies.    *)
(*   MediaSwitch       Seen from the media of a UFS device the images take *)
(*                     the steps of SlotSwitch, in its order.              *)
(*                                                                         *)
(* What a write of a primary does to the boot entries is in ActiveInv:     *)
(* the driver writes the slot that was active, the application its target. *)
(* A write that is torn is undone from the backup, which Mirror says has   *)
(* what the primary had.  That is so until power has been lost once: from  *)
(* then on the copies may differ for good (BothCopiesUpdated is refuted),  *)
(* hence MaxCrashes <= 1, a limit of the code and not of the proof.        *)
(* KnownInv is what an image believes of the media, SideInv and SidedInv   *)
(* are where the GUIDs are, of a whole device and LUN by LUN.              *)
(***************************************************************************)
EXTENDS BootSlotSwitchProofs

(* boot_a and boot_b are in the table of one LUN.                            *)
BootTogether == LunOf[BootIndex("a")] = LunOf[BootIndex("b")]

-----------------------------------------------------------------------------
(* The invariants *)

(* The backup is being brought up to what its primary has by now. *)
Catching(i) == InFlush /\ copy = "backup" /\ i \in LunParts(lun)

Backup(i) == disk["backup"][i]

(* Before the first power loss the copies of a GPT are equal, but for the    *)
(* field that is on its way from the one to the other.                       *)
Mirror ==
  crashes = 0 =>
    \A i \in Index :
      /\ ~Catching(i) => Backup(i) = Primary(i)
      /\ Catching(i) => Field(Backup(i), OtherField(utype)) = Field(Primary(i), OtherField(utype))

BackupBuffer ==
  crashes = 0 /\ pc \in {"walk", "write"} /\ copy = "backup" =>
    /\ pc = "walk" => ptr = idx
    /\ \A i \in LunParts(lun) :
         /\ Field(buf[i], OtherField(utype)) = Field(Backup(i), OtherField(utype))
         /\ Field(buf[i], utype) = Field(IF i < idx THEN mem[i] ELSE Backup(i), utype)
         /\ ~dirty => buf[i] = Backup(i)

MirrorInv == Mirror /\ BackupBuffer

PrimarySlots == ActiveSlots(disk["primary"])

(* The slot of the media and of PtnEntries.  On a first boot there is none   *)
(* before the library makes slot A the active one.                           *)
ActiveInv ==
  /\ InFlush /\ image = "dxe" => PrimarySlots \in {{}, ActiveSlots(mem)}
  /\ InFlush /\ image = "app" => ret \in Late \/ (ret = "target" /\ PrimarySlots \subseteq {"a"})
  /\ pc # "off" /\ FirstBoot(partInfo) /\ (image = "dxe" \/ Point \in {"start", "idle", "key", "current"}) =>
       PrimarySlots \subseteq {"a"}
  /\ image = "dxe" /\ pc \notin {"off", "start"} /\ FirstBoot(partInfo) =>
       ActiveSlots(mem) \subseteq {"a"}
  /\ pc = "current" => mem = partInfo

-----------------------------------------------------------------------------
(* The backup follows the primary *)

LEMMA InitMirror == Init => MirrorInv
  BY CopiesExist DEF Init, MirrorInv, Mirror, BackupBuffer, Catching, InFlush, Backup, Primary

(* The walk over a backup meets no GUID but the one in memory. *)
LEMMA BackupWalk ==
  ASSUME TypeOK, Flushing, MirrorInv, WalkGuid \/ WalkAttr \/ WalkMismatch,
         crashes = 0, copy = "backup"
  PROVE  /\ ptr' = idx'
         /\ \A i \in Index :
              /\ Field(buf'[i], OtherField(utype)) = Field(buf[i], OtherField(utype))
              /\ Field(buf'[i], utype) = Field(IF i = idx THEN mem[i] ELSE buf[i], utype)
         /\ ~dirty' => ~dirty /\ buf' = buf
<1>1. idx \in Index /\ idx \in LunParts(lun) /\ utype \in UpdateTypes /\ InFlush /\ pc = "walk"
  BY DEF WalkGuid, WalkAttr, WalkMismatch, LunParts, TypeOK, InFlush
<1>2. mem \in Table /\ buf \in Table /\ mem[idx] \in Entry
  BY <1>1 DEF TypeOK, Table
<1>3. ptr = idx
  BY <1>1 DEF MirrorInv, BackupBuffer
<1>4. CASE WalkGuid \/ WalkAttr
  <2>1. utype = (IF WalkGuid THEN "guid" ELSE "attr") /\ idx' = idx + 1 /\ ptr' = ptr + 1
    BY <1>4 DEF WalkGuid, WalkAttr
  <2>2. CASE Field(buf[ptr], utype) # Field(mem[idx], utype)
    <3>1. buf' = Put(buf, idx, mem[idx], utype) /\ dirty'
      BY <1>3, <1>4, <2>2 DEF WalkGuid, WalkAttr, Field, Put
    <3>2. QED
      BY <1>1, <1>2, <1>3, <2>1, <3>1, PutFields
  <2>3. CASE Field(buf[ptr], utype) = Field(mem[idx], utype)
    <3>1. UNCHANGED <<buf, dirty>>
      BY <1>4, <2>3 DEF WalkGuid, WalkAttr, Field
    <3>2. QED
      BY <1>1, <1>3, <2>1, <2>3, <3>1
  <2>4. QED
    BY <2>2, <2>3
<1>5. CASE WalkMismatch
  <2>1. Field(buf[idx], "guid") = Field(Backup(idx), "guid")
    BY <1>1, <1>5 DEF WalkMismatch, MirrorInv, BackupBuffer, OtherField
  <2>2. Field(Backup(idx), "guid") = Field(Primary(idx), "guid")
    BY <1>1, <1>5 DEF WalkMismatch, MirrorInv, Mirror, Catching, OtherField
  <2>3. Field(Primary(idx), "guid") = Field(mem[idx], "guid")
    BY <1>1, <1>5 DEF WalkMismatch, Flushing, OtherField
  <2>4. QED
    BY <1>3, <1>5, <2>1, <2>2, <2>3 DEF WalkMismatch, Field
<1>6. QED
  BY <1>4, <1>5

(* A copy is done: the backup has what the primary has, or begins to. *)
LEMMA CopyMirrored ==
  ASSUME TypeOK, WalkInv, SlotInv, MirrorInv, crashes = 0, (WalkEnds /\ ~dirty) \/ WriteCopy
  PROVE  Mirror'
<1> USE DEF media
<1>1. pc \in {"walk", "write"} /\ InFlush /\ NextCopy /\ utype \in UpdateTypes
  BY DEF WalkEnds, WriteCopy, InFlush, TypeOK
<1>2. \A i \in LunParts(lun) : i < idx
  BY WalkDone DEF WalkEnds, WriteCopy, WalkInv
<1>3. CASE copy = "primary"
  <2>1. lun' = lun /\ copy' = "backup" /\ pc' = "read" /\ utype' = utype
    BY <1>1, <1>3 DEF NextCopy, NextLun, BeginCopy
  <2>2. \A i \in Index : Catching(i)' <=> i \in LunParts(lun)
    BY <2>1 DEF Catching, InFlush, LunParts
  <2>3. SUFFICES ASSUME NEW i \in Index
                 PROVE  /\ i \notin LunParts(lun) => Backup(i)' = Primary(i)'
                        /\ Field(Backup(i)', OtherField(utype)) =
                             Field(Primary(i)', OtherField(utype))
    BY <2>1, <2>2 DEF Mirror
  <2>4. Backup(i) = Primary(i)
    BY <1>3 DEF MirrorInv, Mirror, Catching
  <2>5. Backup(i)' = Backup(i) /\ (i \notin LunParts(lun) => Primary(i)' = Primary(i))
    BY <1>3, CopiesExist DEF WalkEnds, WriteCopy, CopyWritten, Primary, Backup, TypeOK
  <2>6. Field(Primary(i)', OtherField(utype)) = Field(Primary(i), OtherField(utype))
    BY PrimaryStep DEF SlotInv, Flush
  <2>7. QED
    BY <2>4, <2>5, <2>6
<1>4. CASE copy = "backup"
  <2>1. SUFFICES ASSUME NEW i \in Index
                 PROVE  Backup(i)' = Primary(i)'
    BY DEF Mirror
  <2>2. Primary(i)' = Primary(i)
    BY <1>4, CopiesExist DEF WalkEnds, WriteCopy, CopyWritten, Primary, TypeOK
  <2>3. CASE i \in LunParts(lun)
    <3>1. Backup(i)' = buf[i]
      BY <1>1, <1>4, <2>3, CopiesExist
         DEF WalkEnds, WriteCopy, CopyWritten, Backup, TypeOK, MirrorInv, BackupBuffer
    <3>2. /\ Field(buf[i], OtherField(utype)) = Field(Backup(i), OtherField(utype))
          /\ Field(buf[i], utype) = Field(mem[i], utype)
      BY <1>1, <1>2, <1>4, <2>3 DEF MirrorInv, BackupBuffer
    <3>3. Field(Backup(i), OtherField(utype)) = Field(Primary(i), OtherField(utype))
      BY <1>1, <1>4, <2>3 DEF MirrorInv, Mirror, Catching
    <3>4. Field(Primary(i), utype) = Field(mem[i], utype)
      BY <1>1, <1>4, <2>3 DEF SlotInv, Flushing, Written, LunParts
    <3>5. buf[i] \in Entry /\ Primary(i) \in Entry
      BY CopiesExist DEF TypeOK, Table, Primary
    <3>6. buf[i] = Primary(i)
      BY <1>1, <3>2, <3>3, <3>4, <3>5, TwoFields
    <3>7. QED
      BY <2>2, <3>1, <3>6
  <2>4. CASE i \notin LunParts(lun)
    <3>1. Backup(i)' = Backup(i)
      BY <1>4, <2>4, CopiesExist DEF WalkEnds, WriteCopy, CopyWritten, Backup, TypeOK
    <3>2. QED
      BY <2>2, <2>4, <3>1 DEF MirrorInv, Mirror, Catching
  <2>5. QED
    BY <2>3, <2>4
<1>5. QED
  BY <1>3, <1>4 DEF TypeOK, Copies

LEMMA FlushMirror ==
  ASSUME TypeOK, WalkInv, SlotInv, MirrorInv, Flush
  PROVE  MirrorInv'
<1> USE DEF media, budget
<1>1. crashes' = crashes
  BY FlushSteps DEF ReadCopy, WalkGuid, WalkAttr, WalkMismatch, WalkEnds, WriteCopy
<1>2. SUFFICES ASSUME crashes = 0
               PROVE  MirrorInv'
  BY <1>1 DEF MirrorInv, Mirror, BackupBuffer
<1>3. CASE ReadCopy
  <2>1. \A i \in Index : /\ Catching(i)' = Catching(i) /\ Backup(i)' = Backup(i)
                         /\ Primary(i)' = Primary(i)
    BY <1>3 DEF ReadCopy, Catching, InFlush, Backup, Primary, LunParts
  <2>2. Mirror'
    BY <1>1, <1>3, <2>1 DEF MirrorInv, Mirror, ReadCopy
  <2>3. BackupBuffer'
    BY <1>3 DEF ReadCopy, BackupBuffer, IsFirst, LunParts, Index, Backup
  <2>4. QED
    BY <2>2, <2>3 DEF MirrorInv
<1>4. CASE WalkGuid \/ WalkAttr \/ WalkMismatch
  <2>1. /\ UNCHANGED <<disk, mem, pc, utype, lun, copy>> /\ idx' = idx + 1 /\ pc = "walk"
        /\ idx \in Index
    BY <1>4 DEF WalkGuid, WalkAttr, WalkMismatch, tables, LunParts
  <2>2. \A i \in Index : /\ Catching(i)' = Catching(i) /\ Backup(i)' = Backup(i)
                         /\ Primary(i)' = Primary(i)
    BY <2>1 DEF Catching, InFlush, Backup, Primary, LunParts
  <2>3. Mirror'
    BY <1>1, <2>1, <2>2 DEF MirrorInv, Mirror
  <2>4. BackupBuffer'
    <3>1. SUFFICES ASSUME copy = "backup"
                   PROVE  /\ ptr' = idx'
                          /\ \A i \in LunParts(lun) :
                               /\ Field(buf'[i], OtherField(utype)) =
                                    Field(Backup(i), OtherField(utype))
                               /\ Field(buf'[i], utype) =
                                    Field(IF i < idx' THEN mem[i] ELSE Backup(i), utype)
                               /\ ~dirty' => buf'[i] = Backup(i)
      BY <2>1, <2>2 DEF BackupBuffer, LunParts
    <3>2. /\ ptr' = idx'
          /\ \A i \in Index :
               /\ Field(buf'[i], OtherField(utype)) = Field(buf[i], OtherField(utype))
               /\ Field(buf'[i], utype) = Field(IF i = idx THEN mem[i] ELSE buf[i], utype)
          /\ ~dirty' => ~dirty /\ buf' = buf
      BY <1>2, <1>4, <3>1, BackupWalk DEF SlotInv
    <3>3. SUFFICES ASSUME NEW i \in LunParts(lun)
                   PROVE  /\ Field(buf'[i], OtherField(utype)) = Field(Backup(i), OtherField(utype))
                          /\ Field(buf'[i], utype) =
                               Field(IF i < idx' THEN mem[i] ELSE Backup(i), utype)
                          /\ ~dirty' => buf'[i] = Backup(i)
      BY <3>2
    <3>4. i \in Index /\ (i < idx' <=> i < idx \/ i = idx)
      BY <2>1 DEF LunParts, Index
    <3>5. /\ Field(buf[i], OtherField(utype)) = Field(Backup(i), OtherField(utype))
          /\ Field(buf[i], utype) = Field(IF i < idx THEN mem[i] ELSE Backup(i), utype)
          /\ ~dirty => buf[i] = Backup(i)
      BY <1>2, <2>1, <3>1 DEF MirrorInv, BackupBuffer
    <3>6. QED
      BY <3>2, <3>4, <3>5
  <2>5. QED
    BY <2>3, <2>4 DEF MirrorInv
<1>5. CASE WalkEnds /\ dirty
  <2>1. pc = "walk" /\ pc' = "write" /\ UNCHANGED <<disk, mem, flush>>
    BY <1>5 DEF WalkEnds, Goto, tables
  <2>2. \A i \in Index : /\ Catching(i)' = Catching(i) /\ Backup(i)' = Backup(i)
                         /\ Primary(i)' = Primary(i)
    BY <2>1 DEF Catching, InFlush, Backup, Primary, LunParts, flush
  <2>3. Mirror' /\ BackupBuffer'
    BY <1>1, <2>1, <2>2 DEF MirrorInv, Mirror, BackupBuffer, flush, LunParts
  <2>4. QED
    BY <2>3 DEF MirrorInv
<1>6. CASE (WalkEnds /\ ~dirty) \/ WriteCopy
  <2>1. Mirror'
    BY <1>2, <1>6, CopyMirrored
  <2>2. pc' \notin {"walk", "write"}
    <3>1. NextCopy /\ ret \in Returns
      BY <1>6 DEF WalkEnds, WriteCopy, WalkInv, InFlush
    <3>2. QED
      BY <3>1, NextCopyGoes DEF Returns
  <2>3. QED
    BY <2>1, <2>2 DEF MirrorInv, BackupBuffer
<1>7. QED
  BY <1>3, <1>4, <1>5, <1>6, FlushSteps

(* Outside of a flush the copies are the same function. *)
LEMMA SameCopies ==
  ASSUME TypeOK, MirrorInv, ~InFlush, crashes = 0
  PROVE  disk["backup"] = disk["primary"]
<1>1. \A i \in Index : disk["backup"][i] = disk["primary"][i]
  BY DEF MirrorInv, Mirror, Catching, Backup, Primary
<1>2. disk["backup"] \in [Index -> Entry] /\ disk["primary"] \in [Index -> Entry]
  BY CopiesExist DEF TypeOK, Table
<1>3. QED
  BY <1>1, <1>2

LEMMA MirrorStep ==
  ASSUME MaxFaults = 0, TypeOK, WalkInv, SlotInv, MirrorInv, [Next]_vars
  PROVE  MirrorInv'
<1> USE DEF media, budget, tables
<1>1. ASSUME ~InFlush, disk' = disk, crashes' = crashes, pc' \notin {"walk", "write"}
      PROVE  MirrorInv'
  BY <1>1, SameCopies DEF MirrorInv, Mirror, BackupBuffer, Backup, Primary
<1>2. CASE Image
  <2>1. crashes' = crashes
    BY <1>2 DEF Image, Start, GetCurrentSlotSuffix, ChooseSlot, ClearSlot, SetActiveSlot,
                SetSlotAttributes, CheckBootLun, SwapGuids, SetBootLun, MarkActive, DxeReturns,
                AppUpdatesGuids, AppUpdatesAttributes, ResetSystem
  <2>2. QED
    BY <1>1, <1>2, <2>1, ImageSteps
<1>3. CASE Crash \/ CrashInWrite
  <2>1. crashes' # 0
    BY <1>3 DEF Crash, CrashInWrite, TypeOK
  <2>2. QED
    BY <2>1 DEF MirrorInv, Mirror, BackupBuffer
<1>4. CASE User
  BY <1>1, <1>4 DEF User, PressKey, RunApp, Reboot, Goto, PowerOff, InFlush
<1>5. CASE Connect
  <2>1. pc = "off" /\ pc' = "start" /\ crashes' = crashes /\ disk' = RestoredDisk
    BY <1>5 DEF Connect
  <2>2. ASSUME crashes = 0, NEW i \in Index
        PROVE  Backup(i)' = Primary(i)'
    BY <2>1, <2>2, SameCopies, CopiesExist DEF RestoredDisk, Backup, Primary, InFlush
  <2>3. QED
    BY <2>1, <2>2 DEF MirrorInv, Mirror, BackupBuffer, Catching, InFlush
<1>6. ASSUME NEW s \in Slots, LoaderMarksUnbootable(s)
      PROVE  MirrorInv'
  <2>1. pc = "off" /\ pc' = "off" /\ crashes' = crashes
    BY <1>6 DEF LoaderMarksUnbootable
  <2>2. ASSUME crashes = 0
        PROVE  disk'["backup"] = disk'["primary"]
    BY <1>6, <2>1, <2>2, SameCopies, CopiesExist DEF LoaderMarksUnbootable, InFlush
  <2>3. QED
    BY <2>1, <2>2 DEF MirrorInv, Mirror, BackupBuffer, Backup, Primary
<1>7. CASE UNCHANGED vars
  BY <1>7 DEF vars, flush, MirrorInv, Mirror, BackupBuffer, Catching, Backup, Primary, InFlush,
              LunParts
<1>8. QED
  BY <1>2, <1>3, <1>4, <1>5, <1>6, <1>7, FlushMirror, Steps DEF External

-----------------------------------------------------------------------------
(* The slot a write leaves on the media *)

(* Whether GetActiveSlot finds it on the media or in PtnEntries. *)
LEMMA SameBootAttrs ==
  ASSUME NEW t, NEW u, \A s \in Slots : BootAttr(u, s) = BootAttr(t, s)
  PROVE  ActiveSlots(u) = ActiveSlots(t)
  BY SameActive

LEMMA AtRest ==
  ASSUME TypeOK, SlotInv, image = "dxe", pc \in (Early \union Late)
  PROVE  PrimarySlots = ActiveSlots(mem)
<1>1. \A s \in Slots : BootAttr(disk["primary"], s) = BootAttr(mem, s)
  BY BootIndexType DEF SlotInv, Rest, Tracked, Primary, BootAttr
<1>2. QED
  BY <1>1, SameBootAttrs DEF PrimarySlots

(* Only the write of a primary changes it, and only to the one in memory. *)
LEMMA FlushActive ==
  ASSUME TypeOK, WalkInv, SlotInv, BootTogether, Flush
  PROVE  /\ PrimarySlots' \in {PrimarySlots, ActiveSlots(mem)}
         /\ PrimarySlots' # PrimarySlots => WriteCopy /\ copy = "primary"
<1> USE DEF media
<1>1. CASE disk' = disk
  BY <1>1 DEF PrimarySlots
<1>2. CASE WriteCopy /\ copy = "primary"
  <2>1. \A i \in Index : Primary(i)' = IF i \in LunParts(lun) THEN buf[i] ELSE Primary(i)
    BY <1>2, CopiesExist DEF WriteCopy, CopyWritten, Primary, TypeOK
  <2>2. \A i \in LunParts(lun) : i < idx
    BY <1>2 DEF WriteCopy, WalkInv
  <2>3. CASE utype = "attr" /\ LunOf[BootIndex("a")] = lun
    <3>1. \A s \in Slots : BootIndex(s) \in LunParts(lun)
      BY <2>3, BootIndexType DEF BootTogether, LunParts, Slots
    <3>2. \A s \in Slots : BootAttr(disk'["primary"], s) = BootAttr(mem, s)
      BY <1>2, <2>1, <2>2, <2>3, <3>1 DEF WriteCopy, SlotInv, Buffer, Field, Primary, BootAttr,
                                          LunParts
    <3>3. QED
      BY <1>2, <3>2, SameBootAttrs DEF PrimarySlots
  <2>4. CASE utype = "guid" \/ LunOf[BootIndex("a")] # lun
    <3>1. \A s \in Slots : BootAttr(disk'["primary"], s) = BootAttr(disk["primary"], s)
      <4>1. CASE utype = "guid"
        <5>1. \A i \in Index : Field(Primary(i)', "attr") = Field(Primary(i), "attr")
          BY <4>1, PrimaryStep DEF SlotInv, OtherField
        <5>2. QED
          BY <5>1, BootIndexType DEF Field, Primary, BootAttr
      <4>2. CASE LunOf[BootIndex("a")] # lun
        <5>1. \A s \in Slots : BootIndex(s) \in Index /\ BootIndex(s) \notin LunParts(lun)
          BY <4>2, BootIndexType DEF BootTogether, LunParts, Slots
        <5>2. QED
          BY <2>1, <5>1 DEF Primary, BootAttr
      <4>3. QED
        BY <2>4, <4>1, <4>2
    <3>2. QED
      BY <3>1, SameBootAttrs DEF PrimarySlots
  <2>5. QED
    BY <2>3, <2>4 DEF TypeOK, UpdateTypes
<1>3. CASE WriteCopy /\ copy # "primary"
  <2>1. disk'["primary"] = disk["primary"]
    BY <1>3, CopiesExist DEF WriteCopy, CopyWritten, TypeOK
  <2>2. QED
    BY <2>1 DEF PrimarySlots
<1>4. QED
  BY <1>1, <1>2, <1>3, FlushSteps DEF ReadCopy, WalkGuid, WalkAttr, WalkMismatch, WalkEnds

LEMMA FlushActiveInv ==
  ASSUME TypeOK, WalkInv, SlotInv, ActiveInv, BootTogether, Flush
  PROVE  ActiveInv'
<1>1. /\ UNCHANGED <<mem, partInfo, image, cur, slot, ret>>
      /\ InFlush /\ pc' \in {"read", "walk", "write", ret} /\ ret \in Returns
      /\ Point' = Point /\ Point = ret
  BY FlushQuiet
<1>2. PrimarySlots' \in {PrimarySlots, ActiveSlots(mem)}
  BY FlushActive
<1>3. pc \notin {"off", "start", "idle", "key", "current"} /\ pc' \notin {"off", "start", "idle", "key", "current"}
      /\ ret \notin {"off", "start", "idle", "key", "current"}
  BY <1>1 DEF Returns, InFlush
<1>4. image = "dxe" => PrimarySlots' \in {{}, ActiveSlots(mem)}
  BY <1>1, <1>2 DEF ActiveInv
<1>5. image = "app" => ret \in Late \/ (ret = "target" /\ PrimarySlots' \subseteq {"a"})
  <2>1. ASSUME image = "app", ret = "target"
        PROVE  ActiveSlots(mem) = {"a"}
    BY <1>1, <2>1 DEF SlotInv, Cursor, BakBehind
  <2>2. QED
    BY <1>1, <1>2, <2>1 DEF ActiveInv
<1>6. FirstBoot(partInfo) /\ image = "dxe" =>
        PrimarySlots' \subseteq {"a"} /\ ActiveSlots(mem) \subseteq {"a"}
  BY <1>2, <1>3 DEF ActiveInv
<1>7. QED
  BY <1>1, <1>3, <1>4, <1>5, <1>6 DEF ActiveInv

(* An image that begins no flush and leaves the tables as they are. *)
LEMMA PlainActive ==
  ASSUME TypeOK, SlotInv, ActiveInv, ~InFlush, ~InFlush', pc \notin {"off", "start"},
         UNCHANGED <<disk, mem, partInfo, image>>, pc' \notin {"off", "start", "current"},
         image = "dxe" \/ pc' \notin {"idle", "key"} \/ pc = "current"
  PROVE  ActiveInv'
  BY DEF ActiveInv, PrimarySlots, Point

(* A flush of the driver begins with the slot of the media in memory, and of *)
(* the application with its target.                                          *)
LEMMA CallActive ==
  ASSUME TypeOK, ActiveInv, ~InFlush, pc \notin {"off", "start"},
         UNCHANGED <<disk, partInfo, image>>,
         NEW type, NEW label, UpdatePartitionAttributes(type, mem', label), label \in Returns,
         image = "dxe" => PrimarySlots \in {{}, ActiveSlots(mem')},
         image = "dxe" /\ FirstBoot(partInfo) => ActiveSlots(mem') \subseteq {"a"},
         image = "app" => label \in Late \/ (label = "target" /\ PrimarySlots \subseteq {"a"})
  PROVE  ActiveInv'
<1>1. pc' \in {"read", label} /\ (InFlush' => ret' = label) /\ Point' = label
  BY CallBegins DEF InFlush, Point, Returns
<1>2. pc' \notin {"off", "start", "current", "idle", "key"} /\ label \notin {"off", "start", "current", "idle", "key"}
  BY <1>1 DEF Returns
<1>3. PrimarySlots' = PrimarySlots
  BY DEF PrimarySlots
<1>4. QED
  BY <1>1, <1>2, <1>3 DEF ActiveInv

LEMMA GetActive ==
  ASSUME TypeOK, SlotInv, ActiveInv, GetCurrentSlotSuffix \/ SetActiveSlot
  PROVE  ActiveInv'
<1> USE DEF media, tables
<1>1. /\ pc \in {"current", "set"} /\ ~InFlush /\ Point = pc
      /\ UNCHANGED <<disk, partInfo, image>> /\ mem \in Table
      /\ image \in {"dxe", "app"}
  BY DEF GetCurrentSlotSuffix, SetActiveSlot, InFlush, Point, TypeOK
<1>2. CASE mem' = mem /\ pc' \in {"target", "setattr"}
  BY <1>1, <1>2, PlainActive DEF InFlush
<1>3. ASSUME NEW label, label = (IF pc = "current" THEN "target" ELSE "setattr"),
             FirstBoot(mem), mem' = DefaultSlotA(mem), cur' = "a",
             UpdatePartitionAttributes("attr", mem', label)
      PROVE  ActiveInv'
  <2>1. ActiveSlots(mem) = {} /\ ActiveSlots(mem') = {"a"}
    BY <1>1, <1>3, DefaultSlotAEdit DEF FirstBoot
  <2>2. image = "dxe" => PrimarySlots = {}
    BY <1>1, <2>1, AtRest DEF Early
  <2>3. image = "app" => pc = "current"
    BY <1>1, <2>1 DEF SlotInv, Cursor
  <2>4. image = "app" => PrimarySlots \subseteq {"a"}
    BY <1>1, <1>3, <2>3 DEF ActiveInv
  <2>5. label \in Returns /\ pc \notin {"off", "start"}
    BY <1>1, <1>3 DEF Returns
  <2>6. QED
    BY <1>1, <1>3, <2>1, <2>2, <2>3, <2>4, <2>5, CallActive
<1>4. CASE mem' = mem /\ pc' \in {"idle", "key"}
  <2>1. image = "dxe" \/ pc = "current"
    <3>1. pc = "set" => ActiveSlots(mem) = {}
      BY <1>4 DEF GetCurrentSlotSuffix, SetActiveSlot, GetActiveSlot, Goto, Exit, FirstBoot
    <3>2. QED
      BY <1>1, <3>1 DEF SlotInv, Cursor
  <2>2. QED
    BY <1>1, <1>4, <2>1, PlainActive DEF InFlush
<1>5. QED
  BY <1>2, <1>3, <1>4 DEF GetCurrentSlotSuffix, SetActiveSlot, GetActiveSlot, Goto, Exit

(* The attributes that are flushed before SetActiveSlot is done. *)
LEMMA EditActive ==
  ASSUME TypeOK, SlotInv, ActiveInv, SetSlotAttributes \/ \E s \in Slots : ClearSlot(s)
  PROVE  ActiveInv'
<1> USE DEF media, tables
<1>1. /\ pc \in {"setattr", "clear_a", "clear_b"} /\ ~InFlush /\ Point = pc
      /\ UNCHANGED <<disk, partInfo, image>> /\ mem \in Table /\ slot \in Slots /\ cur \in Slots
      /\ image \in {"dxe", "app"}
  BY DEF SetSlotAttributes, ClearSlot, InFlush, Point, TypeOK
<1>2. image = "dxe" => PrimarySlots = ActiveSlots(mem)
  BY <1>1, AtRest DEF Early
<1>3. image = "dxe" /\ FirstBoot(partInfo) => ActiveSlots(mem) \subseteq {"a"}
  BY <1>1 DEF ActiveInv
<1>4. CASE SetSlotAttributes
  <2> DEFINE label == IF cur = slot THEN "checklun" ELSE "swap"
  <2>1. UpdatePartitionAttributes("attr", mem', label) /\ pc = "setattr" /\ label \in Late
        /\ label \in Returns
    BY <1>4 DEF SetSlotAttributes, Late, Returns
  <2>2. ActiveSlots(mem) = {cur} /\ (image = "dxe" => slot = cur)
    BY <1>1, <2>1 DEF SlotInv, Cursor
  <2>3. ActiveSlots(mem') = {slot}
    <3>1. PICK reset \in BOOLEAN, set \in BOOLEAN : mem' = SlotActivated(mem, slot, reset, set)
      BY <1>4 DEF SetSlotAttributes
    <3> DEFINE new == SlotActivated(mem, slot, reset, set)
    <3>2. ActiveSlots(new) = {slot}
      <4>1. /\ BootAttr(new, slot).active /\ BootAttr(new, slot).priority = MAX_PRIORITY
            /\ ~BootAttr(new, Other(slot)).active
        BY <1>1, SlotActivatedEdit
      <4> HIDE DEF new
      <4>2. QED
        BY <1>1, <4>1, TheActive
    <3> HIDE DEF new
    <3>3. mem' = new
      BY <3>1 DEF new
    <3>4. QED
      BY <3>2, <3>3
  <2>4. image = "dxe" => PrimarySlots = ActiveSlots(mem') /\ ActiveSlots(mem') = ActiveSlots(mem)
    BY <1>2, <2>2, <2>3
  <2> HIDE DEF label
  <2>5. QED
    BY <1>1, <1>3, <2>1, <2>4, CallActive
<1>5. ASSUME NEW s \in Slots, ClearSlot(s)
      PROVE  ActiveInv'
  <2> DEFINE next == IF s = "a" THEN "clear_b" ELSE "set"
  <2>1. image = "dxe" /\ pc \in {"clear_a", "clear_b"} /\ next \in {"clear_b", "set"}
    BY <1>1, <1>5 DEF ClearSlot, SlotInv, Cursor
  <2>2. CASE mem' = mem /\ pc' = next
    BY <1>1, <2>1, <2>2, PlainActive DEF InFlush
  <2>3. CASE mem' = ClearUnbootable(mem, s) /\ UpdatePartitionAttributes("attr", mem', next)
    <3>1. ActiveSlots(mem') = ActiveSlots(mem)
      BY <1>1, <2>3, ClearUnbootableEdit
    <3>2. next \in Returns
      BY <2>1 DEF Returns
    <3> HIDE DEF next
    <3>3. QED
      BY <1>1, <1>2, <1>3, <2>1, <2>3, <3>1, <3>2, CallActive
  <2>4. QED
    BY <1>5, <2>2, <2>3 DEF ClearSlot, Goto
<1>6. QED
  BY <1>4, <1>5

LEMMA ImageActive ==
  ASSUME TypeOK, SlotInv, ActiveInv, Image
  PROVE  ActiveInv'
<1> USE DEF media, tables
<1>1. CASE Start
  <2>1. /\ pc = "start" /\ pc' = "current" /\ mem' = partInfo
        /\ UNCHANGED <<disk, partInfo, image>> /\ ~InFlush /\ ~InFlush'
    BY <1>1 DEF Start, Goto, InFlush
  <2>2. FirstBoot(partInfo) => ActiveSlots(partInfo) = {}
    BY DEF FirstBoot
  <2>3. QED
    BY <2>1, <2>2 DEF ActiveInv, PrimarySlots, Point
<1>2. CASE ChooseSlot \/ CheckBootLun \/ DxeReturns
  <2>1. /\ ~InFlush /\ ~InFlush' /\ pc \notin {"off", "start"} /\ pc' \notin {"off", "start", "current"}
        /\ UNCHANGED <<disk, mem, partInfo, image>> /\ (pc' \in {"idle", "key"} => image = "dxe")
    BY <1>2 DEF ChooseSlot, CheckBootLun, DxeReturns, Goto, InFlush
  <2>2. QED
    BY <2>1, PlainActive
<1>3. CASE SwapGuids
  <2>1. /\ pc = "swap" /\ pc' = "setlun" /\ UNCHANGED <<disk, partInfo, image>>
        /\ image = "app" /\ ~InFlush /\ ~InFlush'
    BY <1>3 DEF SwapGuids, Goto, SlotInv, Cursor, Point, InFlush
  <2>2. QED
    BY <2>1 DEF ActiveInv, PrimarySlots, Point
<1>4. CASE SetBootLun \/ MarkActive \/ AppUpdatesGuids \/ AppUpdatesAttributes
  <2>1. /\ pc \in {"setlun", "mark", "done", "attrs"} /\ ~InFlush /\ image = "app"
        /\ UNCHANGED <<disk, partInfo, image>>
    BY <1>4 DEF SetBootLun, MarkActive, AppUpdatesGuids, AppUpdatesAttributes, InFlush, Point,
                SlotInv, Cursor
  <2>2. PICK type \in UpdateTypes, label \in {"mark", "done", "attrs", "reset"} :
          UpdatePartitionAttributes(type, mem', label)
    BY <1>4 DEF SetBootLun, MarkActive, AppUpdatesGuids, AppUpdatesAttributes, UpdateTypes,
                UpdatePartitionAttributes
  <2>3. label \in Late /\ label \in Returns
    BY DEF Late, Returns
  <2>4. QED
    BY <2>1, <2>2, <2>3, CallActive
<1>5. CASE ResetSystem
  BY <1>5 DEF ResetSystem, PowerOff, ActiveInv, InFlush
<1>6. QED
  BY <1>1, <1>2, <1>3, <1>4, <1>5, GetActive, EditActive DEF Image

LEMMA ActiveStep ==
  ASSUME MaxFaults = 0, BootTogether, TypeOK, WalkInv, SlotInv, ActiveInv, [Next]_vars
  PROVE  ActiveInv'
<1> USE DEF media, tables
<1>1. CASE Crash \/ CrashInWrite \/ Reboot
  BY <1>1 DEF Crash, CrashInWrite, Reboot, PowerOff, ActiveInv, InFlush
<1>2. CASE PressKey \/ RunApp
  <2>1. /\ UNCHANGED <<disk, mem, partInfo>>
        /\ \/ pc = "idle" /\ pc' = "start" /\ image' = "app"
           \/ pc = "key" /\ pc' = "idle" /\ image' = image
    BY <1>2 DEF PressKey, RunApp, Goto
  <2>2. QED
    BY <2>1 DEF ActiveInv, InFlush, PrimarySlots, Point
<1>3. CASE Connect
  <2>1. pc' = "start" /\ partInfo' = disk'["primary"]
    BY <1>3 DEF Connect
  <2>2. QED
    BY <2>1 DEF ActiveInv, InFlush, PrimarySlots, FirstBoot
<1>4. ASSUME NEW s \in Slots, LoaderMarksUnbootable(s)
      PROVE  ActiveInv'
  BY <1>4 DEF LoaderMarksUnbootable, ActiveInv, InFlush
<1>5. CASE UNCHANGED vars
  BY <1>5 DEF vars, flush, ActiveInv, InFlush, PrimarySlots, Point
<1>6. QED
  BY <1>1, <1>2, <1>3, <1>4, <1>5, FlushActiveInv, ImageActive, Steps DEF User, External

-----------------------------------------------------------------------------
(* The slot of the next boot *)

NextSlots == ActiveSlots(NextBootTable)

(* Power is lost for the first time: the next boot reads what the last one   *)
(* would have read, from the backup where the primary is torn.               *)
LEMMA TornIsUndone ==
  ASSUME MaxCrashes <= 1, TypeOK, CopyInv, MirrorInv, CrashInWrite
  PROVE  NextBootTable' = NextBootTable
<1>1. crashes = 0 /\ pc = "write"
  BY BootSlotAssumption DEF CrashInWrite, TypeOK
<1>2. PICK cut \in LunParts(lun) \union {0} :
        /\ disk' = CopyWritten({i \in LunParts(lun) : i <= cut})
        /\ crcOk' = [crcOk EXCEPT ![copy][lun] = FALSE]
  BY DEF CrashInWrite, Torn
<1>3. ASSUME NEW i \in Index
      PROVE  RestoredDisk'["primary"][i] = Primary(i)
  <2>1. /\ RestoredDisk'["primary"][i] =
             IF Readable("primary", i)' THEN disk'["primary"][i] ELSE disk'["backup"][i]
    BY CopiesExist DEF RestoredDisk
  <2>2. Readable("primary", i)
    BY <1>1, CopiesExist DEF CopyInv, ValidWhenOn, Readable, Luns
  <2>3. CASE copy = "primary" /\ i \in LunParts(lun)
    <3>1. ~Readable("primary", i)'
      BY <1>2, <2>3 DEF Readable, TypeOK, LunParts, Luns
    <3>2. disk'["backup"][i] = Backup(i)
      BY <1>2, <2>3, CopiesExist DEF CopyWritten, Backup, TypeOK
    <3>3. Backup(i) = Primary(i)
      BY <1>1, <2>3 DEF MirrorInv, Mirror, Catching
    <3>4. QED
      BY <2>1, <3>1, <3>2, <3>3
  <2>4. CASE copy # "primary" \/ i \notin LunParts(lun)
    <3>1. Readable("primary", i)'
      BY <1>2, <2>2, <2>4, CopiesExist DEF Readable, TypeOK, LunParts, Luns
    <3>2. disk'["primary"][i] = Primary(i)
      BY <1>2, <2>4, CopiesExist DEF CopyWritten, Primary, TypeOK
    <3>3. QED
      BY <2>1, <3>1, <3>2
  <2>5. QED
    BY <2>3, <2>4
<1>4. RestoredDisk'["primary"] = [i \in Index |-> RestoredDisk'["primary"][i]]
  BY CopiesExist DEF RestoredDisk
<1>5. disk["primary"] = [i \in Index |-> Primary(i)]
  BY CopiesExist DEF TypeOK, Table, Primary
<1>6. NextBootTable = disk["primary"]
  BY <1>1, NextBootReads
<1>7. QED
  BY <1>3, <1>4, <1>5, <1>6 DEF NextBootTable

(* The loader's mark is not among the bits GetActiveSlot looks at. *)
LEMMA MarkUnbootable ==
  ASSUME TypeOK, NEW s \in Slots, LoaderMarksUnbootable(s), NEW c \in Copies, NEW i \in Index
  PROVE  /\ disk'[c][i].attr.active = disk[c][i].attr.active
         /\ disk'[c][i].attr.priority = disk[c][i].attr.priority
         /\ disk'[c][i].guid = disk[c][i].guid
<1> DEFINE attr == [BootAttr(disk[c], s) EXCEPT !.unbootable = TRUE, !.successful = FALSE]
<1>1. disk'[c] = SetAttr(disk[c], s, attr) /\ disk[c] \in Table
  BY DEF LoaderMarksUnbootable, TypeOK
<1>2. BootAttr(disk[c], s) \in Attr
  BY <1>1, BootAttrType
<1>3. attr.active = BootAttr(disk[c], s).active /\ attr.priority = BootAttr(disk[c], s).priority
  BY <1>2 DEF Attr
<1> HIDE DEF attr
<1>4. disk'[c][i].guid = disk[c][i].guid
  BY <1>1, SetAttrGuids DEF SameGuids
<1>5. CASE i = BootIndex(s)
  BY <1>1, <1>3, <1>4, <1>5, SetAttrEntries DEF BootAttr
<1>6. CASE i # BootIndex(s)
  BY <1>1, <1>4, <1>6, SetAttrEntries
<1>7. QED
  BY <1>5, <1>6

(* Neither the partition driver nor the loader changes what it chooses by:   *)
(* the driver restores what was to be read anyway.                           *)
LEMMA OutsideKeeps ==
  ASSUME TypeOK, External
  PROVE  NextSlots' = NextSlots /\ SameGuids(NextBootTable, NextBootTable')
<1>1. CASE Connect
  <2>1. /\ disk' = RestoredDisk /\ crcOk' = [c \in Copies |-> [l \in Luns |-> TRUE]]
    BY <1>1 DEF Connect
  <2>2. \A i \in Index : Readable("primary", i)'
    BY <2>1, CopiesExist DEF Readable, Luns
  <2>3. RestoredDisk'["primary"] = [i \in Index |-> RestoredDisk["primary"][i]]
    BY <2>1, <2>2, CopiesExist DEF RestoredDisk
  <2>4. RestoredDisk'["primary"] = RestoredDisk["primary"]
    BY <2>3, CopiesExist DEF RestoredDisk
  <2>5. QED
    BY <2>4 DEF NextSlots, NextBootTable, SameGuids
<1>2. ASSUME NEW s \in Slots, LoaderMarksUnbootable(s)
      PROVE  NextSlots' = NextSlots /\ SameGuids(NextBootTable, NextBootTable')
  <2>1. \A i \in Index : Readable("primary", i)' = Readable("primary", i)
    BY <1>2 DEF LoaderMarksUnbootable, Readable
  <2>2. \A c \in Copies, i \in Index :
          /\ disk'[c][i].attr.active = disk[c][i].attr.active
          /\ disk'[c][i].attr.priority = disk[c][i].attr.priority
          /\ disk'[c][i].guid = disk[c][i].guid
    BY <1>2, MarkUnbootable
  <2>3. \A i \in Index : /\ NextBootTable'[i].attr.active = NextBootTable[i].attr.active
                         /\ NextBootTable'[i].attr.priority = NextBootTable[i].attr.priority
                         /\ NextBootTable'[i].guid = NextBootTable[i].guid
    BY <2>1, <2>2, CopiesExist DEF NextBootTable, RestoredDisk
  <2>4. \A r \in Slots : /\ BootAttr(NextBootTable', r).active = BootAttr(NextBootTable, r).active
                         /\ BootAttr(NextBootTable', r).priority = BootAttr(NextBootTable, r).priority
    BY <2>3, BootIndexType DEF BootAttr
  <2>5. QED
    BY <2>3, <2>4, SameActive DEF NextSlots, SameGuids
<1>3. QED
  BY <1>1, <1>2 DEF External

(* The next boot reads a table, whatever was torn. *)
LEMMA NextTable ==
  ASSUME TypeOK
  PROVE  NextBootTable \in Table
  BY CopiesExist DEF TypeOK, NextBootTable, RestoredDisk, Table

(* While an image runs the next boot would read the primaries. *)
LEMMA FlushReads ==
  ASSUME TypeOK, CopyInv, WalkInv, Flush
  PROVE  NextBootTable = disk["primary"] /\ NextBootTable' = disk'["primary"]
<1>1. pc # "off" /\ pc' # "off"
  BY FlushQuiet DEF InFlush, Returns
<1>2. CopyInv' /\ TypeOK'
  BY <1>1, FlushCopies, FlushStepType
<1>3. NextBootTable = disk["primary"]
  BY <1>1, NextBootReads
<1>4. \A i \in Index : Readable("primary", i)'
  BY <1>1, <1>2, CopiesExist DEF CopyInv, ValidWhenOn, Readable, Luns
<1>5. NextBootTable' = [i \in Index |-> disk'["primary"][i]]
  BY <1>4, CopiesExist DEF NextBootTable, RestoredDisk
<1>6. disk'["primary"] \in [Index -> Entry]
  BY <1>2, CopiesExist DEF TypeOK, Table
<1>7. QED
  BY <1>3, <1>5, <1>6

(* What a step may do to the slot of the next boot. *)
LEMMA NextSlotStep ==
  ASSUME MaxFaults = 0, MaxCrashes <= 1, BootTogether, TypeOK, CopyInv, WalkInv, SlotInv,
         MirrorInv, ActiveInv, [Next]_vars
  PROVE  \/ NextSlots' = NextSlots
         \/ NextSlots = {} /\ WriteCopy
         \/ image = "app" /\ copy = "primary" /\ WriteCopy /\ NextSlots' = {slot}
<1> USE DEF media, tables
<1>1. ASSUME UNCHANGED <<disk, crcOk>>
      PROVE  NextSlots' = NextSlots
  BY <1>1 DEF NextSlots, NextBootTable, RestoredDisk, Readable
<1>2. CASE Flush
  <2>1. NextBootTable = disk["primary"] /\ NextBootTable' = disk'["primary"]
    BY <1>2, FlushReads
  <2>2. NextSlots = PrimarySlots /\ NextSlots' = PrimarySlots'
    BY <2>1 DEF NextSlots, PrimarySlots
  <2>3. /\ PrimarySlots' \in {PrimarySlots, ActiveSlots(mem)}
        /\ PrimarySlots' # PrimarySlots => WriteCopy /\ copy = "primary"
    BY <1>2, FlushActive
  <2>4. InFlush /\ Point = ret /\ UNCHANGED mem
    BY <1>2, FlushQuiet
  <2>5. CASE image = "dxe"
    BY <2>2, <2>3, <2>4, <2>5 DEF ActiveInv
  <2>6. CASE image = "app" /\ ret = "target"
    <3>1. PrimarySlots \subseteq {"a"} /\ ActiveSlots(mem) = {"a"}
      BY <2>4, <2>6 DEF ActiveInv, SlotInv, Cursor, BakBehind, Late
    <3>2. QED
      BY <2>2, <2>3, <3>1
  <2>7. CASE image = "app" /\ ret \in Late
    <3>1. ActiveSlots(mem) = {slot}
      BY <2>4, <2>7, TheActive DEF SlotInv, Cursor, TypeOK
    <3>2. QED
      BY <2>2, <2>3, <2>7, <3>1
  <2>8. QED
    BY <2>4, <2>5, <2>6, <2>7 DEF ActiveInv, TypeOK
<1>3. CASE Image
  BY <1>1, <1>3, ImageSteps
<1>4. CASE Crash \/ User \/ UNCHANGED vars
  BY <1>1, <1>4 DEF Crash, User, PressKey, RunApp, Reboot, vars
<1>5. CASE CrashInWrite
  BY <1>5, TornIsUndone DEF NextSlots
<1>6. CASE External
  BY <1>6, OutsideKeeps
<1>7. QED
  BY <1>2, <1>3, <1>4, <1>5, <1>6, Steps

LEMMA NextSlotInvariance ==
  MaxFaults = 0 /\ BootTogether =>
    (Spec => [](TypeOK /\ CopyInv /\ WalkInv /\ SlotInv /\ MirrorInv /\ ActiveInv))
<1>1. SUFFICES ASSUME MaxFaults = 0, BootTogether
               PROVE  Spec => [](TypeOK /\ CopyInv /\ WalkInv /\ SlotInv /\ MirrorInv /\ ActiveInv)
  OBVIOUS
<1>2. Init => MirrorInv /\ ActiveInv
  <2>1. Init => ActiveInv
    BY DEF Init, ActiveInv, InFlush
  <2>2. QED
    BY <2>1, InitMirror
<1>3. TypeOK /\ WalkInv /\ SlotInv /\ MirrorInv /\ ActiveInv /\ [Next]_vars => MirrorInv' /\ ActiveInv'
  BY <1>1, MirrorStep, ActiveStep
<1>4. Spec => [](TypeOK /\ CopyInv /\ WalkInv /\ SlotInv)
  BY <1>1, SlotInvariance
<1>5. QED
  BY <1>2, <1>3, <1>4, PTL DEF Spec

(* Wherever power is lost once, and whatever the tables are: the slot of the *)
(* next boot changes only when SwitchSlotsApp writes a primary that makes    *)
(* its target the active one (UpdatePartitionAttributes called from          *)
(* SetActiveSlot), or when there was none.                                   *)
THEOREM AppSwitches ==
  MaxFaults = 0 /\ MaxCrashes <= 1 /\ BootTogether => (Spec => OnlyTheAppSwitches)
<1>1. SUFFICES ASSUME MaxFaults = 0, MaxCrashes <= 1, BootTogether
               PROVE  Spec => OnlyTheAppSwitches
  OBVIOUS
<1>2. TypeOK /\ CopyInv /\ WalkInv /\ SlotInv /\ MirrorInv /\ ActiveInv /\ [Next]_vars =>
        [\/ ActiveSlots(NextBootTable) = {}
         \/ ActiveSlots(NextBootTable)' = ActiveSlots(NextBootTable)
         \/ /\ image = "app" /\ copy = "primary" /\ WriteCopy
            /\ ActiveSlots(NextBootTable)' = {slot}]_vars
  BY <1>1, NextSlotStep DEF NextSlots
<1>3. Spec => [](TypeOK /\ CopyInv /\ WalkInv /\ SlotInv /\ MirrorInv /\ ActiveInv)
  BY <1>1, NextSlotInvariance
<1>4. QED
  BY <1>2, <1>3, PTL DEF Spec, OnlyTheAppSwitches

(* ... and there never is a moment at which a power loss would leave a       *)
(* device that had an active slot without one.                               *)
THEOREM NeverSlotless ==
  MaxFaults = 0 /\ MaxCrashes <= 1 /\ BootTogether => (Spec => NeverWithoutSlot)
<1>1. SUFFICES ASSUME MaxFaults = 0, MaxCrashes <= 1, BootTogether
               PROVE  Spec => NeverWithoutSlot
  OBVIOUS
<1>2. TypeOK /\ CopyInv /\ WalkInv /\ SlotInv /\ MirrorInv /\ ActiveInv /\ [Next]_vars =>
        [ActiveSlots(NextBootTable) # {} => ActiveSlots(NextBootTable)' # {}]_vars
  BY <1>1, NextSlotStep DEF NextSlots
<1>3. Spec => [](TypeOK /\ CopyInv /\ WalkInv /\ SlotInv /\ MirrorInv /\ ActiveInv)
  BY <1>1, NextSlotInvariance
<1>4. QED
  BY <1>2, <1>3, PTL DEF Spec, NeverWithoutSlot

-----------------------------------------------------------------------------
(* What the application takes for the current slot *)

(* PrimarySlots of the run, although the application works with what the     *)
(* partition driver read before BootSlotDxe began.                           *)
KnownInv ==
  /\ pc # "off" /\ (image = "dxe" \/ Point \in {"start", "idle", "key", "current"}) =>
       ActiveSlots(partInfo) \in {{}, PrimarySlots}
  /\ InFlush /\ image = "dxe" /\ PrimarySlots = {} => ActiveSlots(mem) \subseteq {"a"}
  /\ image = "app" /\ pc \in {"target", "set", "setattr"} => PrimarySlots = {cur}
  /\ Point = "swap" => PrimarySlots \in {{slot}, {Other(slot)}}
  /\ image = "app" /\ Point \in {"setlun", "mark", "done", "attrs", "reset"} =>
       PrimarySlots = {slot}

(* When a flush is done the primaries have what is in memory. *)
LEMMA FlushEnds ==
  ASSUME TypeOK, WalkInv, SlotInv, Flush, ~InFlush'
  PROVE  PrimarySlots' = ActiveSlots(mem)
<1>1. (WalkEnds /\ ~dirty) \/ WriteCopy
  BY FlushSteps DEF ReadCopy, WalkGuid, WalkAttr, WalkMismatch, WalkEnds, Goto, InFlush
<1>2. Left /\ ret \in Returns /\ NextCopy
  BY <1>1, CopyLeft, FlushQuiet DEF SlotInv, WalkEnds, WriteCopy
<1>3. \A l \in Luns : l <= lun
  <2>1. lun \in Nat /\ \A l \in Luns : l \in Nat
    BY TableAssumption DEF TypeOK, Luns
  <2>2. {l \in Luns : l > lun} = {}
    BY <1>2 DEF NextCopy, NextLun, BeginCopy, InFlush
  <2>3. QED
    BY <2>1, <2>2
<1>4. \A i \in Index : Primary(i)'.attr = mem[i].attr
  <2>1. \A i \in Index : LunOf[i] <= lun
    BY <1>3 DEF Luns
  <2>2. \A i \in Index, f \in UpdateTypes : Field(Primary(i)', f) = Field(mem[i], f)
    BY <1>2, <2>1 DEF Left, TypeOK, UpdateTypes, OtherField
  <2>3. QED
    BY <2>2 DEF UpdateTypes, Field
<1>5. \A s \in Slots : BootAttr(disk'["primary"], s) = BootAttr(mem, s)
  BY <1>4, BootIndexType DEF Primary, BootAttr
<1>6. QED
  BY <1>5, SameBootAttrs DEF PrimarySlots

(* From the swap on the media names the slot that was asked for. *)
LEMMA LateSlot ==
  ASSUME TypeOK, SlotInv, pc \in Late
  PROVE  PrimarySlots = {slot}
<1>1. \A s \in Slots : BootAttr(disk["primary"], s) = BootAttr(mem, s)
  BY BootIndexType DEF SlotInv, Rest, Primary, BootAttr
<1>2. ActiveSlots(mem) = {slot}
  BY TheActive DEF SlotInv, Cursor, Late, Point, InFlush, TypeOK
<1>3. QED
  BY <1>1, <1>2, SameBootAttrs DEF PrimarySlots

LEMMA FlushKnown ==
  ASSUME TypeOK, WalkInv, SlotInv, ActiveInv, KnownInv, BootTogether, Flush
  PROVE  KnownInv'
<1>1. /\ UNCHANGED <<mem, partInfo, image, cur, slot, ret>>
      /\ InFlush /\ pc' \in {"read", "walk", "write", ret} /\ ret \in Returns
      /\ Point' = Point /\ Point = ret
  BY FlushQuiet
<1>2. PrimarySlots' \in {PrimarySlots, ActiveSlots(mem)}
  BY FlushActive
<1>3. pc # "off" /\ Point \notin {"start", "idle", "key", "current"}
  BY <1>1 DEF Returns, InFlush
<1>4. image = "dxe" => ActiveSlots(partInfo) \in {{}, PrimarySlots'}
  BY <1>1, <1>2, <1>3 DEF KnownInv, ActiveInv
<1>5. image = "dxe" /\ PrimarySlots' = {} => ActiveSlots(mem) \subseteq {"a"}
  BY <1>1, <1>2 DEF KnownInv
<1>6. image = "app" /\ pc' \in {"target", "set", "setattr"} => PrimarySlots' = {cur}
  <2>1. SUFFICES ASSUME image = "app", pc' \in {"target", "set", "setattr"}
                 PROVE  PrimarySlots' = {cur}
    OBVIOUS
  <2>2. ~InFlush' /\ Point = pc'
    BY <1>1, <2>1 DEF InFlush
  <2>3. ActiveSlots(mem) = {cur}
    BY <2>1, <2>2 DEF SlotInv, Cursor
  <2>4. QED
    BY <2>2, <2>3, FlushEnds
<1>7. image = "app" /\ Point \in Late => PrimarySlots' \in {PrimarySlots, {slot}}
  BY <1>2, TheActive DEF SlotInv, Cursor, TypeOK
<1>8. Point = "swap" => PrimarySlots' \in {{slot}, {Other(slot)}}
  BY <1>7 DEF KnownInv, SlotInv, Cursor, Late
<1>9. image = "app" /\ Point \in {"setlun", "mark", "done", "attrs", "reset"} =>
        PrimarySlots' = {slot}
  BY <1>7 DEF KnownInv, Late
<1>10. QED
  BY <1>1, <1>3, <1>4, <1>5, <1>6, <1>8, <1>9 DEF KnownInv

LEMMA ImageKnown ==
  ASSUME TypeOK, SlotInv, ActiveInv, KnownInv, Image
  PROVE  KnownInv'
<1> USE DEF media, tables
<1>1. /\ UNCHANGED disk /\ ~InFlush /\ pc # "off" /\ PrimarySlots' = PrimarySlots
      /\ mem \in Table /\ image \in {"dxe", "app"} /\ cur \in Slots /\ slot \in Slots
  BY ImageSteps DEF PrimarySlots, TypeOK
<1>2. CASE Start \/ ResetSystem
  BY <1>1, <1>2 DEF Start, ResetSystem, PowerOff, Goto, KnownInv, Point, InFlush
<1>3. CASE ChooseSlot \/ CheckBootLun \/ DxeReturns
  <2>1. /\ UNCHANGED <<partInfo, image, cur>> /\ pc' = Point' /\ ~InFlush' /\ pc = Point
        /\ \/ pc = "target" /\ pc' \in {"clear_a", "set"}
           \/ image = "dxe" /\ pc' \in {"done", "idle"}
    BY <1>3 DEF ChooseSlot, CheckBootLun, DxeReturns, Goto, Point, InFlush, SlotInv, Cursor
  <2>2. QED
    BY <1>1, <2>1 DEF KnownInv
<1>4. CASE GetCurrentSlotSuffix
  <2>1. pc = "current" /\ Point = "current" /\ UNCHANGED <<partInfo, image, bak>>
        /\ mem = partInfo /\ ActiveSlots(mem) \in {{}, PrimarySlots}
    BY <1>4 DEF GetCurrentSlotSuffix, Point, InFlush, ActiveInv, KnownInv
  <2>2. ASSUME NEW s \in ActiveSlots(mem), cur' = s, Goto("target")
        PROVE  KnownInv'
    <3>1. PrimarySlots = {cur'} /\ pc' = "target" /\ Point' = "target" /\ ~InFlush'
      BY <1>1, <2>1, <2>2, OneActive DEF Goto, Point, InFlush
    <3>2. QED
      BY <1>1, <2>1, <3>1 DEF KnownInv
  <2>3. ASSUME FirstBoot(mem), mem' = DefaultSlotA(mem),
               UpdatePartitionAttributes("attr", mem', "target")
        PROVE  KnownInv'
    <3>1. ActiveSlots(mem) = {} /\ ActiveSlots(mem') = {"a"}
      BY <1>1, <2>3, DefaultSlotAEdit DEF FirstBoot
    <3>2. image = "app" => bak = mem
      BY <2>1 DEF SlotInv, BakBehind
    <3>3. pc' \in {"read", "target"} /\ Point' = "target" /\ (image = "app" => pc' = "read")
      BY <2>3, <3>1, <3>2, CallBegins DEF Point, InFlush
    <3>4. QED
      BY <1>1, <2>1, <3>1, <3>3 DEF KnownInv
  <2>4. CASE pc' \in {"idle", "key"} \/ (image = "dxe" /\ pc' = "target")
    BY <1>1, <2>1, <2>4 DEF KnownInv, Point, InFlush
  <2>5. QED
    BY <1>4, <2>2, <2>3, <2>4 DEF GetCurrentSlotSuffix, GetActiveSlot, Goto, Exit
<1>5. CASE SetActiveSlot
  <2>1. pc = "set" /\ Point = "set" /\ UNCHANGED <<partInfo, image>>
        /\ \/ ActiveSlots(mem) = {cur}
           \/ image = "dxe" /\ ActiveSlots(mem) = {}
    BY <1>5 DEF SetActiveSlot, Point, InFlush, SlotInv, Cursor
  <2>2. ASSUME NEW s \in ActiveSlots(mem), cur' = s, Goto("setattr")
        PROVE  KnownInv'
    <3>1. cur' = cur /\ pc' = "setattr" /\ Point' = "setattr" /\ ~InFlush'
      BY <2>1, <2>2 DEF Goto, Point, InFlush
    <3>2. QED
      BY <1>1, <2>1, <3>1 DEF KnownInv
  <2>3. ASSUME FirstBoot(mem), mem' = DefaultSlotA(mem),
               UpdatePartitionAttributes("attr", mem', "setattr")
        PROVE  KnownInv'
    <3>1. ActiveSlots(mem) = {} /\ ActiveSlots(mem') = {"a"}
      BY <1>1, <2>3, DefaultSlotAEdit DEF FirstBoot
    <3>2. pc' \in {"read", "setattr"} /\ Point' = "setattr" /\ image = "dxe"
      BY <2>1, <2>3, <3>1, CallBegins DEF Point, InFlush
    <3>3. QED
      BY <1>1, <2>1, <3>1, <3>2 DEF KnownInv
  <2>4. CASE pc' \in {"idle", "key"} /\ ActiveSlots(mem) = {}
    BY <1>1, <2>1, <2>4 DEF KnownInv, Point, InFlush
  <2>5. QED
    BY <1>5, <2>2, <2>3, <2>4 DEF SetActiveSlot, GetActiveSlot, Goto, Exit
<1>6. ASSUME NEW s \in Slots, ClearSlot(s)
      PROVE  KnownInv'
  <2>1. /\ pc \in {"clear_a", "clear_b"} /\ image = "dxe" /\ UNCHANGED <<partInfo, image>>
    BY <1>6 DEF ClearSlot, SlotInv, Cursor, Point, InFlush
  <2>2. PrimarySlots = ActiveSlots(mem)
    BY <2>1, AtRest DEF Early
  <2>3. ActiveSlots(mem') = ActiveSlots(mem)
    BY <1>1, <1>6, ClearUnbootableEdit DEF ClearSlot
  <2>4. Point' \in {"clear_b", "set"}
    BY <1>6, CallBegins DEF ClearSlot, Goto, Point, InFlush
  <2>5. QED
    BY <1>1, <2>1, <2>2, <2>3, <2>4 DEF KnownInv, Point
<1>7. CASE SetSlotAttributes
  <2>1. /\ pc = "setattr" /\ Point = "setattr" /\ UNCHANGED <<partInfo, image, cur, slot>>
        /\ ActiveSlots(mem) = {cur} /\ slot = (IF image = "dxe" THEN cur ELSE Other(cur))
    BY <1>7 DEF SetSlotAttributes, Point, InFlush, SlotInv, Cursor
  <2>2. Point' = (IF cur = slot THEN "checklun" ELSE "swap") /\ pc' \in {"read", Point'}
    BY <1>7, CallBegins DEF SetSlotAttributes, Point, InFlush
  <2>3. CASE image = "dxe"
    <3>1. PrimarySlots = {cur}
      BY <2>1, <2>3, AtRest DEF Early
    <3>2. QED
      BY <1>1, <2>1, <2>2, <2>3, <3>1 DEF KnownInv
  <2>4. CASE image = "app"
    <3>1. PrimarySlots = {Other(slot)} /\ slot # cur
      BY <1>1, <2>1, <2>4 DEF KnownInv, Other, Slots
    <3>2. QED
      BY <1>1, <2>1, <2>2, <2>4, <3>1 DEF KnownInv
  <2>5. QED
    BY <1>1, <2>3, <2>4
<1>8. CASE SwapGuids \/ SetBootLun \/ MarkActive \/ AppUpdatesGuids \/ AppUpdatesAttributes
  <2>1. /\ pc \in {"swap", "setlun", "mark", "done", "attrs"} /\ image = "app"
        /\ UNCHANGED <<image, slot>>
    BY <1>8 DEF SwapGuids, SetBootLun, MarkActive, AppUpdatesGuids, AppUpdatesAttributes, SlotInv,
                Cursor, Point, InFlush
  <2>2. PrimarySlots = {slot}
    BY <2>1, LateSlot DEF Late
  <2>3. Point' \in {"setlun", "mark", "done", "attrs", "reset"} /\ pc' \in {"read", Point'}
    BY <1>8, CallBegins DEF SwapGuids, SetBootLun, MarkActive, AppUpdatesGuids,
                            AppUpdatesAttributes, Goto, Point, InFlush
  <2>4. QED
    BY <1>1, <2>1, <2>2, <2>3 DEF KnownInv
<1>9. QED
  BY <1>2, <1>3, <1>4, <1>5, <1>6, <1>7, <1>8 DEF Image

LEMMA InitKnown == Init => KnownInv
  BY DEF Init, KnownInv, Point, InFlush

LEMMA KnownStep ==
  ASSUME MaxFaults = 0, BootTogether, TypeOK, WalkInv, SlotInv, ActiveInv, KnownInv, [Next]_vars
  PROVE  KnownInv'
<1> USE DEF media, tables
<1>1. CASE Crash \/ CrashInWrite \/ Reboot
  BY <1>1 DEF Crash, CrashInWrite, Reboot, PowerOff, KnownInv, InFlush, Point
<1>2. CASE PressKey \/ RunApp
  <2>1. /\ UNCHANGED <<disk, mem, partInfo, cur, slot>>
        /\ \/ pc = "idle" /\ pc' = "start" /\ image' = "app"
           \/ pc = "key" /\ pc' = "idle" /\ image' = image
    BY <1>2 DEF PressKey, RunApp, Goto
  <2>2. QED
    BY <2>1 DEF KnownInv, InFlush, PrimarySlots, Point
<1>3. CASE Connect
  <2>1. pc' = "start" /\ partInfo' = disk'["primary"] /\ image' = "dxe"
    BY <1>3 DEF Connect
  <2>2. QED
    BY <2>1 DEF KnownInv, InFlush, PrimarySlots, Point
<1>4. ASSUME NEW s \in Slots, LoaderMarksUnbootable(s)
      PROVE  KnownInv'
  BY <1>4 DEF LoaderMarksUnbootable, KnownInv, InFlush, Point
<1>5. CASE UNCHANGED vars
  BY <1>5 DEF vars, flush, KnownInv, InFlush, PrimarySlots, Point
<1>6. QED
  BY <1>1, <1>2, <1>3, <1>4, <1>5, FlushKnown, ImageKnown, Steps DEF User, External

-----------------------------------------------------------------------------
(* The GUIDs of an undisturbed life *)

(* Every slotted partition has its sibling, and so takes part in a switch.   *)
Paired == \A i \in Index : TailOf[i] \in Slots => \E j \in Index : IsPair(i, j)

(* A device is delivered with its GUIDs on the side of its active slot.      *)
Delivered ==
  \A pair \in BootTables :
    pair[2].active => /\ pair[2].priority > 0
                      /\ pair[1].active => pair[1].priority < pair[2].priority

Side(table, s) == \A i \in Index : table[i].guid = ProvisionedGuid(i, s)

Agreed ==
  \E s \in Slots : /\ Side(disk["primary"], s)
                   /\ PrimarySlots = {s} \/ (PrimarySlots = {} /\ s = "a")

SideInv ==
  crashes = 0 =>
    /\ image = "dxe" \/ Point \in {"off", "start", "idle", "key", "current"} => Agreed
    /\ image = "app" /\ Point \in {"target", "set", "setattr"} => Side(mem, cur)
    /\ Point = "swap" => Side(mem, Other(slot))
    /\ image = "app" /\ Point \in {"setlun", "mark", "done", "attrs", "reset"} => Side(mem, slot)

MarkedInv ==
  image = "app" /\ Point \in {"done", "attrs", "reset"} =>
    \A i \in Index : mem[i].attr.active = (TailOf[i] = slot)

(* A swap takes the GUID of an entry to the other side. *)
LEMMA SwapSide ==
  ASSUME PlainNames, Paired, NEW table \in Table, NEW s \in Slots, NEW i \in Index,
         table[Partner(i, Index)].guid = ProvisionedGuid(Partner(i, Index), s)
  PROVE  SwapPtnGuids(table, Index)[i].guid = ProvisionedGuid(i, Other(s))
<1>1. SwapPtnGuids(table, Index)[i].guid = table[Partner(i, Index)].guid
  BY DEF SwapPtnGuids, Table, Entry
<1>2. CASE TailOf[i] \in Slots
  <2>1. PICK j \in Index : IsPair(i, j)
    BY <1>2 DEF Paired
  <2>2. Partner(i, Index) = j /\ BaseOf[j] = BaseOf[i]
    BY <2>1, PairFacts
  <2>3. PICK t \in Slots : ContainsSuffix(i, t) /\ ContainsSuffix(j, Other(t))
    BY <2>1 DEF IsPair, Pairs, SwapPartners, IsLastMatch, StartsWith
  <2>4. TailOf[i] = t /\ TailOf[j] = Other(t)
    BY <2>3 DEF ContainsSuffix, PlainNames, Slots, Other
  <2>5. QED
    BY <1>1, <2>2, <2>4 DEF ProvisionedGuid, Slots, Other
<1>3. CASE TailOf[i] \notin Slots
  <2>1. SwapPartners(i, Index) = {}
    <3>1. SUFFICES ASSUME NEW j \in SwapPartners(i, Index)
                   PROVE  FALSE
      OBVIOUS
    <3>2. PICK t \in Slots : ContainsSuffix(i, t)
      BY DEF SwapPartners, IsLastMatch, StartsWith
    <3>3. QED
      BY <1>3, <3>2 DEF ContainsSuffix, PlainNames, Slots
  <2>2. Partner(i, Index) = i
    BY <2>1 DEF Partner
  <2>3. QED
    BY <1>1, <1>3, <2>2, OtherType DEF ProvisionedGuid
<1>4. QED
  BY <1>2, <1>3

LEMMA SwapSides ==
  ASSUME PlainNames, Paired, NEW table \in Table, NEW s \in Slots, Side(table, s)
  PROVE  Side(SwapPtnGuids(table, Index), Other(s))
  BY SwapSide, PartnerType DEF Side

LEMMA SameSide ==
  ASSUME NEW t, NEW u, NEW s, SameGuids(t, u), Side(t, s)
  PROVE  Side(u, s)
  BY DEF SameGuids, Side

(* A delivered table has its GUIDs on the side of its slot, which is the     *)
(* active one unless none is.                                                *)
LEMMA DeliveredTable ==
  ASSUME Delivered, NEW pair \in BootTables, NEW s \in Slots,
         pair[2].active => s = "b", ~pair[2].active => s = "a"
  PROVE  /\ Side(ProvisionedTable(pair, s), s)
         /\ \/ ActiveSlots(ProvisionedTable(pair, s)) = {s}
            \/ ActiveSlots(ProvisionedTable(pair, s)) = {} /\ s = "a"
<1> DEFINE table == ProvisionedTable(pair, s)
<1>1. Side(table, s)
  BY DEF Side, ProvisionedTable
<1>2. BootAttr(table, "a") = pair[1] /\ BootAttr(table, "b") = pair[2]
  BY BootIndexType, BootDiffer DEF BootAttr, ProvisionedTable, Slots
<1>3. pair[1].priority \in Nat /\ pair[2].priority \in Nat
      /\ pair[1].active \in BOOLEAN /\ pair[2].active \in BOOLEAN
  BY BootSlotAssumption DEF Attr, MAX_PRIORITY
<1> HIDE DEF table
<1>4. ActiveSlots(table) \subseteq {"a", "b"}
  BY DEF ActiveSlots, Slots
<1>5. CASE pair[2].active
  <2>1. /\ s = "b" /\ pair[2].priority > 0
        /\ pair[1].active => pair[1].priority < pair[2].priority
    BY <1>5 DEF Delivered
  <2>2. "b" \in ActiveSlots(table)
    BY <1>2, <1>3, <1>5, <2>1 DEF Candidate, ActiveSlots, Other, Slots
  <2>3. "a" \notin ActiveSlots(table)
    BY <1>2, <1>3, <2>1, <2>2 DEF Candidate, ActiveSlots, Other, Slots
  <2>4. QED
    BY <1>1, <1>4, <2>1, <2>2, <2>3 DEF table
<1>6. CASE ~pair[2].active
  <2>1. s = "a" /\ "b" \notin ActiveSlots(table)
    BY <1>2, <1>6 DEF Candidate, ActiveSlots
  <2>2. QED
    BY <1>1, <1>4, <2>1 DEF table
<1>7. QED
  BY <1>3, <1>5, <1>6

LEMMA InitSide ==
  ASSUME Delivered, Init
  PROVE  SideInv
<1>1. PICK pair \in BootTables, s \in Slots :
        /\ pair[2].active => s = "b"
        /\ ~pair[2].active => s = "a"
        /\ disk = [c \in Copies |-> ProvisionedTable(pair, s)]
  BY DEF Init
<1>2. disk["primary"] = ProvisionedTable(pair, s)
  BY <1>1, CopiesExist
<1>3. Agreed
  BY <1>1, <1>2, DeliveredTable DEF Agreed, PrimarySlots
<1>4. pc = "off" /\ image = "dxe"
  BY DEF Init
<1>5. QED
  BY <1>3, <1>4 DEF SideInv, Point, InFlush

LEMMA FlushSide ==
  ASSUME TypeOK, WalkInv, SlotInv, ActiveInv, KnownInv, SideInv, BootTogether, Flush
  PROVE  SideInv'
<1>1. /\ UNCHANGED <<mem, partInfo, image, cur, slot, ret>>
      /\ InFlush /\ pc' \in {"read", "walk", "write", ret} /\ ret \in Returns
      /\ Point' = Point /\ Point = ret
  BY FlushQuiet
<1>2. crashes' = crashes
  BY FlushSteps DEF ReadCopy, WalkGuid, WalkAttr, WalkMismatch, WalkEnds, WriteCopy, budget
<1>3. SUFFICES ASSUME crashes = 0, image = "dxe"
               PROVE  Agreed'
  <2>1. Point \notin {"off", "start", "idle", "key", "current"}
    BY <1>1 DEF Returns
  <2>2. UNCHANGED <<mem, image, cur, slot, Point, crashes>>
    BY <1>1, <1>2
  <2>3. \A s : Side(mem, s)' <=> Side(mem, s)
    BY <1>1 DEF Side
  <2>4. QED
    BY <1>3, <2>1, <2>2, <2>3 DEF SideInv, Side
<1>4. PICK s \in Slots : /\ Side(disk["primary"], s)
                         /\ PrimarySlots = {s} \/ (PrimarySlots = {} /\ s = "a")
  BY <1>3 DEF SideInv, Agreed
<1>5. \A i \in Index : Primary(i)'.guid = Primary(i).guid
  <2>1. utype = "attr"
    BY <1>1, <1>3 DEF SlotInv, Remembered
  <2>2. QED
    BY <2>1, PrimaryStep DEF SlotInv, Field, OtherField
<1>6. Side(disk'["primary"], s)
  BY <1>4, <1>5 DEF Side, Primary
<1>7. PrimarySlots' \in {PrimarySlots, ActiveSlots(mem)}
  BY FlushActive
<1>8. PrimarySlots' = {s} \/ (PrimarySlots' = {} /\ s = "a")
  <2>1. CASE PrimarySlots = {s}
    BY <1>1, <1>3, <1>7, <2>1 DEF ActiveInv
  <2>2. CASE PrimarySlots = {} /\ s = "a"
    BY <1>1, <1>3, <1>7, <2>2 DEF KnownInv
  <2>3. QED
    BY <1>4, <2>1, <2>2
<1>9. QED
  BY <1>6, <1>8 DEF Agreed

LEMMA AppSide ==
  ASSUME PlainNames, Paired, TypeOK, WalkInv, SlotInv, ActiveInv, KnownInv, SideInv, Image,
         image = "app", crashes = 0
  PROVE  SideInv'
<1> USE DEF media, tables
<1>1. /\ UNCHANGED disk /\ ~InFlush /\ pc # "off" /\ PrimarySlots' = PrimarySlots /\ Point = pc
      /\ mem \in Table /\ cur \in Slots /\ slot \in Slots /\ known = Index
  BY ImageSteps DEF PrimarySlots, TypeOK, WalkInv, Point
<1>2. Agreed' <=> Agreed
  BY <1>1 DEF Agreed
<1>3. CASE Start
  BY <1>1, <1>2, <1>3 DEF Start, Goto, SideInv, Point, InFlush
<1>4. CASE GetCurrentSlotSuffix
  <2>1. /\ pc = "current" /\ UNCHANGED <<partInfo, image>> /\ mem = partInfo
        /\ ActiveSlots(mem) \in {{}, PrimarySlots} /\ Agreed
    BY <1>1, <1>4 DEF GetCurrentSlotSuffix, ActiveInv, KnownInv, SideInv
  <2>2. PICK s \in Slots : /\ Side(disk["primary"], s)
                           /\ PrimarySlots = {s} \/ (PrimarySlots = {} /\ s = "a")
    BY <2>1 DEF Agreed
  <2>3. Side(mem, s)
    BY <1>1, <2>1, <2>2 DEF SlotInv, Remembered, Side, Primary
  <2>4. ASSUME NEW r \in ActiveSlots(mem), cur' = r, mem' = mem, Goto("target")
        PROVE  SideInv'
    <3>1. cur' = s /\ Point' = "target"
      BY <1>1, <2>1, <2>2, <2>4, OneActive DEF Goto, Point, InFlush
    <3>2. QED
      BY <2>1, <2>3, <2>4, <3>1 DEF SideInv
  <2>5. ASSUME FirstBoot(mem), mem' = DefaultSlotA(mem), cur' = "a",
               UpdatePartitionAttributes("attr", mem', "target")
        PROVE  SideInv'
    <3>1. s = "a"
      BY <1>1, <2>1, <2>2, <2>5 DEF ActiveInv
    <3>2. Side(DefaultSlotA(mem), s)
      BY <1>1, <2>3, EditGuids, SameSide DEF Slots
    <3>3. Point' = "target"
      BY <2>5, CallBegins DEF Point, InFlush
    <3>4. QED
      BY <2>1, <2>5, <3>1, <3>2, <3>3 DEF SideInv
  <2>6. CASE pc' \in {"idle", "key"}
    BY <1>2, <2>1, <2>6 DEF SideInv, Point, InFlush
  <2>7. QED
    BY <1>4, <2>1, <2>4, <2>5, <2>6 DEF GetCurrentSlotSuffix, GetActiveSlot, Goto
<1>5. CASE ChooseSlot
  <2>1. pc = "target" /\ Point' = "set" /\ UNCHANGED <<mem, cur, image>>
    BY <1>5 DEF ChooseSlot, Goto, Point, InFlush
  <2>2. QED
    BY <1>1, <2>1 DEF SideInv
<1>6. CASE SetActiveSlot
  <2>1. pc = "set" /\ ActiveSlots(mem) = {cur} /\ Side(mem, cur) /\ UNCHANGED image
    BY <1>1, <1>6 DEF SetActiveSlot, SlotInv, Cursor, SideInv
  <2>2. cur' = cur /\ mem' = mem /\ Point' = "setattr"
    BY <1>6, <2>1 DEF SetActiveSlot, GetActiveSlot, FirstBoot, Goto, Point, InFlush
  <2>3. QED
    BY <2>1, <2>2 DEF SideInv
<1>7. CASE SetSlotAttributes
  <2>1. pc = "setattr" /\ slot = Other(cur) /\ UNCHANGED <<image, slot>> /\ Side(mem, Other(slot))
    BY <1>1, <1>7 DEF SetSlotAttributes, SlotInv, Cursor, SideInv, Other, Slots
  <2>2. Point' = "swap"
    BY <1>1, <1>7, <2>1, OtherType, CallBegins DEF SetSlotAttributes, Point, InFlush
  <2>3. Side(mem', Other(slot))
    <3>1. PICK reset \in BOOLEAN, set \in BOOLEAN : mem' = SlotActivated(mem, slot, reset, set)
      BY <1>7 DEF SetSlotAttributes
    <3>2. QED
      BY <1>1, <2>1, <3>1, EditGuids, SameSide
  <2>4. QED
    BY <1>1, <2>1, <2>2, <2>3 DEF SideInv
<1>8. CASE SwapGuids
  <2>1. pc = "swap" /\ Point' = "setlun" /\ UNCHANGED <<image, slot>> /\ Side(mem, Other(slot))
        /\ mem' = SwapPtnGuids(mem, Index)
    BY <1>1, <1>8 DEF SwapGuids, SideInv, Goto, Point, InFlush
  <2>2. Side(mem', slot)
    <3>1. Other(Other(slot)) = slot /\ Other(slot) \in Slots
      BY <1>1 DEF Other, Slots
    <3>2. QED
      BY <1>1, <2>1, <3>1, SwapSides
  <2>3. QED
    BY <2>1, <2>2 DEF SideInv
<1>9. CASE SetBootLun \/ MarkActive \/ AppUpdatesGuids \/ AppUpdatesAttributes
  <2>1. /\ pc \in {"setlun", "mark", "done", "attrs"} /\ UNCHANGED <<image, slot>>
        /\ Side(mem, slot)
    BY <1>1, <1>9 DEF SetBootLun, MarkActive, AppUpdatesGuids, AppUpdatesAttributes, SideInv
  <2>2. Point' \in {"mark", "done", "attrs", "reset"}
    BY <1>9, CallBegins DEF SetBootLun, MarkActive, AppUpdatesGuids, AppUpdatesAttributes, Point,
                            InFlush
  <2>3. mem' \in {mem, MarkPtnActive(mem, slot, Index)}
    BY <1>1, <1>9 DEF SetBootLun, MarkActive, AppUpdatesGuids, AppUpdatesAttributes
  <2>4. Side(mem', slot)
    <3>1. TRUE \in BOOLEAN /\ SameGuids(mem, mem)
      BY DEF SameGuids
    <3>2. SameGuids(mem, MarkPtnActive(mem, slot, Index))
      BY <1>1, <3>1, EditGuids
    <3>3. SameGuids(mem, mem')
      BY <2>3, <3>1, <3>2
    <3>4. QED
      BY <2>1, <3>3, SameSide
  <2>5. QED
    BY <1>1, <2>1, <2>2, <2>4 DEF SideInv
<1>10. CASE ResetSystem
  <2>1. pc = "reset" /\ pc' = "off" /\ Side(mem, slot) /\ PrimarySlots = {slot}
    BY <1>1, <1>10 DEF ResetSystem, PowerOff, SideInv, KnownInv
  <2>2. Side(disk["primary"], slot)
    BY <2>1 DEF SlotInv, Rest, Late, Primary, Side
  <2>3. Agreed
    BY <1>1, <2>1, <2>2 DEF Agreed
  <2>4. QED
    BY <1>2, <1>10, <2>3 DEF ResetSystem, PowerOff, SideInv, Point, InFlush
<1>11. CASE (\E s \in Slots : ClearSlot(s)) \/ CheckBootLun \/ DxeReturns
  BY <1>1, <1>11 DEF ClearSlot, CheckBootLun, DxeReturns, SlotInv, Cursor
<1>12. QED
  BY <1>3, <1>4, <1>5, <1>6, <1>7, <1>8, <1>9, <1>10, <1>11 DEF Image

LEMMA SideStep ==
  ASSUME MaxFaults = 0, BootTogether, PlainNames, Paired, TypeOK, WalkInv, SlotInv, MirrorInv,
         ActiveInv, KnownInv, SideInv, SlotInv', [Next]_vars
  PROVE  SideInv'
<1> USE DEF media, tables, budget
<1>1. CASE Image
  <2>1. crashes' = crashes
    BY <1>1 DEF Image, Start, GetCurrentSlotSuffix, ChooseSlot, ClearSlot, SetActiveSlot,
                SetSlotAttributes, CheckBootLun, SwapGuids, SetBootLun, MarkActive, DxeReturns,
                AppUpdatesGuids, AppUpdatesAttributes, ResetSystem
  <2>2. CASE image = "app"
    BY <1>1, <2>1, <2>2, AppSide DEF SideInv
  <2>3. CASE image = "dxe"
    <3>1. disk' = disk /\ image' = "dxe"
      BY <1>1, <2>3, ImageSteps
         DEF Image, Start, GetCurrentSlotSuffix, ChooseSlot, ClearSlot, SetActiveSlot,
             SetSlotAttributes, CheckBootLun, SwapGuids, SetBootLun, MarkActive, DxeReturns,
             AppUpdatesGuids, AppUpdatesAttributes, ResetSystem, PowerOff
    <3>2. Agreed' <=> Agreed
      BY <3>1 DEF Agreed, PrimarySlots
    <3>3. Point' # "swap"
      BY <3>1 DEF SlotInv, Cursor
    <3>4. QED
      BY <2>1, <2>3, <3>1, <3>2, <3>3 DEF SideInv
  <2>4. QED
    BY <2>2, <2>3 DEF TypeOK
<1>2. CASE Crash \/ CrashInWrite
  <2>1. crashes' # 0
    BY <1>2 DEF Crash, CrashInWrite, TypeOK
  <2>2. QED
    BY <2>1 DEF SideInv
<1>3. CASE User
  <2>1. pc \in {"idle", "key"} /\ disk' = disk /\ crashes' = crashes /\ pc' \in {"off", "start", "idle"}
    BY <1>3 DEF User, PressKey, RunApp, Reboot, PowerOff, Goto
  <2>2. Agreed' <=> Agreed
    BY <2>1 DEF Agreed, PrimarySlots
  <2>3. QED
    BY <2>1, <2>2 DEF SideInv, Point, InFlush
<1>4. CASE Connect
  <2>1. pc = "off" /\ pc' = "start" /\ crashes' = crashes /\ disk' = RestoredDisk /\ image' = "dxe"
    BY <1>4 DEF Connect
  <2>2. SUFFICES ASSUME crashes = 0
                 PROVE  disk'["primary"] = disk["primary"]
    <3>1. SUFFICES ASSUME crashes = 0
                   PROVE  Agreed'
      BY <2>1 DEF SideInv, Point, InFlush
    <3>2. Agreed
      BY <2>1, <3>1 DEF SideInv, Point, InFlush
    <3>3. disk'["primary"] = disk["primary"]
      BY <3>1, <2>2
    <3>4. QED
      BY <3>2, <3>3 DEF Agreed, PrimarySlots
  <2>3. \A i \in Index : RestoredDisk["primary"][i] = disk["primary"][i]
    BY <2>1, <2>2, SameCopies, CopiesExist DEF RestoredDisk, InFlush
  <2>4. RestoredDisk["primary"] = [i \in Index |-> RestoredDisk["primary"][i]]
    BY CopiesExist DEF RestoredDisk
  <2>5. disk["primary"] = [i \in Index |-> disk["primary"][i]]
    BY CopiesExist DEF TypeOK, Table
  <2>6. QED
    BY <2>1, <2>3, <2>4, <2>5
<1>5. ASSUME NEW s \in Slots, LoaderMarksUnbootable(s)
      PROVE  SideInv'
  <2>1. pc = "off" /\ pc' = "off" /\ crashes' = crashes /\ image' = image
    BY <1>5 DEF LoaderMarksUnbootable
  <2>2. \A i \in Index : /\ disk'["primary"][i].guid = disk["primary"][i].guid
                         /\ disk'["primary"][i].attr.active = disk["primary"][i].attr.active
                         /\ disk'["primary"][i].attr.priority = disk["primary"][i].attr.priority
    BY <1>5, MarkUnbootable, CopiesExist
  <2>3. PrimarySlots' = PrimarySlots
    <3>1. \A r \in Slots :
            /\ BootAttr(disk'["primary"], r).active = BootAttr(disk["primary"], r).active
            /\ BootAttr(disk'["primary"], r).priority = BootAttr(disk["primary"], r).priority
      BY <2>2, BootIndexType DEF BootAttr
    <3>2. QED
      BY <3>1, SameActive DEF PrimarySlots
  <2>4. Agreed => Agreed'
    BY <2>2, <2>3 DEF Agreed, Side
  <2>5. QED
    BY <2>1, <2>4 DEF SideInv, Point, InFlush
<1>6. CASE UNCHANGED vars
  BY <1>6 DEF vars, flush, SideInv, Agreed, Side, PrimarySlots, Point, InFlush
<1>7. QED
  BY <1>1, <1>2, <1>3, <1>4, <1>5, <1>6, FlushSide, Steps DEF External

LEMMA MarkedStep ==
  ASSUME MaxFaults = 0, PlainNames, TypeOK, WalkInv, SlotInv, SlotInv', MarkedInv, [Next]_vars
  PROVE  MarkedInv'
<1> USE DEF media, tables
<1>1. CASE Flush
  <2>1. UNCHANGED <<mem, image, slot, Point>>
    BY <1>1, FlushQuiet
  <2>2. QED
    BY <2>1 DEF MarkedInv
<1>2. CASE Image
  <2>1. SUFFICES ASSUME image' = "app", Point' \in {"done", "attrs", "reset"}
                 PROVE  \A i \in Index : mem'[i].attr.active = (TailOf[i] = slot')
    BY DEF MarkedInv
  <2>2. CASE MarkActive
    <3>1. /\ mem' = MarkPtnActive(mem, slot, Index) /\ slot' = slot /\ mem \in Table
      BY <2>2 DEF MarkActive, TypeOK, WalkInv
    <3>2. \A i \in Index : mem'[i].attr.active = ContainsSuffix(i, slot)
      BY <3>1 DEF MarkPtnActive, Table, Entry, Attr
    <3>3. QED
      BY <3>1, <3>2 DEF ContainsSuffix, PlainNames
  <2>3. CASE AppUpdatesGuids \/ AppUpdatesAttributes
    <3>1. /\ UNCHANGED <<mem, image, slot>> /\ Point \in {"done", "attrs"}
      BY <2>3 DEF AppUpdatesGuids, AppUpdatesAttributes, Point, InFlush
    <3>2. QED
      BY <2>1, <3>1 DEF MarkedInv
  <2>4. CASE CheckBootLun
    <3>1. image = "dxe" /\ image' = image
      BY <2>4 DEF CheckBootLun, SlotInv, Cursor, Point, InFlush
    <3>2. QED
      BY <2>1, <3>1
  <2>5. CASE Start \/ ChooseSlot \/ SwapGuids \/ DxeReturns \/ ResetSystem
    <3>1. Point' \in {"current", "clear_a", "set", "setlun", "idle", "off"}
      BY <2>5 DEF Start, ChooseSlot, SwapGuids, DxeReturns, ResetSystem, PowerOff, Goto, Point,
                  InFlush
    <3>2. QED
      BY <2>1, <3>1
  <2>6. CASE GetCurrentSlotSuffix \/ SetActiveSlot
    <3>1. Point' \in {"target", "setattr", "idle", "key"}
      BY <2>6, CallBegins DEF GetCurrentSlotSuffix, SetActiveSlot, GetActiveSlot, Goto, Exit, Point,
                              InFlush
    <3>2. QED
      BY <2>1, <3>1
  <2>7. CASE SetSlotAttributes \/ SetBootLun \/ \E s \in Slots : ClearSlot(s)
    <3>1. Point' \in {"checklun", "swap", "mark", "clear_b", "set"}
      BY <2>7, CallBegins DEF SetSlotAttributes, SetBootLun, ClearSlot, Goto, Point, InFlush
    <3>2. QED
      BY <2>1, <3>1
  <2>8. QED
    BY <1>2, <2>2, <2>3, <2>4, <2>5, <2>6, <2>7 DEF Image
<1>3. CASE Crash \/ CrashInWrite \/ User \/ Connect
  <2>1. pc' \in {"off", "start", "idle"}
    BY <1>3 DEF Crash, CrashInWrite, User, PressKey, RunApp, Reboot, PowerOff, Goto, Connect
  <2>2. QED
    BY <2>1 DEF MarkedInv, Point, InFlush
<1>4. ASSUME NEW s \in Slots, LoaderMarksUnbootable(s)
      PROVE  MarkedInv'
  BY <1>4 DEF LoaderMarksUnbootable, MarkedInv, Point, InFlush
<1>5. CASE UNCHANGED vars
  BY <1>5 DEF vars, flush, MarkedInv, Point, InFlush
<1>6. QED
  BY <1>1, <1>2, <1>3, <1>4, <1>5, Steps DEF External

LEMMA SideInvariance ==
  MaxFaults = 0 /\ BootTogether /\ PlainNames /\ Paired /\ Delivered =>
    (Spec => [](TypeOK /\ SlotInv /\ MirrorInv /\ SideInv /\ MarkedInv))
<1>1. SUFFICES ASSUME MaxFaults = 0, BootTogether, PlainNames, Paired, Delivered
               PROVE  Spec => [](TypeOK /\ SlotInv /\ MirrorInv /\ SideInv /\ MarkedInv)
  OBVIOUS
<1>2. Init => KnownInv /\ SideInv /\ MarkedInv
  <2>1. Init => MarkedInv
    BY DEF Init, MarkedInv, Point, InFlush
  <2>2. QED
    BY <1>1, <2>1, InitKnown, InitSide
<1>3. TypeOK /\ WalkInv /\ SlotInv /\ MirrorInv /\ ActiveInv /\ KnownInv /\ SideInv /\ MarkedInv
        /\ SlotInv' /\ [Next]_vars =>
        KnownInv' /\ SideInv' /\ MarkedInv'
  BY <1>1, KnownStep, SideStep, MarkedStep
<1>4. Spec => [](TypeOK /\ CopyInv /\ WalkInv /\ SlotInv /\ MirrorInv /\ ActiveInv)
  BY <1>1, NextSlotInvariance
<1>5. QED
  BY <1>2, <1>3, <1>4, PTL DEF Spec

(* When SwitchSlotsApp calls ResetSystem after a life without a power loss   *)
(* or a failed transfer, the two copies of every GPT are what PtnEntries is, *)
(* and every type GUID and every ACTIVE flag of a slotted partition is on    *)
(* the side it switched to: the swap of SwitchPtnSlots and MarkPtnActive     *)
(* reached the media whole.                                                  *)
THEOREM SwitchIsComplete ==
  MaxFaults = 0 /\ BootTogether /\ PlainNames /\ Paired /\ Delivered => (Spec => []SwitchComplete)
<1>1. SUFFICES ASSUME MaxFaults = 0, BootTogether, PlainNames, Paired, Delivered
               PROVE  Spec => []SwitchComplete
  OBVIOUS
<1>2. TypeOK /\ SlotInv /\ MirrorInv /\ SideInv /\ MarkedInv => SwitchComplete
  <2>1. SUFFICES ASSUME TypeOK, SlotInv, MirrorInv, SideInv, MarkedInv, pc = "reset", crashes = 0,
                        NEW c \in Copies
                 PROVE  /\ \A i \in Index : disk[c][i].guid = ProvisionedGuid(i, slot)
                        /\ \A i \in Index : disk[c][i].attr.active = (TailOf[i] = slot)
                        /\ disk[c] = mem
    BY DEF SwitchComplete
  <2>2. ~InFlush /\ Point = "reset" /\ image = "app"
    BY <2>1 DEF SlotInv, Cursor, Point, InFlush
  <2>3. disk[c] = mem
    <3>1. disk[c] = disk["primary"]
      BY <2>1, <2>2, SameCopies DEF Copies
    <3>2. \A i \in Index : mem[i].guid = Primary(i).guid /\ mem[i].attr = Primary(i).attr
      BY <2>1 DEF SlotInv, Rest, Late
    <3>3. \A i \in Index : disk["primary"][i] = mem[i]
      <4>1. SUFFICES ASSUME NEW i \in Index
                     PROVE  Primary(i) = mem[i]
        BY DEF Primary
      <4>2. Primary(i) \in Entry /\ mem[i] \in Entry
        BY <2>1, CopiesExist DEF TypeOK, Table, Primary
      <4>3. \A f \in UpdateTypes : Field(Primary(i), f) = Field(mem[i], f)
        BY <3>2 DEF UpdateTypes, Field
      <4>4. QED
        BY <4>2, <4>3, TwoFields DEF UpdateTypes, OtherField
    <3>4. disk["primary"] \in [Index -> Entry] /\ mem \in [Index -> Entry]
      BY <2>1, CopiesExist DEF TypeOK, Table
    <3>5. QED
      BY <3>1, <3>3, <3>4
  <2>4. Side(mem, slot) /\ \A i \in Index : mem[i].attr.active = (TailOf[i] = slot)
    BY <2>1, <2>2 DEF SideInv, MarkedInv
  <2>5. QED
    BY <2>3, <2>4 DEF Side
<1>3. Spec => [](TypeOK /\ SlotInv /\ MirrorInv /\ SideInv /\ MarkedInv)
  BY <1>1, SideInvariance
<1>4. QED
  BY <1>2, <1>3, PTL

-----------------------------------------------------------------------------
(* The switch as the media show it *)

(* No pair spans two LUNs: half of it would be on either side of a power     *)
(* loss, and the next swap would mix them.                                   *)
PairsTogether == \A i, j \in Index : IsPair(i, j) => LunOf[i] = LunOf[j]

(* The idle GUID is not the GUID of any partition. *)
IdleIsIdle == \A i \in Index : BaseOf[i] # IdleGuid

OnSide(table, l, s) == \A i \in LunParts(l) : table[i].guid = ProvisionedGuid(i, s)

Sided(table) == \A l \in Luns : \E s \in Slots : OnSide(table, l, s)

(* The GUIDs of every LUN are on one side: those the next boot reads, and    *)
(* those an image is about to write.  They are written only by the app, and  *)
(* only once the boot LUN has been set.                                      *)
SidedInv ==
  /\ Sided(NextBootTable)
  /\ Point \in Late => Sided(mem)
  /\ InFlush /\ utype = "guid" => image = "app" /\ Point \in {"mark", "attrs"}

LEMMA InitReads ==
  ASSUME Init, NEW table, disk = [c \in Copies |-> table], table = [i \in Index |-> table[i]]
  PROVE  NextBootTable = table
<1>1. \A i \in Index : Readable("primary", i)
  BY CopiesExist DEF Init, Readable, Luns
<1>2. NextBootTable = [i \in Index |-> disk["primary"][i]]
  BY <1>1, CopiesExist DEF NextBootTable, RestoredDisk
<1>3. QED
  BY <1>2, CopiesExist

LEMMA InitSided ==
  ASSUME Delivered, Init
  PROVE  SidedInv
<1>1. PICK pair \in BootTables, s \in Slots :
        /\ pair[2].active => s = "b"
        /\ ~pair[2].active => s = "a"
        /\ disk = [c \in Copies |-> ProvisionedTable(pair, s)]
  BY DEF Init
<1>2. ProvisionedTable(pair, s) = [i \in Index |-> ProvisionedTable(pair, s)[i]]
  BY DEF ProvisionedTable
<1>3. NextBootTable = ProvisionedTable(pair, s)
  BY <1>1, <1>2, InitReads
<1>4. Sided(NextBootTable)
  BY <1>1, <1>3, DeliveredTable DEF Side, Sided, OnSide, LunParts
<1>5. QED
  BY <1>4 DEF Init, SidedInv, Point, InFlush, Late

LEMMA SameSided ==
  ASSUME NEW t, NEW u, SameGuids(t, u), Sided(t)
  PROVE  Sided(u)
  BY DEF SameGuids, Sided, OnSide, LunParts

LEMMA SwapSided ==
  ASSUME PlainNames, Paired, PairsTogether, NEW table \in Table, Sided(table)
  PROVE  Sided(SwapPtnGuids(table, Index))
<1>1. SUFFICES ASSUME NEW l \in Luns
               PROVE  \E s \in Slots : OnSide(SwapPtnGuids(table, Index), l, s)
  BY DEF Sided
<1>2. PICK s \in Slots : OnSide(table, l, s)
  BY DEF Sided
<1>3. SUFFICES ASSUME NEW i \in LunParts(l)
               PROVE  SwapPtnGuids(table, Index)[i].guid = ProvisionedGuid(i, Other(s))
  BY OtherType DEF OnSide
<1>4. i \in Index /\ Partner(i, Index) \in Index
  BY PartnerType DEF LunParts
<1>5. Partner(i, Index) \in LunParts(l)
  <2>1. CASE SwapPartners(i, Index) = {}
    BY <2>1 DEF Partner
  <2>2. CASE SwapPartners(i, Index) # {}
    <3>1. PICK j \in Index : IsPair(i, j)
      BY <2>2 DEF IsPair, Pairs, SwapPartners
    <3>2. Partner(i, Index) = j /\ LunOf[j] = LunOf[i]
      BY <1>4, <3>1, PairFacts DEF PairsTogether
    <3>3. QED
      BY <3>2 DEF LunParts
  <2>3. QED
    BY <2>1, <2>2
<1>6. table[Partner(i, Index)].guid = ProvisionedGuid(Partner(i, Index), s)
  BY <1>2, <1>5 DEF OnSide
<1>7. QED
  BY <1>4, <1>6, SwapSide

(* A flush changes the GUIDs of one LUN's primary, to those in memory. *)
FlushesGuids == WriteCopy /\ utype = "guid" /\ copy = "primary"

LEMMA GuidsWritten ==
  ASSUME TypeOK, CopyInv, WalkInv, SlotInv, Flush
  PROVE  /\ ~FlushesGuids => SameGuids(NextBootTable, NextBootTable')
         /\ FlushesGuids =>
              \A i \in Index :
                NextBootTable'[i].guid =
                  IF i \in LunParts(lun) THEN mem[i].guid ELSE NextBootTable[i].guid
<1> USE DEF media
<1>1. NextBootTable = disk["primary"] /\ NextBootTable' = disk'["primary"]
  BY FlushReads
<1>2. CASE utype = "attr"
  <2>1. \A i \in Index : Field(Primary(i)', "guid") = Field(Primary(i), "guid")
    BY <1>2, PrimaryStep DEF SlotInv, OtherField
  <2>2. QED
    BY <1>1, <1>2, <2>1 DEF SameGuids, FlushesGuids, Primary, Field
<1>3. CASE FlushesGuids
  <2>1. \A i \in Index : Primary(i)' = IF i \in LunParts(lun) THEN buf[i] ELSE Primary(i)
    BY <1>3, CopiesExist DEF FlushesGuids, WriteCopy, CopyWritten, Primary, TypeOK
  <2>2. \A i \in LunParts(lun) : buf[i].guid = mem[i].guid
    BY <1>3 DEF FlushesGuids, WriteCopy, WalkInv, SlotInv, Buffer, Field
  <2>3. QED
    BY <1>1, <1>3, <2>1, <2>2 DEF Primary
<1>4. CASE utype = "guid" /\ ~FlushesGuids
  <2>1. disk'["primary"] = disk["primary"]
    BY <1>4, CopiesExist, FlushSteps DEF FlushesGuids, ReadCopy, WalkGuid, WalkAttr, WalkMismatch,
                             WalkEnds, WriteCopy, CopyWritten, TypeOK
  <2>2. QED
    BY <1>1, <1>4, <2>1 DEF SameGuids
<1>5. QED
  BY <1>2, <1>3, <1>4 DEF TypeOK, UpdateTypes

LEMMA FlushSided ==
  ASSUME TypeOK, CopyInv, WalkInv, SlotInv, SidedInv, Flush
  PROVE  SidedInv'
<1>1. /\ UNCHANGED <<mem, image, Point, utype>> /\ InFlush /\ Point = ret
      /\ pc' \in {"read", "walk", "write", ret}
  BY FlushQuiet
<1>2. Sided(NextBootTable')
  <2>1. CASE ~FlushesGuids
    BY <2>1, GuidsWritten, SameSided DEF SidedInv
  <2>2. CASE FlushesGuids
    <3>1. SUFFICES ASSUME NEW l \in Luns
                   PROVE  \E s \in Slots : OnSide(NextBootTable', l, s)
      BY DEF Sided
    <3>2. Sided(mem) /\ Sided(NextBootTable)
      BY <1>1, <2>2 DEF FlushesGuids, SidedInv, Late
    <3>3. CASE l = lun
      BY <2>2, <3>2, <3>3, GuidsWritten DEF Sided, OnSide, LunParts
    <3>4. CASE l # lun
      BY <2>2, <3>2, <3>4, GuidsWritten DEF Sided, OnSide, LunParts
    <3>5. QED
      BY <3>3, <3>4
  <2>3. QED
    BY <2>1, <2>2
<1>3. Sided(mem)' <=> Sided(mem)
  BY <1>1 DEF Sided, OnSide
<1>4. InFlush' /\ utype' = "guid" => image' = "app" /\ Point' \in {"mark", "attrs"}
  BY <1>1 DEF SidedInv
<1>5. QED
  BY <1>1, <1>2, <1>3, <1>4 DEF SidedInv

LEMMA ImageSided ==
  ASSUME PlainNames, Paired, PairsTogether, TypeOK, CopyInv, WalkInv, SlotInv, SidedInv, Image
  PROVE  SidedInv'
<1> USE DEF media, tables
<1>1. /\ UNCHANGED <<disk, crcOk>> /\ ~InFlush /\ Point = pc
      /\ pc # "off" /\ mem \in Table /\ slot \in Slots /\ known = Index
  BY ImageSteps DEF TypeOK, WalkInv, Point
<1>2. Sided(NextBootTable)'
  BY <1>1 DEF SidedInv, Sided, OnSide, NextBootTable, RestoredDisk, Readable
<1>3. SameGuids(mem, mem)
  BY DEF SameGuids
<1>4. CASE SwapGuids
  <2>1. Sided(mem') /\ ~InFlush'
    BY <1>1, <1>4, SwapSided DEF SwapGuids, SidedInv, Late, Goto, InFlush
  <2>2. QED
    BY <1>2, <2>1 DEF SidedInv
<1>5. CASE SetBootLun \/ AppUpdatesGuids
  <2>1. /\ mem' = mem /\ image' = image /\ image = "app" /\ pc \in Late
        /\ Point' \in {"mark", "attrs"}
    BY <1>1, <1>5, CallBegins
       DEF SetBootLun, AppUpdatesGuids, SlotInv, Cursor, Late, Point, InFlush
  <2>2. QED
    BY <1>1, <1>2, <2>1 DEF SidedInv, Sided
<1>6. CASE MarkActive \/ AppUpdatesAttributes \/ CheckBootLun
  <2>1. pc \in Late /\ mem' \in {mem, MarkPtnActive(mem, slot, Index)} /\ (InFlush' => utype' = "attr")
    BY <1>1, <1>6, CallBegins DEF MarkActive, AppUpdatesAttributes, CheckBootLun, Late, Goto, InFlush
  <2>2. TRUE \in BOOLEAN
    OBVIOUS
  <2>3. SameGuids(mem, MarkPtnActive(mem, slot, Index))
    BY <1>1, <2>2, EditGuids
  <2>4. Sided(mem')
    BY <1>1, <1>3, <2>1, <2>3, SameSided DEF SidedInv
  <2>5. QED
    BY <1>2, <2>1, <2>4 DEF SidedInv, UpdateTypes
<1>7. CASE SetSlotAttributes
  <2>1. PICK reset \in BOOLEAN, set \in BOOLEAN : mem' = SlotActivated(mem, slot, reset, set)
    BY <1>7 DEF SetSlotAttributes
  <2>2. SameGuids(mem, mem')
    BY <1>1, <2>1, EditGuids
  <2>3. SameGuids(NextBootTable, mem)
    <3>1. NextBootTable = disk["primary"] /\ pc = "setattr"
      BY <1>1, <1>7, NextBootReads DEF SetSlotAttributes
    <3>2. QED
      BY <3>1 DEF SlotInv, Rest, Early, Primary, SameGuids
  <2>4. Sided(mem')
    BY <2>2, <2>3, SameSided DEF SidedInv
  <2>5. InFlush' => utype' = "attr"
    BY <1>7, CallBegins DEF SetSlotAttributes, InFlush
  <2>6. QED
    BY <1>2, <2>4, <2>5 DEF SidedInv
<1>8. CASE Start \/ ChooseSlot \/ DxeReturns \/ ResetSystem
  <2>1. pc' \in {"current", "clear_a", "set", "idle", "off"}
    BY <1>8 DEF Start, ChooseSlot, DxeReturns, ResetSystem, PowerOff, Goto
  <2>2. QED
    BY <1>2, <2>1 DEF SidedInv, Point, InFlush, Late
<1>9. CASE GetCurrentSlotSuffix \/ SetActiveSlot
  <2>1. Point' \in {"target", "setattr", "idle", "key"} /\ (InFlush' => utype' = "attr")
    BY <1>9, CallBegins
       DEF GetCurrentSlotSuffix, SetActiveSlot, GetActiveSlot, Goto, Exit, Point, InFlush
  <2>2. QED
    BY <1>2, <2>1 DEF SidedInv, Late
<1>10. CASE \E s \in Slots : ClearSlot(s)
  <2>1. Point' \in {"clear_b", "set"} /\ (InFlush' => utype' = "attr")
    BY <1>10, CallBegins DEF ClearSlot, Goto, Point, InFlush
  <2>2. QED
    BY <1>2, <2>1 DEF SidedInv, Late
<1>11. QED
  BY <1>4, <1>5, <1>6, <1>7, <1>8, <1>9, <1>10 DEF Image

LEMMA SidedStep ==
  ASSUME MaxFaults = 0, MaxCrashes <= 1, PlainNames, Paired, PairsTogether,
         TypeOK, CopyInv, WalkInv, SlotInv, MirrorInv, SidedInv, [Next]_vars
  PROVE  SidedInv'
<1> USE DEF media
<1>1. ASSUME pc' \in {"off", "start", "idle"}, Sided(NextBootTable')
      PROVE  SidedInv'
  BY <1>1 DEF SidedInv, Point, InFlush, Late
<1>2. CASE Crash \/ User
  <2>1. UNCHANGED <<disk, crcOk>> /\ pc' \in {"off", "start", "idle"}
    BY <1>2 DEF Crash, User, PressKey, RunApp, Reboot, PowerOff, Goto
  <2>2. NextBootTable' = NextBootTable
    BY <2>1 DEF NextBootTable, RestoredDisk, Readable
  <2>3. QED
    BY <1>1, <2>1, <2>2 DEF SidedInv
<1>3. CASE CrashInWrite
  BY <1>1, <1>3, TornIsUndone DEF SidedInv, CrashInWrite, PowerOff
<1>4. CASE External
  <2>1. pc' \in {"off", "start"}
    BY <1>4 DEF External, Connect, LoaderMarksUnbootable
  <2>2. QED
    BY <1>1, <1>4, <2>1, OutsideKeeps, SameSided DEF SidedInv
<1>5. CASE UNCHANGED vars
  BY <1>5 DEF vars, flush, tables, SidedInv, Sided, OnSide, NextBootTable, RestoredDisk, Readable,
              Point, InFlush
<1>6. QED
  BY <1>2, <1>3, <1>4, <1>5, FlushSided, ImageSided, Steps

-----------------------------------------------------------------------------
(* The refinement *)

(* The one slot of a set. *)
OnlySlot(S) == IF S = {} THEN None ELSE CHOOSE s \in S : TRUE

(* The sides that LUN l of a table is on. *)
SidesOf(table, l) == {s \in Slots : OnSide(table, l, s)}

(* The variables of SlotSwitch. *)
MediaActive == OnlySlot(NextSlots)
MediaLun    == IF bootLun = 1 THEN "a" ELSE "b"
MediaLive   == [l \in PairLuns |-> OnlySlot(SidesOf(NextBootTable, l))]

LEMMA OnlySlotIs == OnlySlot({}) = None /\ \A s \in Slots : OnlySlot({s}) = s
  BY DEF OnlySlot

LEMMA SideIs ==
  ASSUME PlainNames, IdleIsIdle, NEW l \in PairLuns, NEW table, NEW s \in Slots,
         OnSide(table, l, s)
  PROVE  SidesOf(table, l) = {s}
<1>1. PICK i \in Index : LunOf[i] = l /\ SwapPartners(i, Index) # {}
  BY DEF PairLuns
<1>2. TailOf[i] \in Slots
  <2>1. PICK t \in Slots : ContainsSuffix(i, t)
    BY <1>1 DEF SwapPartners, IsLastMatch, StartsWith
  <2>2. QED
    BY <2>1 DEF ContainsSuffix, PlainNames, Slots
<1>3. i \in LunParts(l) /\ BaseOf[i] # IdleGuid
  BY <1>1 DEF LunParts, IdleIsIdle
<1>4. ProvisionedGuid(i, "a") # ProvisionedGuid(i, "b")
  BY <1>2, <1>3 DEF ProvisionedGuid, Slots, Other
<1>5. QED
  BY <1>3, <1>4 DEF SidesOf, OnSide, Slots

LEMMA SameLive ==
  ASSUME SameGuids(NextBootTable, NextBootTable')
  PROVE  MediaLive' = MediaLive
<1>1. \A l \in PairLuns : SidesOf(NextBootTable', l) = SidesOf(NextBootTable, l)
  BY DEF SidesOf, OnSide, SameGuids, LunParts
<1>2. QED
  BY <1>1 DEF MediaLive

(* They are what BootSlot gives for them. *)
LEMMA MediaIs ==
  /\ MediaActive = IF ActiveSlots(NextBootTable) = {} THEN None
                   ELSE CHOOSE s \in ActiveSlots(NextBootTable) : TRUE
  /\ MediaLive = [l \in PairLuns |-> LiveSide(l)]
<1>1. \A l \in PairLuns : LiveSide(l) = OnlySlot(SidesOf(NextBootTable, l))
  BY DEF LiveSide, OnlySlot, SidesOf, OnSide
<1>2. QED
  BY <1>1 DEF MediaActive, OnlySlot, NextSlots, MediaLive

(* The steps of SlotSwitch. *)
LEMMA MediaSteps ==
  ASSUME None \notin Slots,
         \/ /\ MediaActive' = MediaActive /\ MediaLun' = MediaLun /\ MediaLive' = MediaLive
         \/ /\ MediaActive = None /\ MediaActive' = "a"
            /\ MediaLun' = MediaLun /\ MediaLive' = MediaLive
         \/ /\ MediaActive \in Slots /\ MediaActive' = Other(MediaActive)
            /\ MediaLun' = MediaLun /\ MediaLive' = MediaLive
         \/ /\ MediaActive \in Slots /\ MediaLun # MediaActive /\ MediaLun' = MediaActive
            /\ MediaActive' = MediaActive /\ MediaLive' = MediaLive
         \/ /\ MediaLun = MediaActive
            /\ \E l \in PairLuns : MediaLive' = [MediaLive EXCEPT ![l] = Other(@)]
            /\ MediaActive' = MediaActive /\ MediaLun' = MediaLun
  PROVE  [Media!Next]_(Media!vars)
  BY DEF Media!Next, Media!vars, Media!Adopt, Media!Switch, Media!FollowLun, Media!MoveGuids,
         Media!Slots, Media!Other, Slots, Other, MediaActive, MediaLun, MediaLive, NextSlots,
         LiveSide, OnlySlot, SidesOf, OnSide

LEMMA MediaInit ==
  ASSUME None \notin Slots, PlainNames, IdleIsIdle, Delivered, Init
  PROVE  Media!Init
<1>1. PICK pair \in BootTables, s \in Slots :
        /\ pair[2].active => s = "b"
        /\ ~pair[2].active => s = "a"
        /\ disk = [c \in Copies |-> ProvisionedTable(pair, s)]
        /\ bootLun = LunOfSlot(s)
  BY DEF Init
<1>2. NextBootTable = ProvisionedTable(pair, s)
  <2>1. ProvisionedTable(pair, s) = [i \in Index |-> ProvisionedTable(pair, s)[i]]
    BY DEF ProvisionedTable
  <2>2. QED
    BY <1>1, <2>1, InitReads
<1>3. Side(NextBootTable, s)
  BY <1>1, <1>2, DeliveredTable
<1>4. NextSlots = {s} \/ (NextSlots = {} /\ s = "a")
  BY <1>1, <1>2, DeliveredTable DEF NextSlots
<1>5. MediaActive \in Slots \union {None} /\ MediaLun = s
      /\ s = IF MediaActive = None THEN "a" ELSE MediaActive
  BY <1>1, <1>4, OnlySlotIs DEF MediaActive, MediaLun, LunOfSlot, Slots
<1>6. MediaLive = [l \in PairLuns |-> s]
  <2>1. \A l \in PairLuns : OnSide(NextBootTable, l, s)
    BY <1>3 DEF Side, OnSide, LunParts
  <2>2. \A l \in PairLuns : SidesOf(NextBootTable, l) = {s}
    BY <2>1, SideIs
  <2>3. QED
    BY <2>2, OnlySlotIs DEF MediaLive
<1>7. QED
  BY <1>5, <1>6, MediaIs DEF Media!Init, Media!Slots, Slots, MediaLun

(* A first boot makes slot a the active one. *)
LEMMA FirstSlot ==
  ASSUME TypeOK, CopyInv, WalkInv, SlotInv, ActiveInv, KnownInv, BootTogether, Flush, NextSlots = {}
  PROVE  NextSlots' \subseteq {"a"}
<1>1. NextSlots = PrimarySlots /\ NextSlots' = PrimarySlots'
  BY FlushReads DEF NextSlots, PrimarySlots
<1>2. InFlush /\ Point = ret
  BY FlushQuiet
<1>3. PrimarySlots' \in {PrimarySlots, ActiveSlots(mem)}
  BY FlushActive
<1>4. ActiveSlots(mem) \subseteq {"a"}
  <2>1. CASE image = "dxe"
    BY <1>1, <1>2, <2>1 DEF KnownInv
  <2>2. CASE image = "app"
    <3>1. ret \notin Late
      BY <1>1, <1>2, <2>2 DEF KnownInv, Late, SlotInv, Cursor
    <3>2. ret = "target"
      BY <1>2, <2>2, <3>1 DEF ActiveInv
    <3>3. QED
      BY <1>2, <2>2, <3>2 DEF SlotInv, Cursor, BakBehind
  <2>3. QED
    BY <2>1, <2>2 DEF TypeOK
<1>5. QED
  BY <1>1, <1>3, <1>4

(* The GUIDs of a LUN move once the boot LUN is that of the active slot. *)
LEMMA GuidStep ==
  ASSUME IsUfs, PlainNames, IdleIsIdle, None \notin Slots, BootTogether,
         TypeOK, CopyInv, WalkInv, SlotInv, ActiveInv, KnownInv, SidedInv, Flush, FlushesGuids
  PROVE  [Media!Next]_(Media!vars)
<1>1. /\ UNCHANGED bootLun /\ InFlush /\ utype = "guid" /\ lun \in Luns /\ slot \in Slots
  BY FlushQuiet DEF FlushesGuids, TypeOK
<1>2. image = "app" /\ Point \in {"mark", "attrs"}
  BY <1>1 DEF SidedInv
<1>3. NextSlots = {slot} /\ NextSlots' = NextSlots
  <2>1. NextSlots = PrimarySlots /\ NextSlots' = PrimarySlots'
    BY FlushReads DEF NextSlots, PrimarySlots
  <2>2. PrimarySlots = {slot} /\ ActiveSlots(mem) = {slot}
    BY <1>1, <1>2, TheActive DEF KnownInv, SlotInv, Cursor, Late
  <2>3. PrimarySlots' \in {PrimarySlots, ActiveSlots(mem)}
    BY FlushActive
  <2>4. QED
    BY <2>1, <2>2, <2>3
<1>4. MediaActive = slot /\ MediaActive' = MediaActive /\ MediaLun' = MediaLun /\ MediaLun = slot
  <2>1. bootLun = LunOfSlot(slot)
    BY <1>2 DEF SlotInv, LunInv
  <2>2. QED
    BY <1>1, <1>3, <2>1, OnlySlotIs DEF MediaActive, MediaLun, LunOfSlot, Slots
<1>5. /\ \A i \in LunParts(lun) : NextBootTable'[i].guid = mem[i].guid
      /\ \A l \in Luns : l # lun =>
           \A i \in LunParts(l) : NextBootTable'[i].guid = NextBootTable[i].guid
  BY <1>1, GuidsWritten DEF LunParts
<1>6. \A l \in PairLuns : l # lun => MediaLive'[l] = MediaLive[l]
  <2>1. \A l \in PairLuns : l # lun => SidesOf(NextBootTable', l) = SidesOf(NextBootTable, l)
    BY <1>5 DEF SidesOf, OnSide, PairLuns, Luns
  <2>2. QED
    BY <2>1 DEF MediaLive
<1>7. PICK s \in Slots, t \in Slots : OnSide(NextBootTable, lun, s) /\ OnSide(NextBootTable', lun, t)
  <2>1. Sided(NextBootTable) /\ Sided(mem)
    BY <1>2 DEF SidedInv, Late
  <2>2. QED
    BY <1>1, <1>5, <2>1 DEF Sided, OnSide
<1>8. lun \in PairLuns => MediaLive[lun] = s /\ MediaLive'[lun] = t
  <2>1. lun \in PairLuns =>
          SidesOf(NextBootTable, lun) = {s} /\ SidesOf(NextBootTable', lun) = {t}
    BY <1>7, SideIs
  <2>2. QED
    BY <2>1, OnlySlotIs DEF MediaLive
<1>9. MediaLive = [l \in PairLuns |-> MediaLive[l]] /\ MediaLive' = [l \in PairLuns |-> MediaLive'[l]]
  BY DEF MediaLive
<1>10. CASE lun \notin PairLuns \/ t = s
  <2>1. \A l \in PairLuns : MediaLive'[l] = MediaLive[l]
    BY <1>6, <1>8, <1>10
  <2>2. MediaLive' = MediaLive
    BY <1>9, <2>1
  <2>3. QED
    BY <1>4, <2>2, MediaSteps
<1>11. CASE lun \in PairLuns /\ t # s
  <2>1. t = Other(s)
    BY <1>11 DEF Slots, Other
  <2>2. MediaLive' = [MediaLive EXCEPT ![lun] = Other(@)]
    BY <1>6, <1>8, <1>9, <1>11, <2>1
  <2>3. QED
    BY <1>4, <1>11, <2>2, MediaSteps
<1>12. QED
  BY <1>10, <1>11

(* Any other step leaves them where they are. *)
LEMMA GuidsStay ==
  ASSUME MaxFaults = 0, MaxCrashes <= 1, TypeOK, CopyInv, WalkInv, SlotInv, MirrorInv,
         [Next]_vars, ~(Flush /\ FlushesGuids)
  PROVE  SameGuids(NextBootTable, NextBootTable')
<1> USE DEF media
<1>1. CASE Flush
  BY <1>1, GuidsWritten
<1>2. CASE UNCHANGED <<disk, crcOk>>
  BY <1>2 DEF NextBootTable, RestoredDisk, Readable, SameGuids
<1>3. CASE CrashInWrite
  BY <1>3, TornIsUndone DEF SameGuids
<1>4. CASE External
  BY <1>4, OutsideKeeps
<1>5. QED
  BY <1>1, <1>2, <1>3, <1>4, Steps, ImageSteps DEF Crash, User, PressKey, RunApp, Reboot, vars

LEMMA MediaStep ==
  ASSUME MaxFaults = 0, MaxCrashes <= 1, IsUfs, PlainNames, IdleIsIdle, None \notin Slots,
         BootTogether, TypeOK, CopyInv, WalkInv, SlotInv, MirrorInv, ActiveInv, KnownInv, SidedInv,
         [Next]_vars
  PROVE  [Media!Next]_(Media!vars)
<1> USE DEF media
<1>1. CASE Flush /\ FlushesGuids
  BY <1>1, GuidStep
<1>2. CASE ~(Flush /\ FlushesGuids) /\ bootLun' = bootLun
  <2>1. MediaLun' = MediaLun /\ MediaLive' = MediaLive
    BY <1>2, GuidsStay, SameLive DEF MediaLun
  <2>2. \/ NextSlots' = NextSlots
        \/ NextSlots = {} /\ WriteCopy
        \/ image = "app" /\ copy = "primary" /\ WriteCopy /\ NextSlots' = {slot}
    BY NextSlotStep
  <2>3. CASE NextSlots' = NextSlots
    BY <2>1, <2>3, MediaSteps DEF MediaActive
  <2>4. CASE NextSlots' # NextSlots /\ NextSlots = {}
    <3>1. NextSlots' = {"a"}
      BY <2>2, <2>4, FirstSlot DEF Flush
    <3>2. MediaActive = None /\ MediaActive' = "a"
      BY <2>4, <3>1, OnlySlotIs DEF MediaActive, Slots
    <3>3. QED
      BY <2>1, <3>2, MediaSteps
  <2>5. CASE NextSlots' # NextSlots /\ NextSlots # {}
    <3>1. NextSlots' = {slot} /\ slot \in Slots
      BY <2>2, <2>5 DEF TypeOK
    <3>2. PICK s \in NextSlots : TRUE
      BY <2>5
    <3>3. NextSlots = {s} /\ s \in Slots
      BY NextTable, OneActive DEF NextSlots
    <3>4. slot = Other(s)
      BY <2>5, <3>1, <3>3 DEF Slots, Other
    <3>5. MediaActive = s /\ MediaActive' = Other(s)
      BY <3>1, <3>3, <3>4, OnlySlotIs DEF MediaActive
    <3>6. QED
      BY <2>1, <3>3, <3>5, MediaSteps
  <2>6. QED
    BY <2>3, <2>4, <2>5
<1>3. CASE bootLun' # bootLun
  <2>1. ~Flush
    BY <1>3, FlushQuiet
  <2>2. Image
    BY <1>3, <2>1, Steps
       DEF Crash, CrashInWrite, User, PressKey, RunApp, Reboot, External, Connect, LoaderMarksUnbootable, vars
  <2>3. NextBootTable' = NextBootTable
    BY <2>2, ImageSteps DEF NextBootTable, RestoredDisk, Readable
  <2>4. MediaLive' = MediaLive /\ MediaActive' = MediaActive
    BY <2>3 DEF MediaLive, MediaActive, NextSlots
  <2>5. PICK s \in Slots : NextSlots = {s} /\ bootLun' = LunOfSlot(s)
    BY <1>3, LunMoves DEF NextSlots
  <2>6. bootLun \in {1, 2}
    BY DEF SlotInv, LunInv
  <2>7. MediaActive = s /\ MediaLun # s /\ MediaLun' = s
    BY <1>3, <2>5, <2>6, OnlySlotIs DEF MediaActive, MediaLun, LunOfSlot, Slots
  <2>8. QED
    BY <2>4, <2>7, MediaSteps
<1>4. QED
  BY <1>1, <1>2, <1>3

(* BootSlotDxe and SwitchSlotsApp implement the steps of SlotSwitch: what a  *)
(* power loss at any moment would leave on the media of a UFS device changes *)
(* one thing at a time, in its order -- the active slot, then the boot LUN,  *)
(* then the GUIDs of one LUN after the other.  (That the boot LUN does       *)
(* follow in the end, its fairness, TLC checks.)                             *)
THEOREM MediaSwitch ==
  /\ MaxFaults = 0 /\ MaxCrashes <= 1
  /\ IsUfs /\ None \notin Slots
  /\ BootTogether /\ PairsTogether /\ PlainNames /\ Paired /\ IdleIsIdle /\ Delivered
  => (Spec => Media!Init /\ [][Media!Next]_(Media!vars))
<1>1. SUFFICES ASSUME MaxFaults = 0, MaxCrashes <= 1, IsUfs, None \notin Slots, BootTogether,
                      PairsTogether, PlainNames, Paired, IdleIsIdle, Delivered
               PROVE  Spec => Media!Init /\ [][Media!Next]_(Media!vars)
  OBVIOUS
<1>2. Init => Media!Init
  BY <1>1, MediaInit
<1>3. Init => KnownInv /\ SidedInv
  BY <1>1, InitKnown, InitSided
<1>4. TypeOK /\ CopyInv /\ WalkInv /\ SlotInv /\ MirrorInv /\ ActiveInv /\ KnownInv /\ SidedInv
        /\ [Next]_vars =>
        KnownInv' /\ SidedInv' /\ [Media!Next]_(Media!vars)
  BY <1>1, KnownStep, SidedStep, MediaStep
<1>5. Spec => [](TypeOK /\ CopyInv /\ WalkInv /\ SlotInv /\ MirrorInv /\ ActiveInv)
  BY <1>1, NextSlotInvariance
<1>6. QED
  BY <1>2, <1>3, <1>4, <1>5, PTL DEF Spec

=============================================================================

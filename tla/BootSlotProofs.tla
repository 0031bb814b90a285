--------------------------- MODULE BootSlotProofs ---------------------------
(***************************************************************************)
(* Theorems of BootSlot, for every partition table and every bound: its    *)
(* type invariant, and that without transfer errors a LUN never loses both *)
(* copies of its partition table, however often and wherever power fails.  *)
(***************************************************************************)
EXTENDS BootSlot, TLAPS

(* GetBootPartitionEntry finds an entry of the table for both slots. *)
LEMMA BootIndexType == \A s \in Slots : BootIndex(s) \in Index
  BY BootSlotAssumption DEF HasBootEntry, BootIndex, GetPartitionIndex

LEMMA OtherType == \A s \in Slots : Other(s) \in Slots /\ Other(s) # s
  BY DEF Slots, Other

(* The attribute bits of a boot entry are attribute bits. *)
LEMMA BootAttrType ==
  ASSUME NEW table \in Table, NEW s \in Slots
  PROVE  BootAttr(table, s) \in Attr
  BY BootIndexType DEF BootAttr, Table, Entry

(* Writing attributes into a table gives a table. *)
LEMMA SetAttrType ==
  ASSUME NEW table \in Table, NEW s \in Slots, NEW attr \in Attr
  PROVE  SetAttr(table, s, attr) \in Table
  BY BootIndexType DEF SetAttr, Table, Entry

LEMMA ActivatedType ==
  ASSUME NEW attr \in Attr
  PROVE  Activated(attr) \in Attr
  BY DEF Activated, Attr, MAX_PRIORITY

LEMMA DeactivatedType ==
  ASSUME NEW attr \in Attr
  PROVE  Deactivated(attr) \in Attr
<1>1. MAX_PRIORITY - 1 \in 0 .. MAX_PRIORITY
  BY DEF MAX_PRIORITY
<1>2. [attr EXCEPT !.active = FALSE] \in Attr
  BY DEF Attr
<1>3. [[attr EXCEPT !.active = FALSE] EXCEPT !.priority = MAX_PRIORITY - 1] \in Attr
  BY <1>1, <1>2 DEF Attr
<1>4. QED
  BY <1>3 DEF Deactivated

LEMMA BlankAttrType == BlankAttr \in Attr
  BY DEF BlankAttr, Attr, MAX_PRIORITY

LEMMA NoTableType == NoTable \in Table
  BY BlankAttrType DEF NoTable, Table, Entry, Guids

(* The three edits of the boot attributes give tables. *)
LEMMA DefaultSlotAType ==
  ASSUME NEW table \in Table
  PROVE  DefaultSlotA(table) \in Table
<1>1. BootAttr(table, "a") \in Attr
  BY BootAttrType DEF Slots
<1>2. [Activated(BootAttr(table, "a")) EXCEPT !.successful = FALSE] \in Attr
  BY <1>1, ActivatedType DEF Attr
<1>3. QED
  BY <1>2, SetAttrType DEF DefaultSlotA, Slots

LEMMA ClearUnbootableType ==
  ASSUME NEW table \in Table, NEW s \in Slots
  PROVE  ClearUnbootable(table, s) \in Table
<1>1. BootAttr(table, s) \in Attr
  BY BootAttrType
<1>2. [BootAttr(table, s) EXCEPT !.unbootable = FALSE, !.fullRetry = TRUE] \in Attr
  BY <1>1 DEF Attr
<1>3. QED
  BY <1>2, SetAttrType DEF ClearUnbootable

LEMMA SlotActivatedType ==
  ASSUME NEW table \in Table, NEW s \in Slots, NEW reset \in BOOLEAN, NEW set \in BOOLEAN
  PROVE  SlotActivated(table, s, reset, set) \in Table
<1> DEFINE up   == Activated(BootAttr(table, s))
           new  == [up EXCEPT !.successful = set \/ (@ /\ ~reset)]
           down == Deactivated(BootAttr(table, Other(s)))
<1>1. up \in Attr
  BY BootAttrType, ActivatedType
<1>2. new \in Attr
  BY <1>1 DEF Attr
<1>3. BootAttr(table, Other(s)) \in Attr
  BY BootAttrType, OtherType
<1>4. down \in Attr
  BY <1>3, DeactivatedType
<1> HIDE DEF new, down
<1>5. SetAttr(table, s, new) \in Table
  BY <1>2, SetAttrType
<1>6. SetAttr(SetAttr(table, s, new), Other(s), down) \in Table
  BY <1>4, <1>5, SetAttrType, OtherType
<1>7. QED
  BY <1>6 DEF SlotActivated, new, down

LEMMA MarkPtnActiveType ==
  ASSUME NEW table \in Table, NEW s \in Slots, NEW K \in SUBSET Index
  PROVE  MarkPtnActive(table, s, K) \in Table
  BY DEF MarkPtnActive, Table, Entry, Attr, ContainsSuffix

LEMMA PartnerType == \A i \in Index, K \in SUBSET Index : Partner(i, K) \in Index
  BY DEF Partner, SwapPartners

LEMMA SwapPtnGuidsType ==
  ASSUME NEW table \in Table, NEW K \in SUBSET Index
  PROVE  SwapPtnGuids(table, K) \in Table
  BY PartnerType DEF SwapPtnGuids, Table, Entry

LEMMA ProvisionedTableType ==
  ASSUME NEW pair \in Attr \X Attr, NEW s \in Slots
  PROVE  ProvisionedTable(pair, s) \in Table
<1> SUFFICES ASSUME NEW i \in Index
             PROVE  ProvisionedTable(pair, s)[i] \in Entry
  BY DEF ProvisionedTable, Table
<1>1. ProvisionedGuid(i, s) \in Guids
  BY DEF ProvisionedGuid, Guids
<1>2. [BlankAttr EXCEPT !.active = ContainsSuffix(i, s)] \in Attr
  BY BlankAttrType DEF Attr, ContainsSuffix
<1>3. QED
  BY <1>1, <1>2 DEF ProvisionedTable, Entry

-----------------------------------------------------------------------------
(* Type invariant *)

(* The part of TypeOK about UpdatePartitionAttributes and the program counter. *)
FlushOK ==
  /\ pc \in Labels /\ ret \in Labels
  /\ utype \in UpdateTypes /\ lun \in Luns /\ copy \in Copies
  /\ idx \in Nat /\ ptr \in Nat /\ dirty \in BOOLEAN /\ buf \in Table

FirstLunType == FirstLun \in Luns

LEMMA FirstLunInLuns == FirstLunType
  BY TableAssumption DEF FirstLunType, FirstLun, Luns, Index

LEMMA GotoType ==
  ASSUME FlushOK, NEW label \in Labels, Goto(label)
  PROVE  FlushOK'
  BY DEF FlushOK, Goto, flush

LEMMA UpdateType ==
  ASSUME FlushOK, NEW type \in UpdateTypes, NEW table, NEW label \in Labels,
         UpdatePartitionAttributes(type, table, label)
  PROVE  FlushOK'
<1>1. CASE table = bak
  BY <1>1, GotoType DEF UpdatePartitionAttributes
<1>2. CASE table # bak
  BY <1>2, FirstLunInLuns
     DEF UpdatePartitionAttributes, FlushOK, FirstLunType, Labels, Copies
<1>3. QED
  BY <1>1, <1>2

LEMMA BeginCopyType ==
  ASSUME FlushOK, NEW l \in Luns, NEW c \in Copies, BeginCopy(l, c)
  PROVE  FlushOK'
  BY DEF BeginCopy, FlushOK, Labels

LEMMA NextLunType ==
  ASSUME FlushOK, NextLun
  PROVE  FlushOK'
<1>1. CASE {l \in Luns : l > lun} = {}
  BY <1>1, GotoType DEF NextLun, FlushOK
<1>2. CASE {l \in Luns : l > lun} # {}
  <2>1. PICK l \in Luns : BeginCopy(l, "primary")
    BY <1>2 DEF NextLun
  <2>2. QED
    BY <2>1, BeginCopyType DEF Copies
<1>3. QED
  BY <1>1, <1>2

LEMMA NextCopyType ==
  ASSUME FlushOK, NextCopy
  PROVE  FlushOK'
<1>1. CASE copy = "primary"
  BY <1>1, BeginCopyType DEF NextCopy, FlushOK, Copies
<1>2. CASE copy # "primary"
  BY <1>2, NextLunType DEF NextCopy
<1>3. QED
  BY <1>1, <1>2

LEMMA TypeOKSplit ==
  TypeOK <=>
    /\ disk \in [Copies -> Table]
    /\ crcOk \in [Copies -> [Luns -> BOOLEAN]]
    /\ bootLun \in {0, 1, 2}
    /\ known \subseteq Index
    /\ partInfo \in Table /\ mem \in Table /\ bak \in Table
    /\ image \in {"dxe", "app"}
    /\ cur \in Slots /\ slot \in Slots
    /\ FlushOK
    /\ crashes \in 0 .. MaxCrashes /\ faults \in 0 .. MaxFaults
  BY DEF TypeOK, FlushOK

LEMMA InitType == Init => TypeOK
<1> SUFFICES ASSUME Init PROVE TypeOK
  OBVIOUS
<1>1. PICK pair \in BootTables, s \in Slots :
        disk = [c \in Copies |-> ProvisionedTable(pair, s)] /\ bootLun = LunOfSlot(s)
  BY DEF Init
<1>2. ProvisionedTable(pair, s) \in Table
  BY ProvisionedTableType, BootSlotAssumption
<1>3. disk \in [Copies -> Table] /\ bootLun \in {0, 1, 2}
  BY <1>1, <1>2 DEF LunOfSlot
<1>4. crcOk \in [Copies -> [Luns -> BOOLEAN]]
  BY DEF Init
<1>5. FlushOK
  BY NoTableType, FirstLunInLuns
     DEF Init, FlushOK, FirstLunType, Labels, UpdateTypes, Copies
<1>6. crashes \in 0 .. MaxCrashes /\ faults \in 0 .. MaxFaults
  BY BootSlotAssumption DEF Init
<1>7. QED
  BY <1>3, <1>4, <1>5, <1>6, NoTableType, TypeOKSplit DEF Init, Slots

(* Losing power resets everything that is not on the media. *)
LEMMA PowerOffType ==
  ASSUME PowerOff
  PROVE  /\ known' \subseteq Index
         /\ partInfo' \in Table /\ mem' \in Table /\ bak' \in Table
         /\ image' \in {"dxe", "app"} /\ cur' \in Slots /\ slot' \in Slots
         /\ FlushOK'
  BY NoTableType, FirstLunInLuns
     DEF PowerOff, FlushOK, FirstLunType, Labels, UpdateTypes, Copies, Slots

LEMMA CopyWrittenType ==
  ASSUME TypeOK, NEW S \in SUBSET Index
  PROVE  CopyWritten(S) \in [Copies -> Table]
  BY DEF TypeOK, CopyWritten, Table

LEMMA TornType ==
  ASSUME TypeOK, Torn
  PROVE  disk' \in [Copies -> Table] /\ crcOk' \in [Copies -> [Luns -> BOOLEAN]]
<1>1. PICK cut \in LunParts(lun) \union {0} :
        /\ disk' = CopyWritten({i \in LunParts(lun) : i <= cut})
        /\ crcOk' = [crcOk EXCEPT ![copy][lun] = FALSE]
  BY DEF Torn
<1>2. {i \in LunParts(lun) : i <= cut} \in SUBSET Index
  BY DEF LunParts
<1>3. QED
  BY <1>1, <1>2, CopyWrittenType DEF TypeOK

LEMMA FaultType ==
  ASSUME TypeOK, Fault
  PROVE  faults' \in 0 .. MaxFaults /\ crashes' \in 0 .. MaxCrashes
  BY BootSlotAssumption DEF TypeOK, Fault, HasFault

LEMMA RestoredDiskType ==
  ASSUME TypeOK
  PROVE  RestoredDisk \in [Copies -> Table]
  BY DEF TypeOK, RestoredDisk, Table, Copies

LEMMA GetActiveSlotType ==
  ASSUME TypeOK, NEW found \in Labels, NEW none \in Labels, GetActiveSlot(found, none)
  PROVE  mem' \in Table /\ cur' \in Slots /\ FlushOK'
<1> FlushOK /\ mem \in Table
  BY TypeOKSplit
<1>1. CASE \E s \in ActiveSlots(mem) : cur' = s /\ mem' = mem /\ Goto(found)
  BY <1>1, GotoType DEF ActiveSlots
<1>2. CASE /\ mem' = DefaultSlotA(mem)
           /\ cur' = "a"
           /\ UpdatePartitionAttributes("attr", mem', found)
  <2>1. FlushOK'
    BY <1>2, UpdateType DEF UpdateTypes
  <2>2. QED
    BY <1>2, <2>1, DefaultSlotAType DEF Slots
<1>3. CASE mem' = mem /\ cur' = "a" /\ Goto(none)
  BY <1>3, GotoType DEF Slots
<1>4. QED
  BY <1>1, <1>2, <1>3 DEF GetActiveSlot

LEMMA FlushStepType == TypeOK /\ Flush => TypeOK'
<1> SUFFICES ASSUME TypeOK, Flush PROVE TypeOK'
  OBVIOUS
<1> USE DEF media, tables, budget
<1>1. FlushOK
  BY TypeOKSplit
<1>2. CASE ReadCopy
  <2>1. buf' \in Table
    BY <1>2 DEF ReadCopy, TypeOK
  <2>2. idx' \in Nat /\ ptr' \in Nat
    BY <1>2, TableAssumption DEF ReadCopy, LunParts, Index
  <2>3. FlushOK'
    BY <1>1, <1>2, <2>1, <2>2 DEF ReadCopy, FlushOK, Labels
  <2>4. QED
    BY <1>2, <2>3 DEF ReadCopy, TypeOK, FlushOK
<1>3. CASE WalkGuid
  <2>1. idx \in Index /\ mem[idx].guid \in Guids
    BY <1>3 DEF WalkGuid, LunParts, TypeOK, Table, Entry
  <2>2. [buf EXCEPT ![ptr].guid = mem[idx].guid] \in Table
    BY <2>1 DEF TypeOK, Table, Entry
  <2>3. [bak EXCEPT ![idx].guid = mem[idx].guid] \in Table
    BY <2>1 DEF TypeOK, Table, Entry
  <2>4. buf' \in Table /\ bak' \in Table /\ dirty' \in BOOLEAN
    <3>1. CASE buf[ptr].guid # mem[idx].guid
      BY <1>3, <2>2, <2>3, <3>1 DEF WalkGuid
    <3>2. CASE buf[ptr].guid = mem[idx].guid
      BY <1>3, <3>2 DEF WalkGuid, TypeOK
    <3>3. QED
      BY <3>1, <3>2
  <2>5. idx' \in Nat /\ ptr' \in Nat
    BY <1>1, <1>3 DEF WalkGuid, FlushOK
  <2>6. QED
    BY <1>3, <2>4, <2>5 DEF WalkGuid, TypeOK, FlushOK
<1>4. CASE WalkAttr
  <2>1. idx \in Index /\ mem[idx].attr \in Attr
    BY <1>4 DEF WalkAttr, LunParts, TypeOK, Table, Entry
  <2>2. [buf EXCEPT ![ptr].attr = mem[idx].attr] \in Table
    BY <2>1 DEF TypeOK, Table, Entry
  <2>3. [bak EXCEPT ![idx].attr = mem[idx].attr] \in Table
    BY <2>1 DEF TypeOK, Table, Entry
  <2>4. buf' \in Table /\ bak' \in Table /\ dirty' \in BOOLEAN
    <3>1. CASE buf[ptr].attr # mem[idx].attr
      BY <1>4, <2>2, <2>3, <3>1 DEF WalkAttr
    <3>2. CASE buf[ptr].attr = mem[idx].attr
      BY <1>4, <3>2 DEF WalkAttr, TypeOK
    <3>3. QED
      BY <3>1, <3>2
  <2>5. idx' \in Nat /\ ptr' \in Nat
    BY <1>1, <1>4 DEF WalkAttr, FlushOK
  <2>6. QED
    BY <1>4, <2>4, <2>5 DEF WalkAttr, TypeOK, FlushOK
<1>5. CASE WalkMismatch
  <2>1. FlushOK'
    BY <1>1, <1>5 DEF WalkMismatch, FlushOK
  <2>2. QED
    BY <1>5, <2>1 DEF WalkMismatch, TypeOK, FlushOK
<1>6. CASE WalkEnds
  <2>1. FlushOK'
    BY <1>1, <1>6, GotoType, NextCopyType DEF WalkEnds, Labels
  <2>2. QED
    BY <1>6, <2>1 DEF WalkEnds, TypeOK, FlushOK
<1>7. CASE WriteCopy
  <2>1. FlushOK'
    BY <1>1, <1>7, NextCopyType DEF WriteCopy
  <2>2. disk' \in [Copies -> Table]
    BY <1>7, CopyWrittenType DEF WriteCopy, LunParts
  <2>3. crcOk' \in [Copies -> [Luns -> BOOLEAN]]
    BY <1>7 DEF WriteCopy, TypeOK
  <2>4. QED
    BY <1>7, <2>1, <2>2, <2>3 DEF WriteCopy, TypeOK, FlushOK
<1>8. CASE WalkSkip
  <2>1. FlushOK'
    BY <1>1, <1>8 DEF WalkSkip, FlushOK
  <2>2. QED
    BY <1>8, <2>1 DEF WalkSkip, TypeOK, FlushOK
<1>9. QED
  BY <1>2, <1>3, <1>4, <1>5, <1>6, <1>7, <1>8 DEF Flush

LEMMA FixedLunType ==
  ASSUME TypeOK, NEW s \in Slots
  PROVE  FixedLun(s) \in {0, 1, 2}
  BY DEF FixedLun, LunOfSlot, TypeOK

LEMMA ImageStepType == TypeOK /\ Image => TypeOK'
<1> SUFFICES ASSUME TypeOK, Image PROVE TypeOK'
  OBVIOUS
<1> USE DEF media, tables, budget
<1>1. FlushOK /\ mem \in Table /\ slot \in Slots /\ cur \in Slots
  BY TypeOKSplit
<1>2. CASE Start
  <2>1. FlushOK'
    BY <1>1, <1>2, GotoType DEF Start, Labels
  <2>2. QED
    BY <1>2, <2>1 DEF Start, TypeOK, FlushOK
<1>3. CASE GetCurrentSlotSuffix
  <2>1. mem' \in Table /\ cur' \in Slots /\ FlushOK'
    BY <1>3, GetActiveSlotType DEF GetCurrentSlotSuffix, Labels
  <2>2. QED
    BY <1>3, <2>1 DEF GetCurrentSlotSuffix, TypeOK, FlushOK
<1>4. CASE ChooseSlot
  <2>1. FlushOK'
    BY <1>1, <1>4, GotoType DEF ChooseSlot, Labels
  <2>2. slot' \in Slots
    BY <1>1, <1>4, OtherType DEF ChooseSlot
  <2>3. QED
    BY <1>4, <2>1, <2>2 DEF ChooseSlot, TypeOK, FlushOK
<1>5. ASSUME NEW s \in Slots, ClearSlot(s)
      PROVE  TypeOK'
  <2> DEFINE next == IF s = "a" THEN "clear_b" ELSE "set"
  <2>1. next \in Labels
    BY DEF Labels
  <2>2. mem' \in Table /\ FlushOK'
    <3>1. CASE IsSlotBootable(mem, s)
      BY <1>1, <1>5, <2>1, <3>1, GotoType DEF ClearSlot
    <3>2. CASE ~IsSlotBootable(mem, s)
      <4>1. mem' = ClearUnbootable(mem, s) /\ UpdatePartitionAttributes("attr", mem', next)
        BY <1>5, <3>2 DEF ClearSlot
      <4> HIDE DEF next
      <4>2. FlushOK'
        BY <1>1, <2>1, <4>1, UpdateType DEF UpdateTypes
      <4>3. QED
        BY <1>1, <4>1, <4>2, ClearUnbootableType
    <3>3. QED
      BY <3>1, <3>2
  <2>3. QED
    BY <1>5, <2>2 DEF ClearSlot, TypeOK, FlushOK
<1>6. CASE SetActiveSlot
  <2>1. mem' \in Table /\ cur' \in Slots /\ FlushOK'
    BY <1>6, GetActiveSlotType DEF SetActiveSlot, Exit, Labels
  <2>2. QED
    BY <1>6, <2>1 DEF SetActiveSlot, TypeOK, FlushOK
<1>7. CASE SetSlotAttributes
  <2>1. mem' \in Table
    BY <1>1, <1>7, SlotActivatedType DEF SetSlotAttributes
  <2>2. FlushOK'
    BY <1>1, <1>7, UpdateType DEF SetSlotAttributes, UpdateTypes, Labels
  <2>3. QED
    BY <1>7, <2>1, <2>2 DEF SetSlotAttributes, TypeOK, FlushOK
<1>8. CASE CheckBootLun
  <2>1. bootLun' \in {0, 1, 2}
    BY <1>1, <1>8, FixedLunType DEF CheckBootLun, TypeOK
  <2>2. FlushOK'
    BY <1>1, <1>8, GotoType DEF CheckBootLun, Labels
  <2>3. QED
    BY <1>8, <2>1, <2>2 DEF CheckBootLun, TypeOK, FlushOK
<1>9. CASE SwapGuids
  <2>1. FlushOK'
    BY <1>1, <1>9, GotoType DEF SwapGuids, Labels
  <2>2. QED
    BY <1>1, <1>9, <2>1, SwapPtnGuidsType DEF SwapGuids, TypeOK, FlushOK
<1>10. CASE SetBootLun
  <2>1. bootLun' \in {0, 1, 2}
    BY <1>1, <1>10, FixedLunType DEF SetBootLun, TypeOK
  <2>2. FlushOK'
    BY <1>1, <1>10, UpdateType DEF SetBootLun, UpdateTypes, Labels
  <2>3. QED
    BY <1>10, <2>1, <2>2 DEF SetBootLun, TypeOK, FlushOK
<1>11. CASE MarkActive
  <2>1. FlushOK'
    BY <1>1, <1>11, UpdateType DEF MarkActive, UpdateTypes, Labels
  <2>2. QED
    BY <1>1, <1>11, <2>1, MarkPtnActiveType DEF MarkActive, TypeOK, FlushOK
<1>12. CASE DxeReturns
  <2>1. FlushOK'
    BY <1>1, <1>12, GotoType DEF DxeReturns, Labels
  <2>2. QED
    BY <1>12, <2>1 DEF DxeReturns, TypeOK, FlushOK
<1>13. CASE AppUpdatesGuids
  <2>1. FlushOK'
    BY <1>1, <1>13, UpdateType DEF AppUpdatesGuids, UpdateTypes, Labels
  <2>2. QED
    BY <1>13, <2>1 DEF AppUpdatesGuids, TypeOK, FlushOK
<1>14. CASE AppUpdatesAttributes
  <2>1. FlushOK'
    BY <1>1, <1>14, UpdateType DEF AppUpdatesAttributes, UpdateTypes, Labels
  <2>2. QED
    BY <1>14, <2>1 DEF AppUpdatesAttributes, TypeOK, FlushOK
<1>15. CASE ResetSystem
  BY <1>15, PowerOffType DEF ResetSystem, TypeOK, FlushOK
<1>16. QED
  BY <1>2, <1>3, <1>4, <1>5, <1>6, <1>7, <1>8, <1>9, <1>10, <1>11, <1>12, <1>13,
     <1>14, <1>15 DEF Image

LEMMA FailureStepType == TypeOK /\ Failure => TypeOK'
<1> SUFFICES ASSUME TypeOK, Failure PROVE TypeOK'
  OBVIOUS
<1> USE DEF media, tables, budget
<1>1. FlushOK
  BY TypeOKSplit
<1>2. CASE Crash
  <2>1. crashes' \in 0 .. MaxCrashes
    BY <1>2, BootSlotAssumption DEF Crash, TypeOK
  <2>2. QED
    BY <1>2, <2>1, PowerOffType DEF Crash, TypeOK, FlushOK
<1>3. CASE CrashInWrite
  <2>1. crashes' \in 0 .. MaxCrashes
    BY <1>3, BootSlotAssumption DEF CrashInWrite, TypeOK
  <2>2. QED
    BY <1>3, <2>1, PowerOffType, TornType DEF CrashInWrite, TypeOK, FlushOK
<1>4. CASE FlushExits
  <2>1. FlushOK'
    BY <1>1, <1>4, GotoType DEF FlushExits, FlushOK
  <2>2. QED
    BY <1>4, <2>1, FaultType DEF FlushExits, TypeOK, FlushOK
<1>5. CASE WriteFails
  <2>1. FlushOK'
    BY <1>1, <1>5, GotoType DEF WriteFails, FlushOK
  <2>2. QED
    BY <1>5, <2>1, FaultType, TornType DEF WriteFails, TypeOK, FlushOK
<1>6. CASE StartFails
  <2>1. FlushOK'
    BY <1>1, <1>6, GotoType DEF StartFails, Exit, Labels
  <2>2. QED
    BY <1>6, <2>1, FaultType DEF StartFails, TypeOK, FlushOK
<1>7. CASE CheckBootLunFails
  <2>1. FlushOK'
    BY <1>1, <1>7, GotoType DEF CheckBootLunFails, Labels
  <2>2. QED
    BY <1>7, <2>1, FaultType DEF CheckBootLunFails, TypeOK, FlushOK
<1>8. CASE SwapFails
  <2>1. FlushOK'
    BY <1>1, <1>8, GotoType DEF SwapFails, Labels
  <2>2. QED
    BY <1>8, <2>1, FaultType DEF SwapFails, TypeOK, FlushOK
<1>9. CASE SetBootLunFails
  <2>1. FlushOK'
    BY <1>1, <1>9, UpdateType DEF SetBootLunFails, UpdateTypes, Labels
  <2>2. bootLun' \in {0, 1, 2}
    BY <1>9 DEF SetBootLunFails, TypeOK
  <2>3. QED
    BY <1>9, <2>1, <2>2, FaultType DEF SetBootLunFails, TypeOK, FlushOK
<1>10. CASE LunSkipped
  <2>1. FlushOK'
    BY <1>1, <1>10, NextLunType DEF LunSkipped
  <2>2. QED
    BY <1>10, <2>1, FaultType DEF LunSkipped, TypeOK, FlushOK
<1>11. CASE StartsPartly
  <2>1. FlushOK'
    BY <1>1, <1>11, GotoType DEF StartsPartly, Exit, Labels
  <2>2. known' \subseteq Index
    BY <1>11 DEF StartsPartly
  <2>3. mem' \in Table /\ bak' \in Table
    BY <1>11, NoTableType DEF StartsPartly, TypeOK, Table
  <2>4. QED
    BY <1>11, <2>1, <2>2, <2>3, FaultType DEF StartsPartly, TypeOK, FlushOK
<1>12. QED
  BY <1>2, <1>3, <1>4, <1>5, <1>6, <1>7, <1>8, <1>9, <1>10, <1>11 DEF Failure

LEMMA OutsideStepType == TypeOK /\ (User \/ External) => TypeOK'
<1> SUFFICES ASSUME TypeOK, User \/ External PROVE TypeOK'
  OBVIOUS
<1> USE DEF media, tables, budget
<1>1. FlushOK
  BY TypeOKSplit
<1>2. CASE RunApp
  <2>1. FlushOK'
    BY <1>1, <1>2, GotoType DEF RunApp, Labels
  <2>2. QED
    BY <1>2, <2>1 DEF RunApp, TypeOK, FlushOK
<1>3. CASE Reboot
  BY <1>3, PowerOffType DEF Reboot, TypeOK, FlushOK
<1>4. CASE Connect
  <2>1. FlushOK'
    BY <1>1, <1>4 DEF Connect, FlushOK, flush, Labels
  <2>2. RestoredDisk \in [Copies -> Table] /\ RestoredDisk["primary"] \in Table
    BY RestoredDiskType DEF Copies
  <2>3. QED
    BY <1>4, <2>1, <2>2 DEF Connect, TypeOK, FlushOK
<1>5. ASSUME NEW s \in Slots, LoaderMarksUnbootable(s)
      PROVE  TypeOK'
  <2>1. ASSUME NEW c \in Copies
        PROVE  SetAttr(disk[c], s, [BootAttr(disk[c], s) EXCEPT
                                      !.unbootable = TRUE, !.successful = FALSE]) \in Table
    <3>1. disk[c] \in Table
      BY DEF TypeOK
    <3>2. BootAttr(disk[c], s) \in Attr
      BY <3>1, BootAttrType
    <3>3. [BootAttr(disk[c], s) EXCEPT !.unbootable = TRUE, !.successful = FALSE] \in Attr
      BY <3>2 DEF Attr
    <3>4. QED
      BY <3>1, <3>3, SetAttrType
  <2>2. disk' \in [Copies -> Table]
    BY <1>5, <2>1 DEF LoaderMarksUnbootable
  <2>3. FlushOK'
    BY <1>1, <1>5 DEF LoaderMarksUnbootable, FlushOK, flush
  <2>4. QED
    BY <1>5, <2>2, <2>3 DEF LoaderMarksUnbootable, TypeOK, FlushOK
<1>6. CASE PressKey
  <2>1. FlushOK'
    BY <1>1, <1>6, GotoType DEF PressKey, Labels
  <2>2. QED
    BY <1>6, <2>1 DEF PressKey, TypeOK, FlushOK
<1>7. QED
  BY <1>2, <1>3, <1>4, <1>5, <1>6 DEF User, External

(* BootSlot is well typed for every partition table and every bound. *)
THEOREM TypeCorrect == Spec => []TypeOK
<1>1. TypeOK /\ [Next]_vars => TypeOK'
  <2> SUFFICES ASSUME TypeOK, [Next]_vars PROVE TypeOK'
    OBVIOUS
  <2>1. CASE UNCHANGED vars
    BY <2>1 DEF vars, media, tables, flush, budget, TypeOK
  <2>2. QED
    BY <2>1, FlushStepType, ImageStepType, FailureStepType, OutsideStepType DEF Next
<1>2. QED
  BY <1>1, InitType, PTL DEF Spec

-----------------------------------------------------------------------------
(* No power loss destroys both copies *)

(* While an image runs nothing is torn: the partition driver has repaired    *)
(* the tables before, and only a power loss interrupts a write.              *)
ValidWhenOn == pc # "off" => \A c \in Copies, l \in Luns : crcOk[c][l]

CopyInv == ValidWhenOn /\ SomeCopyValid

LEMMA CopiesExist == "primary" \in Copies /\ "backup" \in Copies
  BY DEF Copies

LEMMA AllValidIsSomeValid ==
  ASSUME \A c \in Copies, l \in Luns : crcOk[c][l]
  PROVE  SomeCopyValid
  BY CopiesExist DEF SomeCopyValid

LEMMA InitCopies == Init => CopyInv
<1> SUFFICES ASSUME Init PROVE CopyInv
  OBVIOUS
<1>1. \A c \in Copies, l \in Luns : crcOk[c][l]
  BY DEF Init
<1>2. QED
  BY <1>1, AllValidIsSomeValid DEF CopyInv, ValidWhenOn

(* A step taken with the power on that leaves the checksums alone. *)
LEMMA QuietStep ==
  ASSUME CopyInv, pc # "off", crcOk' = crcOk
  PROVE  CopyInv'
  BY DEF CopyInv, ValidWhenOn, SomeCopyValid

LEMMA FlushCopies == TypeOK /\ CopyInv /\ Flush => CopyInv'
<1> SUFFICES ASSUME TypeOK, CopyInv, Flush PROVE CopyInv'
  OBVIOUS
<1>1. CASE WriteCopy
  <2>1. \A c \in Copies, l \in Luns : crcOk'[c][l]
    BY <1>1 DEF WriteCopy, CopyInv, ValidWhenOn, TypeOK
  <2>2. QED
    BY <2>1, CopiesExist DEF CopyInv, ValidWhenOn, SomeCopyValid
<1>2. CASE ~WriteCopy
  <2>1. pc # "off" /\ crcOk' = crcOk
    BY <1>2 DEF Flush, ReadCopy, WalkSkip, WalkGuid, WalkAttr, WalkMismatch, WalkEnds, media
  <2>2. QED
    BY <2>1, QuietStep
<1>3. QED
  BY <1>1, <1>2

LEMMA ImageCopies == CopyInv /\ Image => CopyInv'
<1> SUFFICES ASSUME CopyInv, Image PROVE CopyInv'
  OBVIOUS
<1>1. crcOk' = crcOk
  BY DEF Image, Start, GetCurrentSlotSuffix, ChooseSlot, ClearSlot, SetActiveSlot,
         SetSlotAttributes, CheckBootLun, SwapGuids, SetBootLun, MarkActive, DxeReturns,
         AppUpdatesGuids, AppUpdatesAttributes, ResetSystem, media
<1>2. pc # "off"
  BY DEF Image, Start, GetCurrentSlotSuffix, ChooseSlot, ClearSlot, SetActiveSlot,
         SetSlotAttributes, CheckBootLun, SwapGuids, SetBootLun, MarkActive, DxeReturns,
         AppUpdatesGuids, AppUpdatesAttributes, ResetSystem
<1>3. QED
  BY <1>1, <1>2, QuietStep

LEMMA NoFault == MaxFaults = 0 /\ TypeOK => ~Fault
  BY DEF TypeOK, Fault, HasFault

(* A power loss in a write of one copy: the other one was not touched. *)
LEMMA FailureCopies == MaxFaults = 0 /\ TypeOK /\ CopyInv /\ Failure => CopyInv'
<1> SUFFICES ASSUME MaxFaults = 0, TypeOK, CopyInv, Failure PROVE CopyInv'
  OBVIOUS
<1>1. CASE Crash
  BY <1>1, QuietStep DEF Crash, media
<1>2. CASE CrashInWrite
  <2>1. crcOk' = [crcOk EXCEPT ![copy][lun] = FALSE] /\ pc = "write" /\ pc' = "off"
    BY <1>2 DEF CrashInWrite, Torn, PowerOff
  <2>2. ASSUME NEW l \in Luns
        PROVE  \E c \in Copies : crcOk'[c][l]
    <3>1. PICK c \in Copies : c # copy
      BY DEF Copies, TypeOK
    <3>2. crcOk[c][l] /\ crcOk'[c] = crcOk[c]
      BY <2>1, <3>1 DEF CopyInv, ValidWhenOn, TypeOK
    <3>3. QED
      BY <3>2
  <2>3. QED
    BY <2>1, <2>2 DEF CopyInv, ValidWhenOn, SomeCopyValid
<1>3. QED
  BY <1>1, <1>2, NoFault
     DEF Failure, LunSkipped, FlushExits, WriteFails, StartsPartly, StartFails, CheckBootLunFails, SwapFails,
         SetBootLunFails

LEMMA OutsideCopies == CopyInv /\ (User \/ External) => CopyInv'
<1> SUFFICES ASSUME CopyInv, User \/ External PROVE CopyInv'
  OBVIOUS
<1>1. CASE User
  BY <1>1, QuietStep DEF User, PressKey, RunApp, Reboot, media
<1>2. CASE Connect
  <2>1. \A c \in Copies, l \in Luns : crcOk'[c][l]
    BY <1>2 DEF Connect
  <2>2. QED
    BY <2>1, CopiesExist DEF CopyInv, ValidWhenOn, SomeCopyValid
<1>3. CASE \E s \in Slots : LoaderMarksUnbootable(s)
  BY <1>3 DEF LoaderMarksUnbootable, CopyInv, ValidWhenOn, SomeCopyValid
<1>4. QED
  BY <1>1, <1>2, <1>3 DEF External

(* Whenever and however often the power goes, and as long as no transfer     *)
(* fails, every LUN keeps a copy of its partition table that the next boot   *)
(* can read: UpdatePartitionAttributes never has both copies in a write, and *)
(* no image starts before the partition driver has repaired the torn one.    *)
THEOREM CopySurvives == MaxFaults = 0 => (Spec => []SomeCopyValid)
<1> SUFFICES ASSUME MaxFaults = 0 PROVE Spec => []SomeCopyValid
  OBVIOUS
<1>1. TypeOK /\ CopyInv /\ [Next]_vars => CopyInv'
  <2> SUFFICES ASSUME TypeOK, CopyInv, [Next]_vars PROVE CopyInv'
    OBVIOUS
  <2>1. CASE UNCHANGED vars
    BY <2>1 DEF vars, media, CopyInv, ValidWhenOn, SomeCopyValid
  <2>2. QED
    BY <2>1, FlushCopies, ImageCopies, FailureCopies, OutsideCopies DEF Next
<1>2. CopyInv => SomeCopyValid
  BY DEF CopyInv
<1>3. QED
  BY <1>1, <1>2, InitCopies, TypeCorrect, PTL DEF Spec

=============================================================================

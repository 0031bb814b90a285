------------------------ MODULE BootSlotSwitchProofs ------------------------
(***************************************************************************)
(* What a switch of the slot does to the tables, for every partition table *)
(* and however often power fails, as long as no transfer fails.            *)
(*                                                                         *)
(*   PairsSurvive  No table that a boot may read has a half-swapped pair.  *)
(*                 By PairInv: the walk of UpdatePartitionAttributes       *)
(*                 copies GUIDs from the memory's table, whose pairs are   *)
(*                 whole, into a buffer read from one copy, and the copy   *)
(*                 it overwrites is the one the next boot may do without.  *)
(*   SlotIsSet     After SetActiveSlot the next boot finds the slot.       *)
(*                 SlotInv follows the three tables that must agree for    *)
(*                 this: PtnEntries (mem), PtnEntriesBak (bak) and the     *)
(*                 media.  UpdatePartitionAttributes compares the first    *)
(*                 two to see what is to be written to the third, so that  *)
(*                 an entry is skipped when bak is ahead of the media;     *)
(*                 BakBehind and Flushing say that it never is.            *)
(*   ResetIsIntoTheSlot  SwitchSlotsApp resets when that is so.            *)
(*   LunFollows    The boot LUN moves last.                                *)
(***************************************************************************)
EXTENDS BootSlotProofs

(* Every slotted name ends in its suffix; a name with _a or _b in its middle *)
(* can be taken for a slotted one by StrStr, and then has no partner.        *)
PlainNames == \A i \in Index : TailOf[i] \notin {"a+", "b+"}

-----------------------------------------------------------------------------
(* Pairs *)

PairIn(table) ==
  \A i, j \in Index :
    IsPair(i, j) /\ LunOf[i] = LunOf[j] =>
      {table[i].guid, table[j].guid} = {BaseOf[i], IdleGuid}

SameGuids(t, u) == \A i \in Index : t[i].guid = u[i].guid

LEMMA PairsAreSwapped ==
  ASSUME NEW i \in Index, NEW j \in Index
  PROVE  IsPair(i, j) <=> j \in SwapPartners(i, Index)
  BY DEF IsPair, Pairs

LEMMA PairFacts ==
  ASSUME NEW i \in Index, NEW j \in Index, IsPair(i, j)
  PROVE  /\ IsPair(j, i) /\ BaseOf[j] = BaseOf[i]
         /\ Partner(i, Index) = j
<1>1. PICK s \in Slots : IsLastMatch(i, BaseOf[i], s, Index) /\ IsLastMatch(j, BaseOf[i], Other(s), Index)
  BY PairsAreSwapped DEF SwapPartners
<1>2. BaseOf[j] = BaseOf[i] /\ BaseOf[i] \in MultiSlotParts(Index)
  BY <1>1, PairsAreSwapped DEF SwapPartners, IsLastMatch, StartsWith
<1>3. Other(Other(s)) = s /\ Other(s) \in Slots
  BY DEF Slots, Other
<1>4. IsPair(j, i)
  BY <1>1, <1>2, <1>3, PairsAreSwapped DEF SwapPartners
<1>5. ASSUME NEW k \in Index, IsPair(i, k)
      PROVE  k = j
  <2>1. PICK t \in Slots : IsLastMatch(i, BaseOf[i], t, Index) /\ IsLastMatch(k, BaseOf[i], Other(t), Index)
    BY <1>5, PairsAreSwapped DEF SwapPartners
  <2>2. t = s
    BY <1>1, <2>1 DEF IsLastMatch, StartsWith, ContainsSuffix, Slots
  <2>3. j <= k /\ k <= j
    BY <1>1, <2>1, <2>2 DEF IsLastMatch
  <2>4. QED
    BY <2>3 DEF Index
<1>6. Partner(i, Index) \in SwapPartners(i, Index) /\ Partner(i, Index) \in Index
  BY PairsAreSwapped DEF Partner, SwapPartners
<1>7. Partner(i, Index) = j
  BY <1>5, <1>6, PairsAreSwapped
<1>8. QED
  BY <1>2, <1>4, <1>7

LEMMA SamePairs ==
  ASSUME NEW t, NEW u, SameGuids(t, u), PairIn(t)
  PROVE  PairIn(u)
  BY DEF SameGuids, PairIn

LEMMA SwapKeepsPairs ==
  ASSUME NEW table \in Table, PairIn(table)
  PROVE  PairIn(SwapPtnGuids(table, Index))
<1> DEFINE new == SwapPtnGuids(table, Index)
<1>1. \A i \in Index : new[i].guid = table[Partner(i, Index)].guid
  BY DEF SwapPtnGuids, Table, Entry
<1> HIDE DEF new
<1>2. ASSUME NEW i \in Index, NEW j \in Index, IsPair(i, j), LunOf[i] = LunOf[j]
      PROVE  {new[i].guid, new[j].guid} = {BaseOf[i], IdleGuid}
  <2>1. Partner(i, Index) = j /\ Partner(j, Index) = i
    BY <1>2, PairFacts
  <2>2. {table[i].guid, table[j].guid} = {BaseOf[i], IdleGuid}
    BY <1>2 DEF PairIn
  <2>3. QED
    BY <1>1, <2>1, <2>2
<1>3. QED
  BY <1>2 DEF PairIn, new

(* The edits of the attributes leave the GUIDs alone. *)
LEMMA SetAttrGuids ==
  ASSUME NEW table \in Table, NEW s \in Slots, NEW attr
  PROVE  SameGuids(table, SetAttr(table, s, attr))
  BY BootIndexType DEF SetAttr, SameGuids, Table, Entry

LEMMA EditGuids ==
  ASSUME NEW table \in Table, NEW s \in Slots, NEW reset \in BOOLEAN, NEW set \in BOOLEAN
  PROVE  /\ SameGuids(table, DefaultSlotA(table))
         /\ SameGuids(table, ClearUnbootable(table, s))
         /\ SameGuids(table, SlotActivated(table, s, reset, set))
         /\ SameGuids(table, MarkPtnActive(table, s, Index))
<1>1. SameGuids(table, DefaultSlotA(table)) /\ SameGuids(table, ClearUnbootable(table, s))
  BY SetAttrGuids DEF DefaultSlotA, ClearUnbootable, Slots
<1>2. SameGuids(table, MarkPtnActive(table, s, Index))
  BY DEF MarkPtnActive, SameGuids, Table, Entry
<1>3. SameGuids(table, SlotActivated(table, s, reset, set))
  <2> DEFINE up  == Activated(BootAttr(table, s))
             new == [up EXCEPT !.successful = set \/ (@ /\ ~reset)]
             one == SetAttr(table, s, new)
             down == Deactivated(BootAttr(table, Other(s)))
  <2>1. new \in Attr
    BY BootAttrType, ActivatedType DEF Attr
  <2> HIDE DEF new, down
  <2>2. one \in Table /\ SameGuids(table, one)
    BY <2>1, SetAttrType, SetAttrGuids
  <2> HIDE DEF one
  <2>3. SameGuids(one, SetAttr(one, Other(s), down))
    BY <2>2, SetAttrGuids, OtherType
  <2>4. SameGuids(table, SetAttr(one, Other(s), down))
    BY <2>2, <2>3 DEF SameGuids
  <2>5. QED
    BY <2>4 DEF SlotActivated, one, new, down
<1>4. QED
  BY <1>1, <1>2, <1>3

-----------------------------------------------------------------------------
(* Steps *)

(* Where UpdatePartitionAttributes goes back to. *)
Returns == {"target", "setattr", "clear_b", "set", "checklun", "swap", "mark", "done", "attrs",
            "reset"}

InFlush == pc \in {"read", "walk", "write"}

(* PtnEntries has every entry as long as no lookup goes wrong; the walk over  *)
(* a LUN has begun in it, and ends behind its last entry.                     *)
WalkInv ==
  /\ known = Index
  /\ InFlush => ret \in Returns
  /\ pc \in {"walk", "write"} => \E first \in LunParts(lun) : first <= idx
  /\ pc = "write" => \A i \in LunParts(lun) : i < idx

(* PtnEntries is sorted by LUN, so that the first entry of another LUN is    *)
(* behind all entries of this one.                                           *)
LEMMA WalkDone ==
  ASSUME TypeOK, WalkInv, pc = "walk", idx \notin LunParts(lun)
  PROVE  \A i \in LunParts(lun) : i < idx
<1>1. PICK first \in LunParts(lun) : first <= idx
  BY DEF WalkInv
<1>2. SUFFICES ASSUME NEW i \in LunParts(lun), idx <= i
               PROVE  FALSE
  BY DEF LunParts, Index, TypeOK
<1>3. idx \in Index
  BY <1>1, <1>2, TableAssumption DEF LunParts, Index, TypeOK
<1>4. LunOf[first] <= LunOf[idx] /\ LunOf[idx] <= LunOf[i]
  BY <1>1, <1>2, <1>3, TableAssumption DEF LunParts
<1>5. LunOf[idx] = lun
  BY <1>1, <1>2, <1>3, <1>4, TableAssumption DEF LunParts
<1>6. QED
  BY <1>3, <1>5 DEF LunParts

(* Without transfer errors these are the steps there are. *)
LEMMA Steps ==
  ASSUME MaxFaults = 0, TypeOK, [Next]_vars
  PROVE  \/ Flush \/ Image \/ Crash \/ CrashInWrite \/ User \/ External \/ UNCHANGED vars
  BY NoFault DEF Next, Failure, LunSkipped, FlushExits, WriteFails, StartsPartly, StartFails,
                 CheckBootLunFails, SwapFails, SetBootLunFails

(* No entry is passed over. *)
LEMMA FlushSteps ==
  ASSUME WalkInv, Flush
  PROVE  ReadCopy \/ WalkGuid \/ WalkAttr \/ WalkMismatch \/ WalkEnds \/ WriteCopy
  BY DEF WalkInv, Flush, WalkSkip, LunParts

LEMMA KnownStays ==
  ASSUME MaxFaults = 0, TypeOK, known = Index, [Next]_vars
  PROVE  known' = Index
<1>1. CASE Flush
  BY <1>1 DEF Flush, ReadCopy, WalkSkip, WalkGuid, WalkAttr, WalkMismatch, WalkEnds, WriteCopy
<1>2. CASE Image
  BY <1>2 DEF Image, Start, GetCurrentSlotSuffix, ChooseSlot, ClearSlot, SetActiveSlot,
         SetSlotAttributes, CheckBootLun, SwapGuids, SetBootLun, MarkActive, DxeReturns,
         AppUpdatesGuids, AppUpdatesAttributes, ResetSystem, PowerOff
<1>3. CASE Crash \/ CrashInWrite \/ User \/ External \/ UNCHANGED vars
  BY <1>3 DEF Crash, CrashInWrite, User, PressKey, RunApp, Reboot, External, Connect,
         LoaderMarksUnbootable, PowerOff, vars
<1>4. QED
  BY <1>1, <1>2, <1>3, Steps

(* A call of UpdatePartitionAttributes begins a flush, or returns at once. *)
LEMMA CallBegins ==
  ASSUME NEW type, NEW table, NEW label, UpdatePartitionAttributes(type, table, label)
  PROVE  \/ table = bak /\ pc' = label /\ UNCHANGED flush
         \/ /\ table # bak /\ pc' = "read" /\ utype' = type /\ ret' = label /\ lun' = FirstLun
            /\ copy' = "primary" /\ UNCHANGED <<idx, ptr, buf, dirty>>
  BY DEF UpdatePartitionAttributes, Goto

LEMMA NextCopyGoes ==
  ASSUME NextCopy
  PROVE  /\ pc' \in {"read", ret}
         /\ UNCHANGED <<utype, ret, idx, ptr, buf, dirty>>
  BY DEF NextCopy, NextLun, BeginCopy, Goto, flush

(* A step of an image changes no table on the media, and begins no walk.     *)
LEMMA ImageSteps ==
  ASSUME TypeOK, Image
  PROVE  /\ UNCHANGED <<disk, crcOk>> /\ pc # "off" /\ ~InFlush
         /\ pc' \notin {"walk", "write", "start"} /\ (InFlush' => ret' \in Returns)
<1> USE DEF media, tables, flush, Goto, Returns, InFlush
<1>1. CASE Start \/ ChooseSlot \/ CheckBootLun \/ SwapGuids \/ DxeReturns
  BY <1>1 DEF Start, ChooseSlot, CheckBootLun, SwapGuids, DxeReturns
<1>2. CASE GetCurrentSlotSuffix \/ SetActiveSlot
  BY <1>2, CallBegins DEF GetCurrentSlotSuffix, SetActiveSlot, GetActiveSlot, Exit
<1>3. ASSUME NEW s \in Slots, ClearSlot(s)
      PROVE  /\ UNCHANGED <<disk, crcOk>> /\ pc # "off" /\ ~InFlush
             /\ pc' \notin {"walk", "write", "start"} /\ (InFlush' => ret' \in Returns)
  BY <1>3, CallBegins DEF ClearSlot
<1>4. CASE SetSlotAttributes \/ SetBootLun \/ MarkActive \/ AppUpdatesGuids \/ AppUpdatesAttributes
  BY <1>4, CallBegins
     DEF SetSlotAttributes, SetBootLun, MarkActive, AppUpdatesGuids, AppUpdatesAttributes
<1>5. CASE ResetSystem
  BY <1>5 DEF ResetSystem, PowerOff
<1>6. QED
  BY <1>1, <1>2, <1>3, <1>4, <1>5 DEF Image

LEMMA WalkInit == Init => WalkInv
  BY DEF Init, WalkInv, InFlush

LEMMA WalkStep ==
  ASSUME MaxFaults = 0, TypeOK, WalkInv, [Next]_vars
  PROVE  WalkInv'
<1> USE DEF flush, Returns, InFlush
<1>0. known' = Index
  BY KnownStays DEF WalkInv
<1>1. CASE ReadCopy
  <2>1. PICK first \in LunParts(lun) : idx' = first
    BY <1>1 DEF ReadCopy
  <2>2. first <= idx'
    BY <2>1 DEF LunParts, Index
  <2>3. QED
    BY <1>0, <1>1, <2>1, <2>2 DEF ReadCopy, WalkInv, LunParts
<1>2. CASE WalkGuid \/ WalkAttr \/ WalkMismatch
  <2>1. pc = "walk" /\ pc' = "walk" /\ idx' = idx + 1 /\ UNCHANGED <<ret, lun>>
    BY <1>2 DEF WalkGuid, WalkAttr, WalkMismatch, tables
  <2>2. PICK first \in LunParts(lun) : first <= idx
    BY <2>1 DEF WalkInv
  <2>3. first <= idx'
    BY <2>1, <2>2 DEF LunParts, Index, TypeOK
  <2>4. QED
    BY <1>0, <2>1, <2>2, <2>3 DEF WalkInv, LunParts
<1>3. CASE WalkEnds
  <2>1. CASE Goto("write")
    BY <1>0, <1>3, <2>1, WalkDone DEF WalkEnds, WalkInv, Goto, LunParts
  <2>2. CASE NextCopy
    BY <1>0, <1>3, <2>2, NextCopyGoes DEF WalkEnds, WalkInv
  <2>3. QED
    BY <1>0, <1>3, <2>1, <2>2 DEF WalkEnds
<1>4. CASE WriteCopy
  BY <1>0, <1>4, NextCopyGoes DEF WriteCopy, WalkInv
<1>5. CASE Image
  BY <1>0, <1>5, ImageSteps DEF WalkInv
<1>6. CASE Crash \/ CrashInWrite
  BY <1>0, <1>6 DEF Crash, CrashInWrite, PowerOff, WalkInv
<1>7. CASE User \/ External
  BY <1>0, <1>7 DEF User, PressKey, RunApp, Reboot, Goto, External, Connect, LoaderMarksUnbootable, PowerOff,
              WalkInv, LunParts
<1>8. CASE UNCHANGED vars
  BY <1>0, <1>8 DEF vars, WalkInv, LunParts
<1>9. QED
  BY <1>1, <1>2, <1>3, <1>4, <1>5, <1>6, <1>7, <1>8, Steps, FlushSteps

-----------------------------------------------------------------------------
(* Pairs keep their GUIDs *)

(* What the walk has put into the buffer of a copy. *)
BufGuids ==
  pc \in {"walk", "write"} =>
    /\ utype = "attr" => \A i \in Index : buf[i].guid = disk[copy][i].guid
    /\ utype = "guid" => \A i \in LunParts(lun) :
         buf[i].guid = IF i < idx THEN mem[i].guid ELSE disk[copy][i].guid
    /\ utype = "guid" /\ pc = "walk" => ptr = idx

PairInv ==
  /\ PairsKept /\ BufGuids
  /\ pc # "off" => PairIn(partInfo)
  /\ pc \notin {"off", "start"} => PairIn(mem)

LEMMA InitPairs ==
  ASSUME PlainNames, Init
  PROVE  PairInv
<1>1. PICK pair \in BootTables, s \in Slots : disk = [c \in Copies |-> ProvisionedTable(pair, s)]
  BY DEF Init
<1>2. ASSUME NEW i \in Index, NEW j \in Index, IsPair(i, j)
      PROVE  {ProvisionedGuid(i, s), ProvisionedGuid(j, s)} = {BaseOf[i], IdleGuid}
  <2>1. PICK t \in Slots : StartsWith(i, BaseOf[i], t) /\ StartsWith(j, BaseOf[i], Other(t))
    BY <1>2, PairsAreSwapped DEF SwapPartners, IsLastMatch
  <2>2. TailOf[i] = t /\ TailOf[j] = Other(t) /\ BaseOf[j] = BaseOf[i]
    BY <2>1 DEF StartsWith, ContainsSuffix, PlainNames
  <2>3. QED
    BY <2>2 DEF ProvisionedGuid, Slots, Other
<1>3. \A c \in Copies, i \in Index : disk[c][i].guid = ProvisionedGuid(i, s)
  BY <1>1 DEF ProvisionedTable
<1>4. PairsKept
  BY <1>2, <1>3 DEF PairsKept
<1>5. QED
  BY <1>4 DEF Init, PairInv, BufGuids

(* What an image does to PtnEntries. *)
LEMMA ImageTables ==
  ASSUME TypeOK, known = Index, Image
  PROVE  \/ pc' = "off"
         \/ /\ UNCHANGED partInfo
            /\ \/ SameGuids(mem, mem') /\ pc # "start"
               \/ mem' = SwapPtnGuids(mem, Index) /\ pc = "swap"
               \/ mem' = partInfo
<1> USE DEF tables
<1>1. mem \in Table /\ slot \in Slots /\ SameGuids(mem, mem)
  BY DEF TypeOK, SameGuids
<1>2. CASE Start \/ SwapGuids
  BY <1>2 DEF Start, SwapGuids
<1>3. CASE ChooseSlot \/ CheckBootLun \/ DxeReturns \/ SetBootLun \/ AppUpdatesGuids
           \/ AppUpdatesAttributes
  BY <1>1, <1>3
     DEF ChooseSlot, CheckBootLun, DxeReturns, SetBootLun, AppUpdatesGuids, AppUpdatesAttributes
<1>4. CASE GetCurrentSlotSuffix \/ SetActiveSlot
  <2>1. mem' = mem \/ mem' = DefaultSlotA(mem)
    BY <1>4 DEF GetCurrentSlotSuffix, SetActiveSlot, GetActiveSlot, Exit
  <2>2. SameGuids(mem, mem')
    BY <1>1, <2>1, EditGuids
  <2>3. QED
    BY <1>4, <2>2 DEF GetCurrentSlotSuffix, SetActiveSlot
<1>5. ASSUME NEW s \in Slots, ClearSlot(s)
      PROVE  SameGuids(mem, mem') /\ UNCHANGED partInfo /\ pc # "start"
  BY <1>1, <1>5, EditGuids DEF ClearSlot
<1>6. CASE SetSlotAttributes \/ MarkActive
  BY <1>1, <1>6, EditGuids DEF SetSlotAttributes, MarkActive
<1>7. CASE ResetSystem
  BY <1>7 DEF ResetSystem, PowerOff
<1>8. QED
  BY <1>2, <1>3, <1>4, <1>5, <1>6, <1>7 DEF Image

(* A copy that a step rewrites as a whole has the GUIDs of the table in      *)
(* memory, or those it had.                                                  *)
LEMMA WriteKeepsPairs ==
  ASSUME TypeOK, CopyInv, WalkInv, PairInv, WriteCopy
  PROVE  PairsKept'
<1>1. /\ \A i \in LunParts(lun) : disk'[copy][i] = buf[i]
      /\ \A c \in Copies, i \in Index :
           c # copy \/ i \notin LunParts(lun) => disk'[c][i] = disk[c][i]
  BY DEF WriteCopy, CopyWritten, TypeOK, LunParts, Table
<1>2. \A c \in Copies, i \in Index : Readable(c, i)
  BY DEF WriteCopy, CopyInv, ValidWhenOn, Readable, Luns
<1>3. SUFFICES ASSUME NEW c \in Copies, NEW i \in Index, NEW j \in Index,
                      IsPair(i, j), LunOf[i] = LunOf[j]
               PROVE  {disk'[c][i].guid, disk'[c][j].guid} = {BaseOf[i], IdleGuid}
  BY DEF PairsKept
<1>4. {disk[c][i].guid, disk[c][j].guid} = {BaseOf[i], IdleGuid}
  BY <1>2, <1>3 DEF PairInv, PairsKept
<1>5. CASE c # copy \/ i \notin LunParts(lun)
  <2>1. c # copy \/ j \notin LunParts(lun)
    BY <1>3, <1>5 DEF LunParts
  <2>2. QED
    BY <1>1, <1>4, <1>5, <2>1
<1>6. CASE c = copy /\ i \in LunParts(lun)
  <2>1. j \in LunParts(lun)
    BY <1>3, <1>6 DEF LunParts
  <2>2. disk'[c][i] = buf[i] /\ disk'[c][j] = buf[j]
    BY <1>1, <1>6, <2>1
  <2>3. CASE utype = "attr"
    BY <1>4, <1>6, <2>2, <2>3 DEF PairInv, BufGuids, WriteCopy
  <2>4. CASE utype = "guid"
    <3>1. buf[i].guid = mem[i].guid /\ buf[j].guid = mem[j].guid
      BY <1>6, <2>1, <2>4 DEF PairInv, BufGuids, WalkInv, WriteCopy
    <3>2. {mem[i].guid, mem[j].guid} = {BaseOf[i], IdleGuid}
      BY <1>3 DEF PairInv, PairIn, WriteCopy
    <3>3. QED
      BY <2>2, <3>1, <3>2
  <2>5. QED
    BY <2>3, <2>4 DEF TypeOK, UpdateTypes
<1>7. QED
  BY <1>5, <1>6

(* A torn write touches a copy that nobody reads any more. *)
LEMMA TornKeepsPairs ==
  ASSUME TypeOK, PairsKept, Torn
  PROVE  PairsKept'
<1>1. PICK cut \in LunParts(lun) \union {0} :
        /\ disk' = CopyWritten({i \in LunParts(lun) : i <= cut})
        /\ crcOk' = [crcOk EXCEPT ![copy][lun] = FALSE]
  BY DEF Torn
<1>2. \A c \in Copies, i \in Index :
        Readable(c, i)' => Readable(c, i) /\ (c # copy \/ i \notin LunParts(lun))
  BY <1>1 DEF Readable, TypeOK, LunParts, Luns
<1>3. \A c \in Copies, i \in Index :
        c # copy \/ i \notin LunParts(lun) => disk'[c][i] = disk[c][i]
  BY <1>1 DEF CopyWritten, TypeOK, Table
<1>4. SUFFICES ASSUME NEW c \in Copies, NEW i \in Index, NEW j \in Index,
                      IsPair(i, j), LunOf[i] = LunOf[j], Readable(c, i)'
               PROVE  {disk'[c][i].guid, disk'[c][j].guid} = {BaseOf[i], IdleGuid}
  BY DEF PairsKept
<1>5. c # copy \/ j \notin LunParts(lun)
  BY <1>2, <1>4 DEF LunParts
<1>6. QED
  BY <1>2, <1>3, <1>4, <1>5 DEF PairsKept

(* The partition driver restores a copy from the other one, LUN by LUN. *)
LEMMA RestoreKeepsPairs ==
  ASSUME TypeOK, PairsKept, \A l \in Luns : \E c \in Copies : crcOk[c][l]
  PROVE  \A c \in Copies : PairIn(RestoredDisk[c])
<1>1. SUFFICES ASSUME NEW c \in Copies, NEW i \in Index, NEW j \in Index,
                      IsPair(i, j), LunOf[i] = LunOf[j]
               PROVE  {RestoredDisk[c][i].guid, RestoredDisk[c][j].guid} = {BaseOf[i], IdleGuid}
  BY DEF PairIn
<1>2. PICK d \in Copies : /\ RestoredDisk[c][i] = disk[d][i] /\ RestoredDisk[c][j] = disk[d][j]
                          /\ Readable(d, i)
  <2>1. CASE Readable(c, i)
    BY <1>1, <2>1 DEF RestoredDisk, Readable
  <2>2. CASE ~Readable(c, i)
    <3>1. PICK d \in Copies : crcOk[d][LunOf[i]]
      BY DEF Luns
    <3>2. d # c
      BY <2>2, <3>1 DEF Readable
    <3>3. QED
      BY <1>1, <2>2, <3>1, <3>2 DEF RestoredDisk, Readable, Copies
  <2>3. QED
    BY <2>1, <2>2
<1>3. QED
  BY <1>1, <1>2 DEF PairsKept

LEMMA FlushPairs ==
  ASSUME TypeOK, CopyInv, WalkInv, PairInv, Flush
  PROVE  PairInv'
<1> USE DEF media, tables
<1>1. UNCHANGED <<partInfo, mem>> /\ pc \notin {"off", "start"} /\ pc' \notin {"off", "start"}
  <2>1. CASE ReadCopy \/ WalkGuid \/ WalkAttr \/ WalkMismatch
    BY <2>1 DEF ReadCopy, WalkGuid, WalkAttr, WalkMismatch
  <2>2. CASE WalkEnds \/ WriteCopy
    <3>1. pc' \in {"write", "read", ret}
      BY <2>2, NextCopyGoes DEF WalkEnds, WriteCopy, Goto
    <3>2. QED
      BY <2>2, <3>1 DEF WalkEnds, WriteCopy, WalkInv, Returns, InFlush
  <2>3. QED
    BY <2>1, <2>2, FlushSteps
<1>2. PairIn(partInfo)' /\ PairIn(mem)'
  BY <1>1 DEF PairInv, PairIn
<1>3. CASE ReadCopy
  <2>1. BufGuids'
    BY <1>3 DEF ReadCopy, BufGuids, LunParts, Index, IsFirst
  <2>2. PairsKept'
    BY <1>3 DEF ReadCopy, PairInv, PairsKept, Readable
  <2>3. QED
    BY <1>2, <2>1, <2>2 DEF PairInv
<1>4. CASE WalkGuid
  <2>1. idx \in Index /\ ptr = idx /\ idx' = idx + 1 /\ ptr' = ptr + 1
    BY <1>4 DEF WalkGuid, LunParts, PairInv, BufGuids
  <2>2. \A i \in Index : buf'[i].guid = IF i = idx THEN mem[i].guid ELSE buf[i].guid
    <3>1. CASE buf[ptr].guid # mem[idx].guid
      BY <1>4, <2>1, <3>1 DEF WalkGuid, TypeOK, Table, Entry
    <3>2. CASE buf[ptr].guid = mem[idx].guid
      BY <1>4, <2>1, <3>2 DEF WalkGuid
    <3>3. QED
      BY <3>1, <3>2
  <2>3. BufGuids'
    <3>1. SUFFICES ASSUME NEW i \in LunParts(lun)
                   PROVE  buf'[i].guid = IF i < idx' THEN mem[i].guid ELSE disk[copy][i].guid
      BY <1>4, <2>1 DEF WalkGuid, BufGuids, LunParts
    <3>2. i \in Index /\ buf[i].guid = IF i < idx THEN mem[i].guid ELSE disk[copy][i].guid
      BY <1>4 DEF WalkGuid, BufGuids, PairInv, LunParts
    <3>3. QED
      BY <2>1, <2>2, <3>2 DEF Index
  <2>4. PairsKept'
    BY <1>4 DEF WalkGuid, PairInv, PairsKept, Readable
  <2>5. QED
    BY <1>2, <2>3, <2>4 DEF PairInv
<1>5. CASE WalkAttr
  <2>1. \A i \in Index : buf'[i].guid = buf[i].guid
    <3>1. CASE buf[ptr].attr # mem[idx].attr
      <4>1. buf' = [buf EXCEPT ![ptr].attr = mem[idx].attr] /\ buf \in [Index -> Entry]
        BY <1>5, <3>1 DEF WalkAttr, TypeOK, Table
      <4>2. \A i \in Index : buf'[i] = IF i = ptr THEN [buf[i] EXCEPT !.attr = mem[idx].attr]
                                       ELSE buf[i]
        BY <4>1
      <4>3. QED
        BY <4>1, <4>2 DEF Entry
    <3>2. CASE buf[ptr].attr = mem[idx].attr
      BY <1>5, <3>2 DEF WalkAttr
    <3>3. QED
      BY <3>1, <3>2
  <2>2. BufGuids'
    BY <1>5, <2>1 DEF WalkAttr, BufGuids, PairInv
  <2>3. PairsKept'
    BY <1>5 DEF WalkAttr, PairInv, PairsKept, Readable
  <2>4. QED
    BY <1>2, <2>2, <2>3 DEF PairInv
<1>6. CASE WalkMismatch
  BY <1>2, <1>6 DEF WalkMismatch, PairInv, BufGuids, PairsKept, Readable
<1>7. CASE WalkEnds
  <2>1. BufGuids'
    <3>1. CASE Goto("write")
      BY <1>1, <1>7, <3>1 DEF WalkEnds, Goto, flush, PairInv, BufGuids, LunParts
    <3>2. CASE NextCopy
      BY <1>7, <3>2, NextCopyGoes DEF WalkEnds, BufGuids, WalkInv, Returns, InFlush
    <3>3. QED
      BY <1>7, <3>1, <3>2 DEF WalkEnds
  <2>2. PairsKept'
    BY <1>7 DEF WalkEnds, PairInv, PairsKept, Readable
  <2>3. QED
    BY <1>2, <2>1, <2>2 DEF PairInv
<1>8. CASE WriteCopy
  <2>1. BufGuids'
    BY <1>8, NextCopyGoes DEF WriteCopy, BufGuids, WalkInv, Returns, InFlush
  <2>2. QED
    BY <1>2, <1>8, <2>1, WriteKeepsPairs DEF PairInv
<1>9. QED
  BY <1>3, <1>4, <1>5, <1>6, <1>7, <1>8, FlushSteps

LEMMA ImagePairs ==
  ASSUME TypeOK, known = Index, PairInv, Image
  PROVE  PairInv'
<1>1. UNCHANGED <<disk, crcOk>> /\ pc # "off" /\ pc' \notin {"walk", "write", "start"}
  BY ImageSteps
<1>2. PairsKept' /\ BufGuids'
  BY <1>1 DEF PairInv, PairsKept, BufGuids, Readable
<1>3. CASE pc' = "off"
  BY <1>2, <1>3 DEF PairInv
<1>4. CASE pc' # "off"
  <2>1. UNCHANGED partInfo /\ PairIn(partInfo)
    BY <1>1, <1>4, ImageTables DEF PairInv
  <2>2. mem \in Table /\ partInfo \in Table
    BY DEF TypeOK
  <2>3. PairIn(mem')
    <3>1. CASE SameGuids(mem, mem') /\ pc # "start"
      BY <1>1, <3>1, SamePairs DEF PairInv
    <3>2. CASE mem' = SwapPtnGuids(mem, Index) /\ pc = "swap"
      BY <2>2, <3>2, SwapKeepsPairs DEF PairInv
    <3>3. CASE mem' = partInfo
      BY <2>1, <3>3
    <3>4. QED
      BY <1>4, <3>1, <3>2, <3>3, ImageTables
  <2>4. QED
    BY <1>2, <2>1, <2>3 DEF PairInv, PairIn
<1>5. QED
  BY <1>3, <1>4

(* Outside the images, power goes and comes, and the loader edits attributes. *)
LEMMA OutsidePairs ==
  ASSUME TypeOK, PairInv, Crash \/ CrashInWrite \/ User \/ External
  PROVE  PairInv'
<1> USE DEF media, tables
<1>1. CASE Crash \/ Reboot
  BY <1>1 DEF Crash, Reboot, PowerOff, PairInv, BufGuids, PairsKept, Readable
<1>2. CASE CrashInWrite
  BY <1>2, TornKeepsPairs DEF CrashInWrite, PowerOff, PairInv, BufGuids
<1>3. CASE PressKey \/ RunApp
  <2>1. pc \in {"key", "idle"} /\ pc' \in {"idle", "start"}
    BY <1>3 DEF PressKey, RunApp, Goto
  <2>2. UNCHANGED <<disk, crcOk, partInfo, mem>>
    BY <1>3 DEF PressKey, RunApp
  <2>3. QED
    BY <2>1, <2>2 DEF PairInv, BufGuids, PairsKept, PairIn, Readable
<1>4. CASE Connect
  <2>1. \A c \in Copies : PairIn(RestoredDisk[c])
    BY <1>4, RestoreKeepsPairs DEF PairInv, Connect
  <2>2. PairsKept'
    BY <1>4, <2>1 DEF Connect, PairsKept, PairIn
  <2>3. PairIn(partInfo)'
    BY <1>4, <2>1, CopiesExist DEF Connect, PairIn
  <2>4. QED
    BY <1>4, <2>2, <2>3 DEF Connect, PairInv, BufGuids
<1>5. ASSUME NEW s \in Slots, LoaderMarksUnbootable(s)
      PROVE  PairInv'
  <2>1. \A c \in Copies : SameGuids(disk[c], disk'[c])
    BY <1>5, SetAttrGuids DEF LoaderMarksUnbootable, TypeOK
  <2>2. PairsKept'
    <3>1. crcOk' = crcOk /\ \A c \in Copies, i \in Index : disk'[c][i].guid = disk[c][i].guid
      BY <1>5, <2>1 DEF SameGuids, LoaderMarksUnbootable
    <3>2. QED
      BY <3>1 DEF PairInv, PairsKept, Readable
  <2>3. QED
    BY <1>5, <2>2 DEF PairInv, BufGuids, LoaderMarksUnbootable
<1>6. QED
  BY <1>1, <1>2, <1>3, <1>4, <1>5 DEF User, External

(* The invariant of the copies, as one lemma. *)
LEMMA CopyStep ==
  ASSUME MaxFaults = 0, TypeOK, CopyInv, [Next]_vars
  PROVE  CopyInv'
<1>1. CASE UNCHANGED vars
  BY <1>1 DEF vars, media, CopyInv, ValidWhenOn, SomeCopyValid
<1>2. QED
  BY <1>1, FlushCopies, ImageCopies, FailureCopies, OutsideCopies DEF Next

LEMMA PairStep ==
  ASSUME MaxFaults = 0, TypeOK, CopyInv, WalkInv, PairInv, [Next]_vars
  PROVE  PairInv'
<1>1. CASE UNCHANGED vars
  BY <1>1 DEF vars, media, tables, flush, PairInv, BufGuids, PairsKept, PairIn, Readable, LunParts
<1>2. QED
  BY <1>1, FlushPairs, ImagePairs, OutsidePairs, Steps DEF WalkInv

(* Wherever and however often power fails, and as long as no transfer fails, *)
(* no copy that a boot may read has a half-swapped pair: one side of every   *)
(* pair within a LUN has the live GUID, the other the idle one               *)
(* (SwitchPtnSlots, UpdatePartitionAttributes).                              *)
THEOREM PairsSurvive == MaxFaults = 0 /\ PlainNames => (Spec => []PairsKept)
<1>1. SUFFICES ASSUME MaxFaults = 0, PlainNames
               PROVE  Spec => []PairsKept
  OBVIOUS
<1>2. Init => CopyInv /\ WalkInv /\ PairInv
  BY <1>1, InitCopies, WalkInit, InitPairs
<1>3. TypeOK /\ CopyInv /\ WalkInv /\ PairInv /\ [Next]_vars => CopyInv' /\ WalkInv' /\ PairInv'
  BY <1>1, CopyStep, WalkStep, PairStep
<1>4. PairInv => PairsKept
  BY DEF PairInv
<1>5. QED
  BY <1>2, <1>3, <1>4, TypeCorrect, PTL DEF Spec

-----------------------------------------------------------------------------
(* The slot that SetActiveSlot leaves behind *)

(* The point of an image that runs or waits for its flush. *)
Point == IF InFlush THEN ret ELSE pc

(* Before SetActiveSlot writes the attributes, and from then on. *)
Early == {"current", "target", "clear_a", "clear_b", "set", "setattr"}
Late  == {"checklun", "swap", "setlun", "mark", "done", "attrs", "reset"}

BootEntries == {BootIndex("a"), BootIndex("b")}

Field(entry, f) == IF f = "attr" THEN entry.attr ELSE entry.guid
OtherField(f)   == IF f = "attr" THEN "guid" ELSE "attr"

Primary(i) == disk["primary"][i]

(* PtnEntriesBak knows what the primary holds, but for the attributes of the *)
(* boot entries in SwitchSlotsApp: the partition driver read them before     *)
(* BootSlotDxe changed them.                                                 *)
Tracked(i, f) == f = "guid" \/ image = "dxe" \/ i \notin BootEntries

(* Where an image is, and what it has found or done by then. *)
Cursor ==
  /\ Point \in {"clear_a", "clear_b", "checklun"} => image = "dxe"
  /\ Point \in {"swap", "setlun", "mark", "attrs", "reset"} => image = "app"
  /\ Point \in {"target", "clear_a", "clear_b", "set"} =>
       \/ ActiveSlots(mem) = {cur}
       \/ image = "dxe" /\ ActiveSlots(mem) = {} /\ cur = "a"
  /\ Point = "setattr" => ActiveSlots(mem) = {cur}
  /\ Point \in {"clear_a", "clear_b", "set", "setattr"} =>
       slot = IF image = "dxe" THEN cur ELSE Other(cur)
  /\ Point \in Late => /\ BootAttr(mem, slot).active
                       /\ BootAttr(mem, slot).priority = MAX_PRIORITY
                       /\ ~BootAttr(mem, Other(slot)).active

(* The app's PtnEntriesBak does not yet have its target for the active slot: *)
(* the flush of the new attributes is not skipped.                           *)
BakBehind ==
  image = "app" =>
    /\ Point = "current" => mem = bak
    /\ Point \in {"target", "set", "setattr"} =>
         /\ Other(cur) \notin ActiveSlots(bak)
         /\ InFlush => cur = "a" /\ ~Candidate(bak, "b") /\ ~Candidate(mem, "b")

(* Between two flushes. *)
Rest ==
  pc \in Early \union Late =>
    \A i \in Index :
      /\ bak[i].guid = Primary(i).guid
      /\ pc # "setlun" => mem[i].guid = Primary(i).guid
      /\ Tracked(i, "attr") => bak[i].attr = Primary(i).attr
      /\ Tracked(i, "attr") \/ pc \in Late => mem[i].attr = Primary(i).attr

(* Inside of one: the primary copies written so far, and the entries walked. *)
Written(i) == LunOf[i] < lun \/ (LunOf[i] = lun /\ copy = "backup")
Walked(i)  == pc \in {"walk", "write"} /\ i \in LunParts(lun) /\ i < idx

Flushing ==
  InFlush =>
    \A i \in Index :
      /\ Field(Primary(i), OtherField(utype)) = Field(mem[i], OtherField(utype))
      /\ Tracked(i, OtherField(utype)) =>
           Field(bak[i], OtherField(utype)) = Field(mem[i], OtherField(utype))
      /\ Written(i) => Field(Primary(i), utype) = Field(mem[i], utype)
      /\ Tracked(i, utype) =>
           Field(bak[i], utype) =
             Field(IF Written(i) \/ Walked(i) THEN mem[i] ELSE Primary(i), utype)

Buffer ==
  pc \in {"walk", "write"} /\ copy = "primary" =>
    /\ pc = "walk" => ptr = idx
    /\ \A i \in LunParts(lun) :
         /\ Field(buf[i], OtherField(utype)) = Field(Primary(i), OtherField(utype))
         /\ Field(buf[i], utype) = Field(IF i < idx THEN mem[i] ELSE Primary(i), utype)
         /\ ~dirty => buf[i] = Primary(i)

(* What the partition driver remembers is out of date only in the boot       *)
(* attributes, and only after BootSlotDxe began.                             *)
Remembered ==
  /\ pc = "start" /\ image = "dxe" => partInfo = disk["primary"]
  /\ pc # "off" /\ (image = "dxe" \/ Point \in {"start", "idle", "key", "current"}) =>
       \A i \in Index : /\ partInfo[i].guid = Primary(i).guid
                        /\ i \notin BootEntries => partInfo[i].attr = Primary(i).attr
  /\ InFlush /\ image = "dxe" => utype = "attr"
  /\ pc \notin {"off", "start"} /\ image = "dxe" =>
       \A i \in Index \ BootEntries : mem[i].attr = partInfo[i].attr

LunInv ==
  /\ bootLun \in {1, 2}
  /\ IsUfs /\ Point \in {"mark", "done", "attrs", "reset"} => bootLun = LunOfSlot(slot)

SlotInv == Cursor /\ BakBehind /\ Rest /\ Flushing /\ Buffer /\ Remembered /\ LunInv

-----------------------------------------------------------------------------
(* The boot attributes *)

LEMMA BootIndexTail == \A s \in Slots : TailOf[BootIndex(s)] = s /\ BootIndex(s) \in Index
<1> SUFFICES ASSUME NEW s \in Slots
             PROVE  TailOf[BootIndex(s)] = s /\ BootIndex(s) \in Index
  OBVIOUS
<1> DEFINE hits == {i \in Index : /\ Exactly(i, "boot", s)
                                  /\ \A j \in Index : Exactly(j, "boot", s) => i <= j}
<1>1. BootIndex(s) = IF hits = {} THEN 0 ELSE CHOOSE i \in hits : TRUE
  BY DEF BootIndex, GetPartitionIndex
<1>2. BootIndex(s) \in Index /\ BootIndex(s) # 0
  BY BootIndexType DEF Index
<1>3. BootIndex(s) \in hits
  <2> HIDE DEF hits
  <2>1. QED
    BY <1>1, <1>2
<1>4. QED
  BY <1>2, <1>3 DEF Exactly

LEMMA BootDiffer == BootIndex("a") # BootIndex("b")
  BY BootIndexTail DEF Slots

LEMMA BootEntry == \A s \in Slots : BootIndex(s) \in BootEntries
  BY DEF BootEntries, Slots

(* What GetActiveSlot picks depends on two bits of the two boot entries. *)
LEMMA SameActive ==
  ASSUME NEW t, NEW u,
         \A s \in Slots : /\ BootAttr(u, s).active = BootAttr(t, s).active
                          /\ BootAttr(u, s).priority = BootAttr(t, s).priority
  PROVE  /\ ActiveSlots(u) = ActiveSlots(t)
         /\ \A s \in Slots : Candidate(u, s) = Candidate(t, s)
<1>1. \A s \in Slots : Candidate(u, s) = Candidate(t, s)
  BY DEF Candidate
<1>2. \A s \in Slots : s \in ActiveSlots(u) <=> s \in ActiveSlots(t)
  BY <1>1, OtherType DEF ActiveSlots, Slots
<1>3. QED
  BY <1>1, <1>2 DEF ActiveSlots

LEMMA OneActive ==
  ASSUME NEW table \in Table, NEW s \in ActiveSlots(table)
  PROVE  ActiveSlots(table) = {s} /\ s \in Slots
<1>1. BootAttr(table, "a").priority \in Nat /\ BootAttr(table, "b").priority \in Nat
  BY BootAttrType DEF Slots, Attr, MAX_PRIORITY
<1>2. s \in Slots
  BY DEF ActiveSlots
<1>3. Other(s) \notin ActiveSlots(table)
  BY <1>1, <1>2 DEF ActiveSlots, Slots, Other
<1>4. \A t \in ActiveSlots(table) : t \in {s, Other(s)}
  BY <1>2 DEF ActiveSlots, Slots, Other
<1>5. QED
  BY <1>2, <1>3, <1>4

(* The slot whose entry has ACTIVE, when the other one's has not. *)
LEMMA TheActive ==
  ASSUME NEW table, NEW s \in Slots,
         BootAttr(table, s).active, BootAttr(table, s).priority = MAX_PRIORITY,
         ~BootAttr(table, Other(s)).active
  PROVE  ActiveSlots(table) = {s}
<1>1. Candidate(table, s) /\ ~Candidate(table, Other(s))
  BY DEF Candidate, MAX_PRIORITY
<1>2. Other(Other(s)) = s /\ Slots = {s, Other(s)}
  BY DEF Other, Slots
<1>3. QED
  BY <1>1, <1>2 DEF ActiveSlots

LEMMA SetAttrEntries ==
  ASSUME NEW table \in Table, NEW s \in Slots, NEW attr
  PROVE  /\ BootAttr(SetAttr(table, s, attr), s) = attr
         /\ BootAttr(SetAttr(table, s, attr), Other(s)) = BootAttr(table, Other(s))
         /\ \A i \in Index : i # BootIndex(s) => SetAttr(table, s, attr)[i] = table[i]
<1>1. BootIndex(s) \in Index /\ BootIndex(Other(s)) \in Index /\ BootIndex(Other(s)) # BootIndex(s)
  BY BootIndexType, BootDiffer DEF Slots, Other
<1>2. \A i \in Index :
        SetAttr(table, s, attr)[i] =
          IF i = BootIndex(s) THEN [table[i] EXCEPT !.attr = attr] ELSE table[i]
  BY <1>1 DEF SetAttr, Table
<1>3. [table[BootIndex(s)] EXCEPT !.attr = attr].attr = attr
  BY <1>1 DEF Table, Entry
<1>4. QED
  BY <1>1, <1>2, <1>3 DEF BootAttr

(* The edits of GetActiveSlot, BootSlotDxe and SetActiveSlot. *)
LEMMA DefaultSlotAEdit ==
  ASSUME NEW table \in Table, FirstBoot(table)
  PROVE  /\ ActiveSlots(DefaultSlotA(table)) = {"a"}
         /\ ~Candidate(table, "b") /\ ~Candidate(DefaultSlotA(table), "b")
         /\ \A i \in Index \ BootEntries : DefaultSlotA(table)[i] = table[i]
<1> DEFINE attr == [Activated(BootAttr(table, "a")) EXCEPT !.successful = FALSE]
<1>1. attr.active /\ attr.priority = MAX_PRIORITY
  BY DEF Activated
<1>2. ~Candidate(table, "a") /\ ~Candidate(table, "b")
  BY DEF FirstBoot, ActiveSlots, Candidate, Slots, Other
<1> DEFINE new == SetAttr(table, "a", attr)
<1> HIDE DEF attr
<1>3. /\ BootAttr(new, "a") = attr /\ BootAttr(new, "b") = BootAttr(table, "b")
      /\ \A i \in Index \ BootEntries : new[i] = table[i]
  BY SetAttrEntries, BootEntry DEF Slots, Other
<1> HIDE DEF new
<1>4. ~Candidate(new, "b") /\ Candidate(new, "a")
  BY <1>1, <1>2, <1>3 DEF Candidate, MAX_PRIORITY
<1>5. ActiveSlots(new) = {"a"}
  BY <1>4 DEF ActiveSlots, Slots, Other
<1>6. QED
  BY <1>2, <1>3, <1>4, <1>5 DEF DefaultSlotA, new, attr

LEMMA ClearUnbootableEdit ==
  ASSUME NEW table \in Table, NEW s \in Slots
  PROVE  /\ ActiveSlots(ClearUnbootable(table, s)) = ActiveSlots(table)
         /\ \A i \in Index \ BootEntries : ClearUnbootable(table, s)[i] = table[i]
<1> DEFINE attr == [BootAttr(table, s) EXCEPT !.unbootable = FALSE, !.fullRetry = TRUE]
           new == SetAttr(table, s, attr)
<1>1. attr.active = BootAttr(table, s).active /\ attr.priority = BootAttr(table, s).priority
  BY BootAttrType DEF Attr
<1> HIDE DEF attr
<1>2. /\ BootAttr(new, s) = attr /\ BootAttr(new, Other(s)) = BootAttr(table, Other(s))
      /\ \A i \in Index \ BootEntries : new[i] = table[i]
  BY SetAttrEntries, BootEntry
<1> HIDE DEF new
<1>3. \A t \in Slots : t \in {s, Other(s)}
  BY DEF Slots, Other
<1>4. ActiveSlots(new) = ActiveSlots(table)
  BY <1>1, <1>2, <1>3, SameActive
<1>5. QED
  BY <1>2, <1>4 DEF ClearUnbootable, new, attr

LEMMA SlotActivatedEdit ==
  ASSUME NEW table \in Table, NEW s \in Slots, NEW reset \in BOOLEAN, NEW set \in BOOLEAN
  PROVE  /\ BootAttr(SlotActivated(table, s, reset, set), s).active
         /\ BootAttr(SlotActivated(table, s, reset, set), s).priority = MAX_PRIORITY
         /\ ~BootAttr(SlotActivated(table, s, reset, set), Other(s)).active
         /\ \A i \in Index \ BootEntries : SlotActivated(table, s, reset, set)[i] = table[i]
<1> DEFINE up   == Activated(BootAttr(table, s))
           new  == [up EXCEPT !.successful = set \/ (@ /\ ~reset)]
           one  == SetAttr(table, s, new)
           down == Deactivated(BootAttr(table, Other(s)))
           two  == SetAttr(one, Other(s), down)
<1>1. new \in Attr /\ new.active /\ new.priority = MAX_PRIORITY
  <2>1. up \in Attr /\ up.active /\ up.priority = MAX_PRIORITY
    BY BootAttrType, ActivatedType DEF Activated
  <2> HIDE DEF up
  <2>2. QED
    BY <2>1 DEF Attr
<1>2. ~down.active
  BY BootAttrType, OtherType DEF Deactivated, Attr
<1> HIDE DEF new, down
<1>3. /\ one \in Table /\ BootAttr(one, s) = new
      /\ \A i \in Index \ BootEntries : one[i] = table[i]
  BY <1>1, SetAttrType, SetAttrEntries, BootEntry
<1> HIDE DEF one
<1>4. Other(s) \in Slots /\ Other(Other(s)) = s
  BY DEF Slots, Other
<1>5. /\ BootAttr(two, Other(s)) = down /\ BootAttr(two, s) = new
      /\ \A i \in Index \ BootEntries : two[i] = table[i]
  BY <1>3, <1>4, SetAttrEntries, BootEntry
<1>6. QED
  BY <1>1, <1>2, <1>5 DEF SlotActivated, two, one, new, up, down

(* The boot entries are marked already when MarkPtnActive comes to them. *)
LEMMA MarkPtnActiveEdit ==
  ASSUME NEW table \in Table, NEW s \in Slots,
         BootAttr(table, s).active, ~BootAttr(table, Other(s)).active
  PROVE  \A i \in BootEntries : MarkPtnActive(table, s, Index)[i] = table[i]
<1>1. SUFFICES ASSUME NEW t \in Slots
               PROVE  MarkPtnActive(table, s, Index)[BootIndex(t)] = table[BootIndex(t)]
  BY DEF BootEntries, Slots
<1> DEFINE i == BootIndex(t)
<1>2. i \in Index /\ TailOf[i] = t
  BY BootIndexTail
<1>3. ContainsSuffix(i, s) = (t = s)
  BY <1>2 DEF ContainsSuffix, Slots
<1>4. table[i] \in Entry /\ table[i].attr \in Attr /\ table[i].attr.active = (t = s)
  <2>1. table[i] \in Entry /\ table[i].attr \in Attr
    BY <1>2 DEF Table, Entry
  <2>2. table[i].attr.active = (t = s)
    BY <2>1 DEF BootAttr, Slots, Other, Attr
  <2>3. QED
    BY <2>1, <2>2
<1>5. [table[i] EXCEPT !.attr.active = (t = s)] = table[i]
  BY <1>4 DEF Entry, Attr
<1>6. QED
  BY <1>2, <1>3, <1>5 DEF MarkPtnActive

-----------------------------------------------------------------------------
(* Steps of a flush *)

(* A flush works on the media, its buffer and PtnEntriesBak. *)
LEMMA FlushQuiet ==
  ASSUME TypeOK, WalkInv, Flush
  PROVE  /\ UNCHANGED <<mem, partInfo, image, cur, slot, bootLun, ret, utype>>
         /\ InFlush /\ pc' \in {"read", "walk", "write", ret} /\ ret \in Returns
         /\ Point' = Point /\ Point = ret
<1> USE DEF media, tables
<1>1. CASE ReadCopy \/ WalkGuid \/ WalkAttr \/ WalkMismatch
  BY <1>1 DEF ReadCopy, WalkGuid, WalkAttr, WalkMismatch, InFlush, WalkInv, Returns, Point
<1>2. CASE WalkEnds \/ WriteCopy
  <2>1. pc' \in {"write", "read", ret} /\ UNCHANGED <<ret, utype>>
    BY <1>2, NextCopyGoes DEF WalkEnds, WriteCopy, Goto, flush
  <2>2. QED
    BY <1>2, <2>1 DEF WalkEnds, WriteCopy, InFlush, WalkInv, Returns, Point
<1>3. QED
  BY <1>1, <1>2, FlushSteps

LEMMA FieldsApart == \A f \in UpdateTypes : OtherField(f) \in UpdateTypes /\ OtherField(f) # f
  BY DEF UpdateTypes, OtherField

(* An entry is its two fields. *)
LEMMA TwoFields ==
  ASSUME NEW e \in Entry, NEW x \in Entry, NEW f \in UpdateTypes,
         Field(e, f) = Field(x, f), Field(e, OtherField(f)) = Field(x, OtherField(f))
  PROVE  e = x
  BY DEF Entry, UpdateTypes, Field, OtherField

(* One step of the walk: entry idx of the buffer's copy gets the field, and  *)
(* PtnEntriesBak does too where the media was out of date.                   *)
WalkStepAt(f) ==
  /\ pc = "walk" /\ pc' = "walk" /\ utype = f
  /\ idx \in LunParts(lun) /\ idx' = idx + 1
  /\ UNCHANGED <<disk, mem, image, utype, lun, copy>>
  /\ \A i \in Index : /\ Field(bak'[i], OtherField(f)) = Field(bak[i], OtherField(f))
                      /\ i # idx => Field(bak'[i], f) = Field(bak[i], f)
                      /\ Field(bak'[idx], f) \in {Field(mem[idx], f), Field(bak[idx], f)}
  /\ copy = "primary" =>
       /\ ptr = idx /\ ptr' = idx'
       /\ \A i \in Index :
            /\ Field(buf'[i], OtherField(f)) = Field(buf[i], OtherField(f))
            /\ Field(buf'[i], f) = Field(IF i = idx THEN mem[i] ELSE buf[i], f)
       /\ ~dirty' => ~dirty /\ buf' = buf
       /\ Field(bak'[idx], f) # Field(mem[idx], f) =>
            /\ Field(bak'[idx], f) = Field(bak[idx], f)
            /\ Field(buf[idx], f) = Field(mem[idx], f)

Put(t, k, entry, f) ==
  IF f = "attr" THEN [t EXCEPT ![k].attr = entry.attr] ELSE [t EXCEPT ![k].guid = entry.guid]

LEMMA PutFields ==
  ASSUME NEW t \in Table, NEW e \in Entry, NEW k, NEW f \in UpdateTypes
  PROVE  \A i \in Index : /\ Field(Put(t, k, e, f)[i], OtherField(f)) = Field(t[i], OtherField(f))
                          /\ Field(Put(t, k, e, f)[i], f) = IF i = k THEN Field(e, f) ELSE Field(t[i], f)
<1>1. t \in [Index -> Entry]
  BY DEF Table
<1>2. CASE f = "attr"
  <2>1. \A i \in Index :
          Put(t, k, e, f)[i] = IF i = k THEN [t[i] EXCEPT !.attr = e.attr] ELSE t[i]
    BY <1>1, <1>2 DEF Put
  <2>2. QED
    BY <1>1, <1>2, <2>1 DEF Entry, Field, OtherField
<1>3. CASE f = "guid"
  <2>1. \A i \in Index :
          Put(t, k, e, f)[i] = IF i = k THEN [t[i] EXCEPT !.guid = e.guid] ELSE t[i]
    BY <1>1, <1>3 DEF Put
  <2>2. QED
    BY <1>1, <1>3, <2>1 DEF Entry, Field, OtherField
<1>4. QED
  BY <1>2, <1>3 DEF UpdateTypes

LEMMA WalkSteps ==
  ASSUME TypeOK, Flushing, Buffer, WalkGuid \/ WalkAttr \/ WalkMismatch
  PROVE  WalkStepAt(utype)
<1> USE DEF media, tables
<1>1. idx \in Index /\ utype \in UpdateTypes /\ InFlush
  BY DEF WalkGuid, WalkAttr, WalkMismatch, LunParts, TypeOK, InFlush
<1>2. mem \in Table /\ buf \in Table /\ bak \in Table
  BY DEF TypeOK
<1>3. copy = "primary" => ptr = idx
  BY DEF WalkGuid, WalkAttr, WalkMismatch, Buffer
<1>4. CASE WalkGuid \/ WalkAttr
  <2>1. utype = IF WalkGuid THEN "guid" ELSE "attr"
    BY <1>4 DEF WalkGuid, WalkAttr
  <2>2. /\ pc = "walk" /\ pc' = "walk" /\ idx \in LunParts(lun) /\ idx' = idx + 1
        /\ ptr' = ptr + 1 /\ UNCHANGED <<disk, mem, image, utype, lun, copy>>
    BY <1>4 DEF WalkGuid, WalkAttr
  <2>3. CASE Field(buf[ptr], utype) # Field(mem[idx], utype)
    <3>1. /\ buf' = Put(buf, ptr, mem[idx], utype) /\ bak' = Put(bak, idx, mem[idx], utype)
          /\ dirty'
      BY <1>4, <2>3 DEF WalkGuid, WalkAttr, Field, Put
    <3>2. mem[idx] \in Entry
      BY <1>1, <1>2 DEF Table
    <3>3. /\ \A i \in Index :
               /\ Field(buf'[i], OtherField(utype)) = Field(buf[i], OtherField(utype))
               /\ Field(buf'[i], utype) =
                    IF i = ptr THEN Field(mem[idx], utype) ELSE Field(buf[i], utype)
          /\ \A i \in Index :
               /\ Field(bak'[i], OtherField(utype)) = Field(bak[i], OtherField(utype))
               /\ Field(bak'[i], utype) =
                    IF i = idx THEN Field(mem[idx], utype) ELSE Field(bak[i], utype)
      BY <1>1, <1>2, <3>1, <3>2, PutFields
    <3>4. QED
      BY <1>1, <1>3, <2>2, <3>1, <3>3 DEF WalkStepAt
  <2>4. CASE Field(buf[ptr], utype) = Field(mem[idx], utype)
    <3>1. UNCHANGED <<buf, bak, dirty>>
      BY <1>4, <2>4 DEF WalkGuid, WalkAttr, Field
    <3>2. QED
      BY <1>1, <1>3, <2>2, <2>4, <3>1 DEF WalkStepAt
  <2>5. QED
    BY <2>3, <2>4
<1>5. CASE WalkMismatch
  <2>1. copy # "primary"
    <3>1. SUFFICES ASSUME copy = "primary"
                   PROVE  FALSE
      OBVIOUS
    <3>2. buf[idx].guid = Primary(idx).guid /\ Primary(idx).guid = mem[idx].guid
      BY <1>1, <1>5, <3>1 DEF WalkMismatch, Flushing, Buffer, Field, OtherField
    <3>3. QED
      BY <1>3, <1>5, <3>1, <3>2 DEF WalkMismatch
  <2>2. QED
    BY <1>1, <1>5, <2>1 DEF WalkMismatch, WalkStepAt
<1>6. QED
  BY <1>4, <1>5

LEMMA WalkFlushing ==
  ASSUME TypeOK, WalkInv, Flushing, Buffer, WalkStepAt(utype)
  PROVE  Flushing' /\ Buffer'
<1>1. idx \in Index /\ InFlush /\ InFlush' /\ utype \in UpdateTypes /\ idx \in Nat
  BY DEF WalkStepAt, LunParts, TypeOK, InFlush
<1>2. \A i \in Index : /\ Primary(i)' = Primary(i) /\ Written(i)' = Written(i)
                       /\ \A f \in UpdateTypes : Tracked(i, f)' = Tracked(i, f)
  BY DEF WalkStepAt, Primary, Written, Tracked
<1>3. \A i \in Index : Walked(i)' <=> Walked(i) \/ i = idx
  BY <1>1 DEF WalkStepAt, Walked, LunParts, Index
<1>4. ~Walked(idx) /\ (Written(idx) <=> copy = "backup")
  BY <1>1, TableAssumption DEF Walked, Written, WalkStepAt, LunParts, TypeOK
<1>5. Buffer'
  <2>1. CASE copy = "primary"
    <3>1. ptr' = idx'
      BY <2>1 DEF WalkStepAt
    <3>2. SUFFICES ASSUME NEW i \in LunParts(lun)
                   PROVE  /\ Field(buf'[i], OtherField(utype)) = Field(Primary(i), OtherField(utype))
                          /\ Field(buf'[i], utype) =
                               Field(IF i < idx' THEN mem[i] ELSE Primary(i), utype)
                          /\ ~dirty' => buf'[i] = Primary(i)
      BY <1>2, <2>1, <3>1 DEF Buffer, WalkStepAt, LunParts
    <3>3. i \in Index /\ (i < idx' <=> i < idx \/ i = idx)
      BY <1>1 DEF LunParts, Index, WalkStepAt
    <3>4. /\ Field(buf[i], OtherField(utype)) = Field(Primary(i), OtherField(utype))
          /\ Field(buf[i], utype) = Field(IF i < idx THEN mem[i] ELSE Primary(i), utype)
          /\ ~dirty => buf[i] = Primary(i)
      BY <2>1 DEF Buffer, WalkStepAt
    <3>5. QED
      BY <2>1, <3>3, <3>4 DEF WalkStepAt
  <2>2. CASE copy # "primary"
    BY <2>2 DEF WalkStepAt, Buffer
  <2>3. QED
    BY <2>1, <2>2
<1>6. Flushing'
  <2>1. SUFFICES ASSUME NEW i \in Index
                 PROVE  /\ Field(Primary(i), OtherField(utype)) = Field(mem[i], OtherField(utype))
                        /\ Tracked(i, OtherField(utype)) =>
                             Field(bak'[i], OtherField(utype)) = Field(mem[i], OtherField(utype))
                        /\ Written(i) => Field(Primary(i), utype) = Field(mem[i], utype)
                        /\ Tracked(i, utype) =>
                             Field(bak'[i], utype) =
                               Field(IF Written(i) \/ Walked(i) \/ i = idx
                                     THEN mem[i] ELSE Primary(i), utype)
    BY <1>1, <1>2, <1>3, FieldsApart DEF Flushing, WalkStepAt
  <2>2. /\ Field(Primary(i), OtherField(utype)) = Field(mem[i], OtherField(utype))
        /\ Tracked(i, OtherField(utype)) =>
             Field(bak[i], OtherField(utype)) = Field(mem[i], OtherField(utype))
        /\ Written(i) => Field(Primary(i), utype) = Field(mem[i], utype)
        /\ Tracked(i, utype) =>
             Field(bak[i], utype) =
               Field(IF Written(i) \/ Walked(i) THEN mem[i] ELSE Primary(i), utype)
    BY <1>1 DEF Flushing
  <2>3. CASE i # idx
    BY <2>2, <2>3 DEF WalkStepAt
  <2>4. CASE i = idx /\ copy = "backup"
    BY <1>4, <2>2, <2>4 DEF WalkStepAt
  <2>5. CASE i = idx /\ copy = "primary"
    <3>1. Field(buf[idx], utype) = Field(Primary(idx), utype)
      BY <1>1, <2>5 DEF Buffer, WalkStepAt
    <3>2. QED
      BY <1>4, <2>2, <2>5, <3>1 DEF WalkStepAt
  <2>6. QED
    BY <2>3, <2>4, <2>5 DEF TypeOK, Copies
<1>7. QED
  BY <1>5, <1>6

(* A copy is done: what the primaries of this LUN and of those before it     *)
(* hold, the step that finished included.                                    *)
Left ==
  \A i \in Index :
    /\ Field(Primary(i)', OtherField(utype)) = Field(mem[i], OtherField(utype))
    /\ Tracked(i, OtherField(utype)) =>
         Field(bak[i], OtherField(utype)) = Field(mem[i], OtherField(utype))
    /\ LunOf[i] <= lun => Field(Primary(i)', utype) = Field(mem[i], utype)
    /\ Tracked(i, utype) =>
         Field(bak[i], utype) = Field(IF LunOf[i] <= lun THEN mem[i] ELSE Primary(i)', utype)

LEMMA CopyLeft ==
  ASSUME TypeOK, WalkInv, Flushing, Buffer, (WalkEnds /\ ~dirty) \/ WriteCopy
  PROVE  Left
<1>1. pc \in {"walk", "write"} /\ InFlush
  BY DEF WalkEnds, WriteCopy, InFlush
<1>2. \A i \in LunParts(lun) : i < idx
  BY WalkDone DEF WalkEnds, WriteCopy, WalkInv
<1>3. SUFFICES ASSUME NEW i \in Index
               PROVE  /\ Field(Primary(i)', OtherField(utype)) = Field(mem[i], OtherField(utype))
                      /\ Tracked(i, OtherField(utype)) =>
                           Field(bak[i], OtherField(utype)) = Field(mem[i], OtherField(utype))
                      /\ LunOf[i] <= lun => Field(Primary(i)', utype) = Field(mem[i], utype)
                      /\ Tracked(i, utype) =>
                           Field(bak[i], utype) =
                             Field(IF LunOf[i] <= lun THEN mem[i] ELSE Primary(i)', utype)
  BY DEF Left
<1>4. /\ Field(Primary(i), OtherField(utype)) = Field(mem[i], OtherField(utype))
      /\ Tracked(i, OtherField(utype)) =>
           Field(bak[i], OtherField(utype)) = Field(mem[i], OtherField(utype))
      /\ Written(i) => Field(Primary(i), utype) = Field(mem[i], utype)
      /\ Tracked(i, utype) =>
           Field(bak[i], utype) =
             Field(IF Written(i) \/ Walked(i) THEN mem[i] ELSE Primary(i), utype)
  BY <1>1 DEF Flushing
<1>5. LunOf[i] \in Nat /\ lun \in Nat
  BY TableAssumption DEF TypeOK, Luns
<1>6. CASE copy = "primary" /\ i \in LunParts(lun)
  <2>1. Primary(i)' = buf[i]
    BY <1>6, CopiesExist
       DEF WalkEnds, WriteCopy, CopyWritten, Primary, Buffer, TypeOK, Copies, media
  <2>2. /\ Field(buf[i], OtherField(utype)) = Field(Primary(i), OtherField(utype))
        /\ Field(buf[i], utype) = Field(mem[i], utype)
    BY <1>1, <1>2, <1>6 DEF Buffer
  <2>3. Walked(i) /\ LunOf[i] <= lun
    BY <1>1, <1>2, <1>5, <1>6 DEF Walked, LunParts
  <2>4. QED
    BY <1>4, <2>1, <2>2, <2>3
<1>7. CASE copy = "backup" \/ i \notin LunParts(lun)
  <2>1. Primary(i)' = Primary(i)
    BY <1>7, CopiesExist DEF WalkEnds, WriteCopy, CopyWritten, Primary, TypeOK, Copies, media
  <2>2. Written(i) <=> LunOf[i] <= lun
    BY <1>3, <1>5, <1>7 DEF Written, LunParts
  <2>3. Walked(i) => Written(i)
    BY <1>7 DEF Walked, Written, LunParts
  <2>4. QED
    BY <1>4, <2>1, <2>2, <2>3
<1>8. QED
  BY <1>6, <1>7 DEF TypeOK, Copies

LEMMA LeaveCopy ==
  ASSUME TypeOK, ret \in Returns, Left, NextCopy, UNCHANGED <<mem, bak, image>>
  PROVE  Flushing' /\ Rest' /\ Buffer'
<1> USE DEF Returns, InFlush
<1>1. \A i \in Index : LunOf[i] \in Nat /\ LunOf[i] \in Luns /\ lun \in Nat
  BY TableAssumption DEF TypeOK, Luns
<1>2. \A i \in Index, f \in UpdateTypes : Tracked(i, f)' = Tracked(i, f)
  BY DEF Tracked
<1>3. utype \in UpdateTypes /\ utype' = utype
  BY NextCopyGoes DEF TypeOK
<1>4. CASE pc' = "read"
  <2>1. \A i \in Index : Written(i)' <=> LunOf[i] <= lun
    <3>1. CASE copy = "primary"
      BY <1>1, <1>4, <3>1 DEF NextCopy, NextLun, BeginCopy, Written, LunParts
    <3>2. CASE copy = "backup"
      <4>1. PICK l \in Luns : l > lun /\ (\A k \in Luns : k > lun => l <= k)
                              /\ lun' = l /\ copy' = "primary"
        BY <1>4, <3>2 DEF NextCopy, NextLun, BeginCopy, IsFirst, Goto
      <4>2. l \in Nat
        BY TableAssumption DEF Luns
      <4>3. QED
        BY <1>1, <4>1, <4>2 DEF Written
    <3>3. QED
      BY <3>1, <3>2 DEF TypeOK, Copies
  <2>2. \A i \in Index : ~Walked(i)'
    BY <1>4 DEF Walked
  <2>3. Flushing'
    BY <1>2, <1>3, <2>1, <2>2, FieldsApart DEF Flushing, Left
  <2>4. QED
    BY <1>4, <2>3 DEF Rest, Buffer, Early, Late
<1>5. CASE pc' = ret
  <2>1. copy = "backup" /\ \A l \in Luns : l <= lun
    <3>1. lun \in Nat /\ \A l \in Luns : l \in Nat
      BY TableAssumption DEF TypeOK, Luns
    <3>2. pc' # "read"
      BY <1>5
    <3>3. copy # "primary" /\ {l \in Luns : l > lun} = {}
      BY <3>2 DEF NextCopy, NextLun, BeginCopy
    <3>4. QED
      BY <3>1, <3>3 DEF TypeOK, Copies
  <2>2. \A i \in Index :
          /\ \A f \in UpdateTypes : Field(Primary(i)', f) = Field(mem[i], f)
          /\ \A f \in UpdateTypes : Tracked(i, f) => Field(bak[i], f) = Field(mem[i], f)
    BY <1>1, <1>3, <2>1 DEF Left, UpdateTypes, OtherField
  <2>3. \A i \in Index : /\ Primary(i)'.guid = mem[i].guid /\ Primary(i)'.attr = mem[i].attr
                         /\ bak[i].guid = mem[i].guid
                         /\ Tracked(i, "attr") => bak[i].attr = mem[i].attr
    BY <2>2 DEF UpdateTypes, Field, Tracked
  <2>4. Rest'
    BY <1>2, <2>3 DEF Rest, UpdateTypes
  <2>5. QED
    BY <1>5, <2>4 DEF Flushing, Buffer
<1>6. QED
  BY <1>4, <1>5, NextCopyGoes

LEMMA FlushFlushing ==
  ASSUME TypeOK, WalkInv, Flushing, Buffer, Flush
  PROVE  Flushing' /\ Rest' /\ Buffer'
<1> USE DEF media, tables
<1>1. CASE ReadCopy
  <2>1. \A i \in Index : ~Walked(i) /\ ~Walked(i)'
    BY <1>1 DEF ReadCopy, Walked, IsFirst, LunParts, Index
  <2>2. \A i \in Index : Written(i)' = Written(i) /\ Primary(i)' = Primary(i)
    BY <1>1 DEF ReadCopy, Written, Primary
  <2>3. \A i \in Index, f \in UpdateTypes : Tracked(i, f)' = Tracked(i, f)
    BY <1>1 DEF ReadCopy, Tracked
  <2>4. Flushing'
    BY <1>1, <2>1, <2>2, <2>3, FieldsApart DEF ReadCopy, Flushing, InFlush, TypeOK
  <2>5. Buffer'
    BY <1>1 DEF ReadCopy, Buffer, IsFirst, LunParts, Index, Primary
  <2>6. QED
    BY <1>1, <2>4, <2>5 DEF ReadCopy, Rest, Early, Late
<1>2. CASE WalkGuid \/ WalkAttr \/ WalkMismatch
  <2>1. Flushing' /\ Buffer'
    BY <1>2, WalkSteps, WalkFlushing
  <2>2. QED
    BY <1>2, <2>1 DEF WalkGuid, WalkAttr, WalkMismatch, Rest, Early, Late
<1>3. CASE WalkEnds /\ dirty
  <2>1. pc = "walk" /\ pc' = "write" /\ UNCHANGED <<disk, mem, bak, image, flush>>
    BY <1>3 DEF WalkEnds, Goto
  <2>2. \A i \in Index : /\ Written(i)' = Written(i) /\ Primary(i)' = Primary(i)
                         /\ Walked(i)' = Walked(i)
    BY <2>1 DEF Written, Primary, Walked, flush, LunParts
  <2>3. \A i \in Index, f \in UpdateTypes : Tracked(i, f)' = Tracked(i, f)
    BY <2>1 DEF Tracked
  <2>4. Flushing'
    BY <2>1, <2>2, <2>3, FieldsApart DEF Flushing, InFlush, flush, TypeOK
  <2>5. Buffer'
    BY <2>1 DEF flush, Buffer, LunParts, Primary
  <2>6. QED
    BY <2>1, <2>4, <2>5 DEF Rest, Early, Late
<1>4. CASE (WalkEnds /\ ~dirty) \/ WriteCopy
  <2>1. Left /\ ret \in Returns
    BY <1>4, CopyLeft, FlushQuiet
  <2>2. QED
    BY <1>4, <2>1, LeaveCopy DEF WalkEnds, WriteCopy
<1>5. QED
  BY <1>1, <1>2, <1>3, <1>4, FlushSteps

(* A flush writes what is in memory or what was there. *)
LEMMA PrimaryStep ==
  ASSUME TypeOK, WalkInv, Buffer, Flush
  PROVE  \A i \in Index :
           /\ Field(Primary(i)', OtherField(utype)) = Field(Primary(i), OtherField(utype))
           /\ Field(Primary(i)', utype) \in {Field(mem[i], utype), Field(Primary(i), utype)}
<1> USE DEF media
<1>1. CASE disk' = disk
  BY <1>1 DEF Primary
<1>2. CASE WriteCopy
  <2>1. SUFFICES ASSUME NEW i \in Index
                 PROVE  /\ Field(Primary(i)', OtherField(utype)) =
                             Field(Primary(i), OtherField(utype))
                        /\ Field(Primary(i)', utype) \in
                             {Field(mem[i], utype), Field(Primary(i), utype)}
    OBVIOUS
  <2>2. CASE copy = "primary" /\ i \in LunParts(lun)
    <3>1. Primary(i)' = buf[i]
      BY <1>2, <2>2, CopiesExist DEF WriteCopy, CopyWritten, Primary, TypeOK
    <3>2. QED
      BY <1>2, <2>2, <3>1 DEF WriteCopy, Buffer
  <2>3. CASE copy # "primary" \/ i \notin LunParts(lun)
    <3>1. Primary(i)' = Primary(i)
      BY <1>2, <2>3, CopiesExist DEF WriteCopy, CopyWritten, Primary, TypeOK
    <3>2. QED
      BY <3>1
  <2>4. QED
    BY <2>2, <2>3
<1>3. QED
  BY <1>1, <1>2, FlushSteps DEF ReadCopy, WalkGuid, WalkAttr, WalkMismatch, WalkEnds

(* ... and PtnEntriesBak takes over what is in memory. *)
LEMMA BakStep ==
  ASSUME TypeOK, WalkInv, Flushing, Buffer, Flush
  PROVE  \A i \in Index : bak'[i].attr \in {bak[i].attr, mem[i].attr}
<1> USE DEF tables
<1>1. CASE bak' = bak
  BY <1>1
<1>2. CASE WalkGuid \/ WalkAttr \/ WalkMismatch
  <2>1. WalkStepAt(utype) /\ utype \in UpdateTypes
    BY <1>2, WalkSteps DEF TypeOK
  <2>2. QED
    BY <2>1 DEF WalkStepAt, UpdateTypes, Field, OtherField
<1>3. QED
  BY <1>1, <1>2, FlushSteps DEF ReadCopy, WalkEnds, WriteCopy

LEMMA FlushSlots ==
  ASSUME TypeOK, WalkInv, SlotInv, Flush
  PROVE  SlotInv'
<1>1. /\ UNCHANGED <<mem, partInfo, image, cur, slot, bootLun, ret, utype>>
      /\ InFlush /\ pc' \in {"read", "walk", "write", ret} /\ ret \in Returns
      /\ Point' = Point /\ Point = ret
  BY FlushQuiet
<1>2. Flushing' /\ Rest' /\ Buffer'
  BY FlushFlushing DEF SlotInv
<1>3. Cursor'
  BY <1>1 DEF SlotInv, Cursor
<1>4. LunInv'
  BY <1>1 DEF SlotInv, LunInv
<1>5. BakBehind'
  <2>1. SUFFICES ASSUME image = "app", Point \in {"target", "set", "setattr"}
                 PROVE  Other(cur) \notin ActiveSlots(bak') /\ cur = "a"
                        /\ ~Candidate(bak', "b") /\ ~Candidate(mem, "b")
    BY <1>1 DEF BakBehind, Returns
  <2>2. cur = "a" /\ ~Candidate(bak, "b") /\ ~Candidate(mem, "b")
    BY <1>1, <2>1 DEF SlotInv, BakBehind
  <2>3. bak'[BootIndex("b")].attr \in {bak[BootIndex("b")].attr, mem[BootIndex("b")].attr}
    BY BakStep, BootIndexType DEF SlotInv, Slots
  <2>4. ~Candidate(bak', "b")
    BY <2>2, <2>3 DEF Candidate, BootAttr
  <2>5. QED
    BY <2>2, <2>4 DEF ActiveSlots, Other
<1>6. Remembered'
  <2>1. SUFFICES ASSUME image = "dxe", NEW i \in Index
                 PROVE  /\ partInfo[i].guid = Primary(i)'.guid
                        /\ i \notin BootEntries =>
                             /\ partInfo[i].attr = Primary(i)'.attr
                             /\ mem[i].attr = partInfo[i].attr
    <3>1. pc' \notin {"off", "start"} /\ Point' \notin {"start", "idle", "key", "current"}
      BY <1>1 DEF Returns
    <3>2. image = "dxe" => utype = "attr"
      BY <1>1 DEF SlotInv, Remembered
    <3>3. QED
      BY <1>1, <2>1, <3>1, <3>2 DEF Remembered
  <2>2. pc \notin {"off", "start"} /\ utype = "attr"
    BY <1>1, <2>1 DEF InFlush, SlotInv, Remembered
  <2>3. /\ partInfo[i].guid = Primary(i).guid
        /\ i \notin BootEntries => /\ partInfo[i].attr = Primary(i).attr
                                   /\ mem[i].attr = partInfo[i].attr
    BY <2>1, <2>2 DEF SlotInv, Remembered
  <2>4. /\ Primary(i)'.guid = Primary(i).guid
        /\ Primary(i)'.attr \in {mem[i].attr, Primary(i).attr}
    BY <2>2, PrimaryStep DEF SlotInv, Field, OtherField
  <2>5. QED
    BY <2>3, <2>4
<1>7. QED
  BY <1>2, <1>3, <1>4, <1>5, <1>6 DEF SlotInv

-----------------------------------------------------------------------------
(* Steps of an image *)

(* A flush may begin, or be left out, if memory differs from the media at    *)
(* most in the field it writes, and PtnEntriesBak knows the media.           *)
LEMMA BeginFlushing ==
  ASSUME TypeOK, NEW type \in UpdateTypes, NEW label \in Returns,
         UpdatePartitionAttributes(type, mem', label), UNCHANGED <<disk, bak, image>>,
         \A i \in Index :
           /\ Field(Primary(i), OtherField(type)) = Field(mem'[i], OtherField(type))
           /\ Tracked(i, OtherField(type)) =>
                Field(bak[i], OtherField(type)) = Field(mem'[i], OtherField(type))
           /\ Tracked(i, type) => Field(bak[i], type) = Field(Primary(i), type),
         mem' = bak /\ label \in Late =>
           \A i \in Index : mem'[i].attr = Primary(i).attr
  PROVE  Flushing' /\ Rest' /\ Buffer' /\ Point' = label /\ (InFlush' => utype' = type)
<1> USE DEF Returns, InFlush
<1>1. \A i \in Index : Primary(i)' = Primary(i)
  BY DEF Primary
<1>2. \A i \in Index, f \in UpdateTypes : Tracked(i, f)' = Tracked(i, f)
  BY DEF Tracked
<1>3. CASE mem' = bak
  <2>1. pc' = label
    BY <1>3, CallBegins
  <2>2. \A i \in Index :
          /\ \A f \in UpdateTypes : Tracked(i, f) => Field(bak[i], f) = Field(Primary(i), f)
          /\ \A f \in UpdateTypes : Tracked(i, f) => Field(mem'[i], f) = Field(Primary(i), f)
    BY <1>3 DEF UpdateTypes, OtherField
  <2>3. \A i \in Index : /\ mem'[i].guid = Primary(i).guid /\ bak[i].guid = Primary(i).guid
                         /\ Tracked(i, "attr") => /\ bak[i].attr = Primary(i).attr
                                                  /\ mem'[i].attr = Primary(i).attr
    BY <2>2 DEF UpdateTypes, Field, Tracked
  <2>4. Rest'
    BY <1>1, <1>2, <1>3, <2>1, <2>3 DEF Rest, UpdateTypes
  <2>5. QED
    BY <2>1, <2>4 DEF Flushing, Buffer, Point
<1>4. CASE mem' # bak
  <2>1. /\ pc' = "read" /\ utype' = type /\ ret' = label /\ lun' = FirstLun /\ copy' = "primary"
    BY <1>4, CallBegins
  <2>2. \A i \in Index : ~Written(i)' /\ ~Walked(i)'
    BY <2>1, TableAssumption DEF Written, Walked, FirstLun, Index
  <2>3. Flushing'
    BY <1>1, <1>2, <2>1, <2>2, FieldsApart DEF Flushing
  <2>4. QED
    BY <2>1, <2>3 DEF Rest, Buffer, Early, Late, Point
<1>5. QED
  BY <1>3, <1>4

LEMMA BeginAttributes ==
  ASSUME TypeOK, Rest, pc \in (Early \union Late) \ {"setlun"}, NEW label \in Returns,
         SameGuids(mem, mem'), UNCHANGED <<disk, bak, image>>,
         UpdatePartitionAttributes("attr", mem', label),
         mem' = bak /\ label \in Late => \A i \in Index : mem'[i].attr = Primary(i).attr
  PROVE  Flushing' /\ Rest' /\ Buffer' /\ Point' = label /\ (InFlush' => utype' = "attr")
<1>1. \A i \in Index :
        /\ Field(Primary(i), "guid") = Field(mem'[i], "guid")
        /\ Field(bak[i], "guid") = Field(mem'[i], "guid")
        /\ Tracked(i, "attr") => Field(bak[i], "attr") = Field(Primary(i), "attr")
  BY DEF Rest, SameGuids, Field
<1>2. "attr" \in UpdateTypes /\ OtherField("attr") = "guid"
  BY DEF UpdateTypes, OtherField
<1>3. QED
  BY <1>1, <1>2, BeginFlushing

LEMMA BeginGuids ==
  ASSUME TypeOK, Rest, pc \in Late, NEW label \in Returns,
         UNCHANGED <<disk, mem, bak, image>>, UpdatePartitionAttributes("guid", mem, label)
  PROVE  Flushing' /\ Rest' /\ Buffer' /\ Point' = label
<1>1. \A i \in Index :
        /\ Field(Primary(i), "attr") = Field(mem'[i], "attr")
        /\ Tracked(i, "attr") => Field(bak[i], "attr") = Field(mem'[i], "attr")
        /\ Field(bak[i], "guid") = Field(Primary(i), "guid")
        /\ mem'[i].attr = Primary(i).attr
  BY DEF Rest, Field
<1>2. "guid" \in UpdateTypes /\ OtherField("guid") = "attr"
  BY DEF UpdateTypes, OtherField
<1>3. UpdatePartitionAttributes("guid", mem', label)
  BY DEF UpdatePartitionAttributes
<1>4. QED
  BY <1>1, <1>2, <1>3, BeginFlushing

(* Nothing of the invariant is left when the power is off. *)
LEMMA OffSlots ==
  ASSUME pc' = "off", bootLun' \in {1, 2}
  PROVE  SlotInv'
  BY DEF SlotInv, Cursor, BakBehind, Rest, Flushing, Buffer, Remembered, LunInv, Point, InFlush,
         Early, Late

LEMMA FixedLunIs ==
  ASSUME bootLun \in {1, 2}, NEW s \in Slots
  PROVE  FixedLun(s) = LunOfSlot(s) /\ FixedLun(s) \in {1, 2}
  BY DEF FixedLun, LunOfSlot, Slots, Other

(* Steps that write no attributes and begin no flush. *)
LEMMA PlainImageSlots ==
  ASSUME TypeOK, known = Index, SlotInv,
         \/ Start \/ ChooseSlot \/ CheckBootLun \/ SwapGuids \/ DxeReturns \/ ResetSystem
  PROVE  SlotInv'
<1> USE DEF media, tables, Goto, InFlush, Point
<1>1. CASE Start
  <2>1. /\ pc = "start" /\ pc' = "current" /\ mem' = partInfo /\ bak' = partInfo
        /\ UNCHANGED <<disk, bootLun, partInfo, image, cur, slot>>
    BY <1>1 DEF Start
  <2>2. \A i \in Index :
          /\ partInfo[i].guid = Primary(i).guid
          /\ Tracked(i, "attr") => partInfo[i].attr = Primary(i).attr
    BY <2>1 DEF SlotInv, Remembered, Tracked, Primary, TypeOK
  <2>3. Rest'
    BY <2>1, <2>2 DEF Rest, Tracked, Primary, Late
  <2>4. Remembered'
    BY <2>1 DEF SlotInv, Remembered, Primary
  <2>5. Cursor' /\ BakBehind' /\ LunInv'
    BY <2>1 DEF SlotInv, Cursor, BakBehind, LunInv, Late
  <2>6. QED
    BY <2>1, <2>3, <2>4, <2>5 DEF SlotInv, Flushing, Buffer
<1>2. CASE ChooseSlot
  <2>1. /\ pc = "target" /\ pc' = (IF image = "dxe" THEN "clear_a" ELSE "set")
        /\ slot' = (IF image = "dxe" THEN cur ELSE Other(cur))
        /\ UNCHANGED <<disk, bootLun, partInfo, mem, bak, image, cur>>
    BY <1>2 DEF ChooseSlot
  <2>2. image \in {"dxe", "app"}
    BY DEF TypeOK
  <2>3. Rest'
    BY <2>1 DEF SlotInv, Rest, Tracked, Primary, Early, Late
  <2>4. Remembered'
    BY <2>1, <2>2 DEF SlotInv, Remembered, Primary
  <2>5. Cursor' /\ BakBehind' /\ LunInv'
    BY <2>1, <2>2 DEF SlotInv, Cursor, BakBehind, LunInv, Late
  <2>6. QED
    BY <2>1, <2>3, <2>4, <2>5 DEF SlotInv, Flushing, Buffer
<1>3. CASE CheckBootLun
  <2>1. /\ pc = "checklun" /\ pc' = "done" /\ bootLun' = (IF IsUfs THEN FixedLun(slot) ELSE bootLun)
        /\ UNCHANGED <<disk, partInfo, mem, bak, image, cur, slot>>
    BY <1>3 DEF CheckBootLun
  <2>2. image = "dxe" /\ slot \in Slots /\ bootLun \in {1, 2}
    BY <2>1 DEF SlotInv, Cursor, TypeOK, LunInv
  <2>3. Rest'
    BY <2>1 DEF SlotInv, Rest, Tracked, Primary, Early, Late
  <2>4. Remembered'
    BY <2>1, <2>2 DEF SlotInv, Remembered, Primary
  <2>5. Cursor' /\ BakBehind' /\ LunInv'
    BY <2>1, <2>2, FixedLunIs DEF SlotInv, Cursor, BakBehind, LunInv, Late
  <2>6. QED
    BY <2>1, <2>3, <2>4, <2>5 DEF SlotInv, Flushing, Buffer
<1>4. CASE SwapGuids
  <2>1. /\ pc = "swap" /\ pc' = "setlun" /\ mem' = SwapPtnGuids(mem, Index)
        /\ UNCHANGED <<disk, bootLun, partInfo, bak, image, cur, slot>>
    BY <1>4 DEF SwapGuids
  <2>2. image = "app" /\ slot \in Slots /\ Other(slot) \in Slots
    BY <2>1, OtherType DEF SlotInv, Cursor, TypeOK
  <2>3. \A i \in Index : mem'[i].attr = mem[i].attr
    BY <2>1 DEF SwapPtnGuids, TypeOK, Table, Entry
  <2>4. \A s \in Slots : BootAttr(mem', s) = BootAttr(mem, s)
    BY <2>3, BootIndexType DEF BootAttr
  <2>5. Rest'
    BY <2>1, <2>3 DEF SlotInv, Rest, Tracked, Primary, Early, Late
  <2>6. Remembered' /\ BakBehind' /\ LunInv'
    BY <2>1, <2>2 DEF SlotInv, Remembered, BakBehind, LunInv
  <2>7. Cursor'
    BY <2>1, <2>2, <2>4 DEF SlotInv, Cursor, Late
  <2>8. QED
    BY <2>1, <2>5, <2>6, <2>7 DEF SlotInv, Flushing, Buffer
<1>5. CASE DxeReturns
  <2>1. /\ pc = "done" /\ image = "dxe" /\ pc' = "idle"
        /\ UNCHANGED <<disk, bootLun, partInfo, mem, bak, image, cur, slot>>
    BY <1>5 DEF DxeReturns
  <2>2. Remembered'
    BY <2>1 DEF SlotInv, Remembered, Primary
  <2>3. QED
    BY <2>1, <2>2 DEF SlotInv, Cursor, BakBehind, Rest, Flushing, Buffer, LunInv, Early, Late
<1>6. CASE ResetSystem
  BY <1>6, OffSlots DEF ResetSystem, PowerOff, SlotInv, LunInv
<1>7. QED
  BY <1>1, <1>2, <1>3, <1>4, <1>5, <1>6

(* The driver keeps the attributes of the other entries as it found them. *)
LEMMA EditRemembered ==
  ASSUME TypeOK, SlotInv, pc \notin {"off", "start"}, ~InFlush,
         UNCHANGED <<disk, partInfo, image>>,
         image = "dxe" => \A i \in Index \ BootEntries : mem'[i] = mem[i],
         InFlush' /\ image = "dxe" => utype' = "attr",
         pc' \notin {"off", "start"},
         image = "dxe" \/ Point' \notin {"start", "idle", "key", "current"} \/ pc = "current"
  PROVE  Remembered'
  BY DEF SlotInv, Remembered, Primary, Point

(* The first call of GetActiveSlot. *)
LEMMA CurrentSlots ==
  ASSUME TypeOK, SlotInv, GetCurrentSlotSuffix
  PROVE  SlotInv'
<1> USE DEF media, tables
<1>1. /\ pc = "current" /\ ~InFlush /\ Point = "current"
      /\ UNCHANGED <<disk, bootLun, partInfo, bak, image, slot>>
  BY DEF GetCurrentSlotSuffix, InFlush, Point
<1>2. mem \in Table /\ image \in {"dxe", "app"} /\ (image = "app" => mem = bak)
  BY <1>1 DEF TypeOK, SlotInv, BakBehind
<1>3. LunInv
  BY DEF SlotInv
<1>5. ASSUME NEW s \in ActiveSlots(mem), cur' = s, mem' = mem, Goto("target")
      PROVE  SlotInv'
  <2>1. pc' = "target" /\ ~InFlush' /\ Point' = "target"
    BY <1>5 DEF Goto, InFlush, Point
  <2>2. ActiveSlots(mem') = {cur'} /\ cur' \in Slots
    BY <1>2, <1>5, OneActive
  <2>3. Cursor' /\ LunInv'
    BY <1>1, <1>3, <2>1, <2>2 DEF Cursor, LunInv, Late
  <2>4. BakBehind'
    BY <1>1, <1>2, <1>5, <2>1, <2>2, OtherType DEF BakBehind
  <2>5. Rest'
    BY <1>1, <1>5, <2>1 DEF SlotInv, Rest, Tracked, Primary, Early, Late
  <2>6. Remembered'
    BY <1>1, <1>5, <2>1, EditRemembered
  <2>7. QED
    BY <2>1, <2>3, <2>4, <2>5, <2>6 DEF SlotInv, Flushing, Buffer, InFlush
<1>6. ASSUME FirstBoot(mem), mem' = DefaultSlotA(mem), cur' = "a",
             UpdatePartitionAttributes("attr", mem', "target")
      PROVE  SlotInv'
  <2>1. /\ ActiveSlots(mem') = {"a"}
        /\ ~Candidate(mem, "b") /\ ~Candidate(mem', "b")
        /\ \A i \in Index \ BootEntries : mem'[i] = mem[i]
    BY <1>2, <1>6, DefaultSlotAEdit
  <2>2. SameGuids(mem, mem')
    BY <1>2, <1>6, EditGuids DEF Slots
  <2>3. Flushing' /\ Rest' /\ Buffer' /\ Point' = "target" /\ (InFlush' => utype' = "attr")
    BY <1>1, <1>6, <2>2, BeginAttributes DEF SlotInv, Early, Late, Returns
  <2>4. pc' \in {"read", "target"}
    BY <1>6 DEF UpdatePartitionAttributes, Goto
  <2>5. Cursor' /\ LunInv'
    BY <1>1, <1>3, <1>6, <2>1, <2>3 DEF Cursor, LunInv, Late
  <2>6. BakBehind'
    <3>1. image = "app" => ~Candidate(bak, "b") /\ Other(cur') \notin ActiveSlots(bak)
      BY <1>2, <1>6, <2>1 DEF ActiveSlots, Other
    <3>2. QED
      BY <1>1, <1>6, <2>1, <2>3, <3>1 DEF BakBehind
  <2>7. Remembered'
    BY <1>1, <2>1, <2>3, <2>4, EditRemembered
  <2>8. QED
    BY <2>3, <2>5, <2>6, <2>7 DEF SlotInv
<1>7. ASSUME ActiveSlots(mem) = {}, mem' = mem, cur' = "a",
             Goto(IF image = "dxe" THEN "target" ELSE "key")
      PROVE  SlotInv'
  <2>1. pc' = (IF image = "dxe" THEN "target" ELSE "key") /\ ~InFlush' /\ Point' = pc'
    BY <1>7 DEF Goto, InFlush, Point
  <2>2. Cursor' /\ LunInv' /\ BakBehind'
    BY <1>1, <1>2, <1>3, <1>7, <2>1 DEF Cursor, LunInv, Late, BakBehind
  <2>3. Rest'
    BY <1>1, <1>7, <2>1 DEF SlotInv, Rest, Tracked, Primary, Early, Late
  <2>4. Remembered'
    BY <1>1, <1>7, <2>1, EditRemembered
  <2>5. QED
    BY <2>1, <2>2, <2>3, <2>4 DEF SlotInv, Flushing, Buffer, InFlush
<1>8. QED
  BY <1>5, <1>6, <1>7 DEF GetCurrentSlotSuffix, GetActiveSlot

(* BootSlotDxe clears the unbootable marks. *)
LEMMA ClearSlots ==
  ASSUME TypeOK, SlotInv, NEW s \in Slots, ClearSlot(s)
  PROVE  SlotInv'
<1> USE DEF media, tables
<1> DEFINE next == IF s = "a" THEN "clear_b" ELSE "set"
<1>1. /\ pc \in {"clear_a", "clear_b"} /\ ~InFlush /\ Point = pc
      /\ UNCHANGED <<disk, bootLun, partInfo, bak, image, cur, slot>>
  BY DEF ClearSlot, InFlush, Point
<1>2. mem \in Table /\ image = "dxe" /\ next \in {"clear_b", "set"}
  BY <1>1 DEF TypeOK, SlotInv, Cursor
<1>3. /\ slot = cur
      /\ ActiveSlots(mem) = {cur} \/ (ActiveSlots(mem) = {} /\ cur = "a")
  BY <1>1, <1>2 DEF SlotInv, Cursor
<1>4. CASE IsSlotBootable(mem, s)
  <2>1. mem' = mem /\ pc' = next /\ ~InFlush' /\ Point' = next
    BY <1>2, <1>4 DEF ClearSlot, Goto, InFlush, Point
  <2>2. Cursor' /\ LunInv' /\ BakBehind'
    BY <1>1, <1>2, <1>3, <2>1 DEF SlotInv, Cursor, LunInv, BakBehind, Late
  <2>3. Rest'
    BY <1>1, <1>2, <2>1 DEF SlotInv, Rest, Tracked, Primary, Early, Late
  <2>4. Remembered'
    BY <1>1, <1>2, <2>1, EditRemembered
  <2>5. QED
    BY <1>2, <2>1, <2>2, <2>3, <2>4 DEF SlotInv, Flushing, Buffer, InFlush
<1>5. CASE ~IsSlotBootable(mem, s)
  <2>1. mem' = ClearUnbootable(mem, s) /\ UpdatePartitionAttributes("attr", mem', next)
    BY <1>5 DEF ClearSlot
  <2>2. /\ ActiveSlots(mem') = ActiveSlots(mem) /\ SameGuids(mem, mem')
        /\ \A i \in Index \ BootEntries : mem'[i] = mem[i]
    BY <1>2, <2>1, ClearUnbootableEdit, EditGuids
  <2>3. Flushing' /\ Rest' /\ Buffer' /\ Point' = next /\ (InFlush' => utype' = "attr")
    BY <1>1, <1>2, <2>1, <2>2, BeginAttributes DEF SlotInv, Early, Late, Returns
  <2>4. pc' \in {"read", next}
    BY <2>1 DEF UpdatePartitionAttributes, Goto
  <2>5. Cursor' /\ LunInv' /\ BakBehind'
    BY <1>1, <1>2, <1>3, <2>2, <2>3 DEF SlotInv, Cursor, LunInv, BakBehind, Late
  <2>6. Remembered'
    BY <1>1, <1>2, <2>2, <2>3, <2>4, EditRemembered
  <2>7. QED
    BY <2>3, <2>5, <2>6 DEF SlotInv
<1>6. QED
  BY <1>4, <1>5

(* SetActiveSlot asks GetActiveSlot again: the answer is still the same. *)
LEMMA SetSlots ==
  ASSUME TypeOK, SlotInv, SetActiveSlot
  PROVE  SlotInv'
<1> USE DEF media, tables
<1>1. /\ pc = "set" /\ ~InFlush /\ Point = "set"
      /\ UNCHANGED <<disk, bootLun, partInfo, bak, image, slot>>
  BY DEF SetActiveSlot, InFlush, Point
<1>2. mem \in Table /\ image \in {"dxe", "app"} /\ LunInv /\ cur \in Slots
  BY DEF TypeOK, SlotInv
<1>3. /\ slot = IF image = "dxe" THEN cur ELSE Other(cur)
      /\ \/ ActiveSlots(mem) = {cur}
         \/ image = "dxe" /\ ActiveSlots(mem) = {} /\ cur = "a"
      /\ image = "app" => Other(cur) \notin ActiveSlots(bak)
  BY <1>1 DEF SlotInv, Cursor, BakBehind
<1>4. ASSUME NEW s \in ActiveSlots(mem), cur' = s, mem' = mem, Goto("setattr")
      PROVE  SlotInv'
  <2>1. pc' = "setattr" /\ ~InFlush' /\ Point' = "setattr"
    BY <1>4 DEF Goto, InFlush, Point
  <2>2. ActiveSlots(mem') = {cur'} /\ cur' = cur
    BY <1>3, <1>4
  <2>3. Cursor' /\ LunInv' /\ BakBehind'
    BY <1>1, <1>2, <1>3, <2>1, <2>2 DEF Cursor, LunInv, BakBehind, Late
  <2>4. Rest'
    BY <1>1, <1>4, <2>1 DEF SlotInv, Rest, Tracked, Primary, Early, Late
  <2>5. Remembered'
    BY <1>1, <1>4, <2>1, EditRemembered
  <2>6. QED
    BY <2>1, <2>3, <2>4, <2>5 DEF SlotInv, Flushing, Buffer, InFlush
<1>5. ASSUME FirstBoot(mem), mem' = DefaultSlotA(mem), cur' = "a",
             UpdatePartitionAttributes("attr", mem', "setattr")
      PROVE  SlotInv'
  <2>1. image = "dxe" /\ cur = "a" /\ slot = "a"
    BY <1>3, <1>5 DEF FirstBoot
  <2>2. /\ ActiveSlots(mem') = {"a"} /\ SameGuids(mem, mem')
        /\ \A i \in Index \ BootEntries : mem'[i] = mem[i]
    BY <1>2, <1>5, DefaultSlotAEdit, EditGuids DEF Slots
  <2>3. Flushing' /\ Rest' /\ Buffer' /\ Point' = "setattr" /\ (InFlush' => utype' = "attr")
    BY <1>1, <1>5, <2>2, BeginAttributes DEF SlotInv, Early, Late, Returns
  <2>4. pc' \in {"read", "setattr"}
    BY <1>5 DEF UpdatePartitionAttributes, Goto
  <2>5. Cursor' /\ LunInv' /\ BakBehind'
    BY <1>1, <1>2, <1>5, <2>1, <2>2, <2>3 DEF Cursor, LunInv, BakBehind, Late
  <2>6. Remembered'
    BY <1>1, <2>1, <2>2, <2>3, <2>4, EditRemembered
  <2>7. QED
    BY <2>3, <2>5, <2>6 DEF SlotInv
<1>6. ASSUME ActiveSlots(mem) = {}, mem' = mem, cur' = "a", Goto(Exit)
      PROVE  SlotInv'
  <2>1. pc' = "idle" /\ ~InFlush' /\ Point' = "idle" /\ image = "dxe"
    BY <1>3, <1>6 DEF Goto, Exit, InFlush, Point
  <2>2. Remembered'
    BY <1>1, <1>6, <2>1, EditRemembered
  <2>3. QED
    BY <1>1, <1>2, <2>1, <2>2
       DEF SlotInv, Cursor, LunInv, BakBehind, Rest, Flushing, Buffer, Early, Late, InFlush
<1>7. QED
  BY <1>4, <1>5, <1>6 DEF SetActiveSlot, GetActiveSlot

(* The attributes of the slot go to memory, and a flush begins: the app's is *)
(* not left out.                                                             *)
LEMMA SetAttributesSlots ==
  ASSUME TypeOK, SlotInv, SetSlotAttributes
  PROVE  SlotInv'
<1> USE DEF media, tables
<1> DEFINE label == IF cur = slot THEN "checklun" ELSE "swap"
<1>1. /\ pc = "setattr" /\ ~InFlush /\ Point = "setattr"
      /\ mem' = SlotActivated(mem, slot, image = "app", image = "dxe")
      /\ UpdatePartitionAttributes("attr", mem', label)
      /\ UNCHANGED <<disk, bootLun, partInfo, bak, image, cur, slot>>
  BY DEF SetSlotAttributes, InFlush, Point
<1>2. /\ mem \in Table /\ image \in {"dxe", "app"} /\ LunInv /\ cur \in Slots /\ slot \in Slots
  BY DEF TypeOK, SlotInv
<1>3. /\ slot = IF image = "dxe" THEN cur ELSE Other(cur)
      /\ image = "app" => Other(cur) \notin ActiveSlots(bak)
  BY <1>1 DEF SlotInv, Cursor, BakBehind
<1>4. label \in {"checklun", "swap"} /\ (label = "checklun" <=> image = "dxe")
  BY <1>2, <1>3, OtherType
<1>5. /\ BootAttr(mem', slot).active /\ BootAttr(mem', slot).priority = MAX_PRIORITY
      /\ ~BootAttr(mem', Other(slot)).active /\ SameGuids(mem, mem')
      /\ \A i \in Index \ BootEntries : mem'[i] = mem[i]
  <2>1. PICK reset \in BOOLEAN, set \in BOOLEAN : mem' = SlotActivated(mem, slot, reset, set)
    BY <1>1
  <2> DEFINE new == SlotActivated(mem, slot, reset, set)
  <2>2. /\ BootAttr(new, slot).active /\ BootAttr(new, slot).priority = MAX_PRIORITY
        /\ ~BootAttr(new, Other(slot)).active
        /\ \A i \in Index \ BootEntries : new[i] = mem[i]
    BY <1>2, SlotActivatedEdit
  <2>3. SameGuids(mem, new)
    BY <1>2, EditGuids
  <2> HIDE DEF new
  <2>4. mem' = new
    BY <2>1 DEF new
  <2>5. QED
    BY <2>2, <2>3, <2>4
<1>6. ASSUME mem' = bak
      PROVE  \A i \in Index : mem'[i].attr = Primary(i).attr
  <2>1. ActiveSlots(mem') = {slot}
    BY <1>2, <1>5, TheActive
  <2>2. image = "dxe"
    BY <1>2, <1>3, <1>6, <2>1
  <2>3. QED
    BY <1>1, <1>6, <2>2 DEF SlotInv, Rest, Tracked, Early
<1>7. Flushing' /\ Rest' /\ Buffer' /\ Point' = label /\ (InFlush' => utype' = "attr")
  BY <1>1, <1>4, <1>5, <1>6, BeginAttributes DEF SlotInv, Early, Late, Returns
<1>8. pc' \in {"read", label}
  BY <1>1 DEF UpdatePartitionAttributes, Goto
<1>9. Cursor' /\ LunInv' /\ BakBehind'
  BY <1>1, <1>2, <1>4, <1>5, <1>7 DEF Cursor, LunInv, BakBehind, Late
<1>10. Remembered'
  BY <1>1, <1>4, <1>5, <1>7, <1>8, EditRemembered
<1>11. QED
  BY <1>7, <1>9, <1>10 DEF SlotInv

(* What is left for the app: the boot LUN, the GUIDs, and once more both.    *)
LEMMA LateSlots ==
  ASSUME TypeOK, known = Index, SlotInv, SetBootLun \/ MarkActive \/ AppUpdatesGuids \/ AppUpdatesAttributes
  PROVE  SlotInv'
<1> USE DEF media, tables
<1> DEFINE label == CASE pc = "setlun" -> "mark" [] pc = "mark" -> "done"
                      [] pc = "done" -> "attrs" [] OTHER -> "reset"
<1>1. /\ pc \in {"setlun", "mark", "done", "attrs"} /\ ~InFlush /\ Point = pc
      /\ UNCHANGED <<disk, partInfo, bak, image, cur, slot>>
      /\ image = "app"
      /\ bootLun' = IF pc = "setlun" /\ IsUfs THEN FixedLun(slot) ELSE bootLun
  BY DEF SetBootLun, MarkActive, AppUpdatesGuids, AppUpdatesAttributes, InFlush, Point,
         SlotInv, Cursor
<1>2. /\ mem \in Table /\ slot \in Slots /\ label \in {"mark", "done", "attrs", "reset"}
      /\ Other(slot) \in Slots
  BY <1>1, OtherType DEF TypeOK
<1>3. /\ BootAttr(mem, slot).active /\ BootAttr(mem, slot).priority = MAX_PRIORITY
      /\ ~BootAttr(mem, Other(slot)).active
  BY <1>1 DEF SlotInv, Cursor, Late
<1>4. /\ mem' = IF pc = "mark" THEN MarkPtnActive(mem, slot, Index) ELSE mem
      /\ UpdatePartitionAttributes(IF pc \in {"mark", "attrs"} THEN "attr" ELSE "guid", mem', label)
  BY DEF SetBootLun, MarkActive, AppUpdatesGuids, AppUpdatesAttributes
<1>5. SameGuids(mem, mem') /\ \A i \in BootEntries : mem'[i] = mem[i]
  BY <1>2, <1>3, <1>4, EditGuids, MarkPtnActiveEdit DEF SameGuids
<1>6. Flushing' /\ Rest' /\ Buffer' /\ Point' = label
  <2>1. CASE pc \in {"mark", "attrs"}
    <3>1. ASSUME mem' = bak
          PROVE  \A i \in Index : mem'[i].attr = Primary(i).attr
      <4>1. SUFFICES ASSUME NEW i \in Index
                     PROVE  mem'[i].attr = Primary(i).attr
        OBVIOUS
      <4>2. CASE i \in BootEntries
        BY <1>5, <2>1, <4>2 DEF SlotInv, Rest, Late
      <4>3. CASE i \notin BootEntries
        BY <2>1, <3>1, <4>3 DEF SlotInv, Rest, Tracked, Late
      <4>4. QED
        BY <4>2, <4>3
    <3>2. QED
      BY <1>1, <1>2, <1>4, <1>5, <2>1, <3>1, BeginAttributes DEF SlotInv, Late, Returns
  <2>2. CASE pc \in {"setlun", "done"}
    BY <1>1, <1>2, <1>4, <2>2, BeginGuids DEF SlotInv, Late, Returns
  <2>3. QED
    BY <1>1, <2>1, <2>2
<1>7. \A s \in Slots : BootAttr(mem', s) = BootAttr(mem, s)
  BY <1>5, BootEntry DEF BootAttr
<1>8. Cursor' /\ BakBehind'
  BY <1>1, <1>2, <1>3, <1>6, <1>7 DEF Cursor, BakBehind, Late
<1>9. LunInv'
  <2>1. bootLun \in {1, 2} /\ (IsUfs /\ pc # "setlun" => bootLun = LunOfSlot(slot))
    BY <1>1 DEF SlotInv, LunInv
  <2>2. QED
    BY <1>1, <1>2, <2>1, FixedLunIs DEF LunInv
<1>10. Remembered'
  <2>1. pc' \in {"read", label}
    BY <1>4 DEF UpdatePartitionAttributes, Goto
  <2>2. QED
    BY <1>1, <1>2, <1>6, <2>1, EditRemembered
<1>11. QED
  BY <1>6, <1>8, <1>9, <1>10 DEF SlotInv

LEMMA ImageSlots ==
  ASSUME TypeOK, known = Index, SlotInv, Image
  PROVE  SlotInv'
  BY PlainImageSlots, CurrentSlots, ClearSlots, SetSlots, SetAttributesSlots, LateSlots DEF Image

(* The power goes and comes, and the user asks for the app. *)
LEMMA OutsideSlots ==
  ASSUME TypeOK, SlotInv, Crash \/ CrashInWrite \/ User \/ External
  PROVE  SlotInv'
<1> USE DEF media, tables
<1>1. bootLun \in {1, 2}
  BY DEF SlotInv, LunInv
<1>2. CASE Crash \/ CrashInWrite \/ Reboot
  BY <1>1, <1>2, OffSlots DEF Crash, CrashInWrite, Reboot, PowerOff
<1>3. ASSUME NEW s \in Slots, LoaderMarksUnbootable(s)
      PROVE  SlotInv'
  BY <1>1, <1>3, OffSlots DEF LoaderMarksUnbootable
<1>4. CASE Connect
  <2>1. /\ pc' = "start" /\ image' = "dxe" /\ bootLun' = bootLun
        /\ partInfo' = disk'["primary"]
    BY <1>4 DEF Connect
  <2>2. QED
    BY <1>1, <2>1
       DEF SlotInv, Cursor, BakBehind, Rest, Flushing, Buffer, Remembered, LunInv, Point, InFlush,
           Early, Late, Primary
<1>5. CASE RunApp
  <2>1. /\ pc = "idle" /\ pc' = "start" /\ image' = "app"
        /\ UNCHANGED <<disk, bootLun, partInfo>>
    BY <1>5 DEF RunApp, Goto
  <2>2. QED
    BY <1>1, <2>1
       DEF SlotInv, Cursor, BakBehind, Rest, Flushing, Buffer, Remembered, LunInv, Point, InFlush,
           Early, Late, Primary
<1>6. CASE PressKey
  <2>1. /\ pc = "key" /\ pc' = "idle"
        /\ UNCHANGED <<disk, bootLun, partInfo, mem, bak, image, cur, slot>>
    BY <1>6 DEF PressKey, Goto
  <2>2. Remembered'
    BY <2>1 DEF SlotInv, Remembered, Point, InFlush, Primary
  <2>3. QED
    BY <1>1, <2>1, <2>2
       DEF SlotInv, Cursor, BakBehind, Rest, Flushing, Buffer, LunInv, Point, InFlush,
           Early, Late
<1>7. QED
  BY <1>2, <1>3, <1>4, <1>5, <1>6 DEF User, External

LEMMA InitSlots == Init => SlotInv
<1> SUFFICES ASSUME Init PROVE SlotInv
  OBVIOUS
<1>1. bootLun \in {1, 2} /\ pc = "off"
  BY DEF Init, LunOfSlot
<1>2. QED
  BY <1>1
     DEF SlotInv, Cursor, BakBehind, Rest, Flushing, Buffer, Remembered, LunInv, Point, InFlush,
         Early, Late

LEMMA SlotStep ==
  ASSUME MaxFaults = 0, TypeOK, WalkInv, SlotInv, [Next]_vars
  PROVE  SlotInv'
<1>1. CASE UNCHANGED vars
  BY <1>1
     DEF vars, media, tables, flush, SlotInv, Cursor, BakBehind, Rest, Flushing, Buffer,
         Remembered, LunInv, Point, InFlush, Primary, Tracked, Written, Walked, LunParts
<1>2. QED
  BY <1>1, FlushSlots, ImageSlots, OutsideSlots, Steps DEF WalkInv

LEMMA SlotInvariance ==
  MaxFaults = 0 => (Spec => [](TypeOK /\ CopyInv /\ WalkInv /\ SlotInv))
<1>1. SUFFICES ASSUME MaxFaults = 0
               PROVE  Spec => [](TypeOK /\ CopyInv /\ WalkInv /\ SlotInv)
  OBVIOUS
<1>2. Init => CopyInv /\ WalkInv /\ SlotInv
  BY InitCopies, WalkInit, InitSlots
<1>3. TypeOK /\ CopyInv /\ WalkInv /\ SlotInv /\ [Next]_vars => CopyInv' /\ WalkInv' /\ SlotInv'
  BY <1>1, CopyStep, WalkStep, SlotStep
<1>4. QED
  BY <1>2, <1>3, TypeCorrect, PTL DEF Spec

(* While an image runs the next boot would read the primary. *)
LEMMA NextBootReads ==
  ASSUME TypeOK, CopyInv, pc # "off"
  PROVE  NextBootTable = disk["primary"]
<1>1. \A i \in Index : Readable("primary", i)
  BY CopiesExist DEF CopyInv, ValidWhenOn, Readable, Luns
<1>2. NextBootTable = [i \in Index |-> disk["primary"][i]]
  BY <1>1, CopiesExist DEF NextBootTable, RestoredDisk
<1>3. QED
  BY <1>2, CopiesExist DEF TypeOK, Table

(* From the flush of the attributes on, the next boot finds the slot.        *)
LEMMA LateFinds ==
  ASSUME TypeOK, CopyInv, SlotInv, pc \in Late
  PROVE  /\ ActiveSlots(NextBootTable) = {slot}
         /\ ~BootAttr(NextBootTable, Other(slot)).active
<1>1. slot \in Slots /\ Other(slot) \in Slots /\ NextBootTable = disk["primary"]
  BY OtherType, NextBootReads DEF TypeOK, Late
<1>2. \A s \in Slots : BootAttr(disk["primary"], s) = BootAttr(mem, s)
  BY BootIndexType DEF SlotInv, Rest, BootAttr, Primary
<1>3. /\ BootAttr(mem, slot).active /\ BootAttr(mem, slot).priority = MAX_PRIORITY
      /\ ~BootAttr(mem, Other(slot)).active
  BY DEF SlotInv, Cursor, Late, Point, InFlush
<1>4. QED
  BY <1>1, <1>2, <1>3, TheActive

(* Whatever tables the power losses before left behind: when SetActiveSlot   *)
(* has done its work and no transfer failed, GetActiveSlot will find the     *)
(* slot at the next boot, and on UFS the boot LUN is the slot's              *)
(* (SetActiveSlot, SwitchPtnSlots, UpdatePartitionAttributes).               *)
THEOREM SlotIsSet == MaxFaults = 0 => (Spec => []SetActiveSlotHolds)
<1>1. TypeOK /\ CopyInv /\ SlotInv => SetActiveSlotHolds
  <2>1. SUFFICES ASSUME TypeOK, CopyInv, SlotInv, pc = "done"
                 PROVE  /\ ActiveSlots(NextBootTable) = {slot}
                        /\ ~BootAttr(NextBootTable, Other(slot)).active
                        /\ IsUfs => bootLun = LunOfSlot(slot)
    BY DEF SetActiveSlotHolds
  <2>2. IsUfs => bootLun = LunOfSlot(slot)
    BY <2>1 DEF SlotInv, LunInv, Point, InFlush
  <2>3. QED
    BY <2>1, <2>2, LateFinds DEF Late
<1>2. QED
  BY <1>1, SlotInvariance, PTL

(* SwitchSlotsApp resets into the slot it was asked for, for every partition *)
(* table and whatever the power losses before left behind, when no transfer  *)
(* fails (SwitchSlotsApp, SetActiveSlot, UpdatePartitionAttributes).  With a *)
(* failed one it depends on the layout of the media: see the property.       *)
THEOREM ResetIsIntoTheSlot == MaxFaults = 0 => (Spec => []ResetOnlyWhenSwitched)
<1>1. TypeOK /\ CopyInv /\ SlotInv => ResetOnlyWhenSwitched
  BY LateFinds DEF ResetOnlyWhenSwitched, Late
<1>2. QED
  BY <1>1, SlotInvariance, PTL

(* A step that moves the boot LUN moves it to the slot the tables name. *)
LEMMA LunMoves ==
  ASSUME MaxFaults = 0, TypeOK, CopyInv, WalkInv, SlotInv, [Next]_vars, bootLun' # bootLun
  PROVE  \E s \in Slots : ActiveSlots(NextBootTable) = {s} /\ bootLun' = LunOfSlot(s)
<1> USE DEF media, tables
<1>1. ~Flush
  BY FlushQuiet
<1>2. ~(Crash \/ CrashInWrite \/ User \/ External \/ UNCHANGED vars)
  BY DEF Crash, CrashInWrite, User, PressKey, RunApp, Reboot, External, Connect, LoaderMarksUnbootable, vars
<1>3. CheckBootLun \/ SetBootLun
  BY <1>1, <1>2, Steps
     DEF Image, Start, GetCurrentSlotSuffix, ChooseSlot, ClearSlot, SetActiveSlot,
         SetSlotAttributes, SwapGuids, MarkActive, DxeReturns, AppUpdatesGuids,
         AppUpdatesAttributes, ResetSystem
<1>4. pc \in Late /\ bootLun' = FixedLun(slot) /\ slot \in Slots /\ bootLun \in {1, 2}
  BY <1>3 DEF CheckBootLun, SetBootLun, Late, TypeOK, SlotInv, LunInv
<1>5. bootLun' = LunOfSlot(slot)
  BY <1>4, FixedLunIs
<1>6. QED
  BY <1>4, <1>5, LateFinds

(* The boot LUN never runs ahead of the attributes: it moves only to the     *)
(* LUN of the slot that the tables on the media already name (SetActiveSlot, *)
(* SwitchPtnSlots).                                                          *)
THEOREM LunFollows == MaxFaults = 0 => (Spec => LunAfterAttributes)
<1>1. SUFFICES ASSUME MaxFaults = 0
               PROVE  Spec => LunAfterAttributes
  OBVIOUS
<1>2. TypeOK /\ CopyInv /\ WalkInv /\ SlotInv /\ [Next]_vars =>
        [bootLun' # bootLun => \E s \in Slots : /\ ActiveSlots(NextBootTable) = {s}
                                                 /\ bootLun' = LunOfSlot(s)]_vars
  BY <1>1, LunMoves
<1>3. Spec => [](TypeOK /\ CopyInv /\ WalkInv /\ SlotInv)
  BY <1>1, SlotInvariance
<1>4. QED
  BY <1>2, <1>3, PTL DEF Spec, LunAfterAttributes

=============================================================================

------------------------------ MODULE SlotTable ------------------------------
(***************************************************************************)
(* The partition table of an A/B device as BootSlotLib sees it: the array  *)
(* PtnEntries of src/GPLDrivers/Library/BootSlotLib/PartitionTableUpdate.c *)
(* and the questions the library asks of it.  No state: BootSlot.tla keeps *)
(* the tables, here are the pure operators on one of them.                 *)
(*                                                                         *)
(* A table is a function from 1..NumPartitions, in the order in which      *)
(* UpdatePartitionEntries enumerates the partitions (LUN by LUN), to an    *)
(* entry [guid, attr].  Names never change, so they are constants, split   *)
(* into a base and a tail: "boot_a" is base "boot" and tail "a", and       *)
(* "boot_a..." with more letters after the suffix has tail "a+".  The raw  *)
(* LUN handles, which have no type GUID and which every loop skips, are    *)
(* left out.  PtnEntries may lack entries of the device: the operators     *)
(* that go through the array take the set K of the entries it has.         *)
(***************************************************************************)
EXTENDS Naturals

CONSTANTS
  NumPartitions,  \* PartitionCount, without the raw LUN handles
  LunOf,          \* PtnEntries[i].lun
  BaseOf,         \* PartitionName, up to the last underscore
  TailOf,         \* PartitionName, what follows it
  IdleGuid        \* the type GUID vendors give the inactive partition of a pair

Slots == {"a", "b"}

Other(s) == IF s = "a" THEN "b" ELSE "a"

Index == 1 .. NumPartitions

Luns == {LunOf[i] : i \in Index}

LunParts(l) == {i \in Index : LunOf[i] = l}

(***************************************************************************)
(* UpdatePartitionEntries fills PtnEntries with LUN 0, then LUN 1, ...     *)
(***************************************************************************)
ASSUME TableAssumption ==
  /\ NumPartitions \in Nat \ {0}
  /\ LunOf \in [Index -> Nat]
  /\ \A i, j \in Index : i <= j => LunOf[i] <= LunOf[j]

-----------------------------------------------------------------------------
(* Attributes *)

(***************************************************************************)
(* PART_ATT_*: the bits of the attribute word that the library reads or    *)
(* writes.  The retry count is 3 bits on disk; the library only sets it to *)
(* 7, so the model keeps whether it is 7.                                  *)
(***************************************************************************)
MAX_PRIORITY == 3

Attr == [priority : 0 .. MAX_PRIORITY, active : BOOLEAN, fullRetry : BOOLEAN,
         successful : BOOLEAN, unbootable : BOOLEAN]

BlankAttr == [priority |-> 0, active |-> FALSE, fullRetry |-> FALSE,
              successful |-> FALSE, unbootable |-> FALSE]

Guids == {BaseOf[i] : i \in Index} \union {IdleGuid}

Entry == [guid : Guids, attr : Attr]

Table == [Index -> Entry]

-----------------------------------------------------------------------------
(* Names *)

(* GetPartitionIndex compares whole names. *)
Exactly(i, base, tail) == BaseOf[i] = base /\ TailOf[i] = tail

(* StrStr(name, L"_a"): the suffix anywhere in the name. *)
ContainsSuffix(i, s) ==
  TailOf[i] = s \/ TailOf[i] = (IF s = "a" THEN "a+" ELSE "b+")

(* StrnCmp(name, "<base>_<s>", StrLen("<base>_<s>")): only a prefix test. *)
StartsWith(i, base, s) == BaseOf[i] = base /\ ContainsSuffix(i, s)

(* GetPartitionIndex: the first entry of that name, 0 for INVALID_PTN. *)
GetPartitionIndex(base, tail) ==
  LET hits == {i \in Index : /\ Exactly(i, base, tail)
                             /\ \A j \in Index : Exactly(j, base, tail) => i <= j}
  IN  IF hits = {} THEN 0 ELSE CHOOSE i \in hits : TRUE

(***************************************************************************)
(* The images go on only with two "boot_a" / "boot_b" entries at least;    *)
(* GetBootPartitionEntry then finds both.                                  *)
(***************************************************************************)
PartitionHasMultiSlot(base, K) ==
  \E i, j \in K : /\ i # j
                  /\ \E s \in Slots : StartsWith(i, base, s)
                  /\ \E s \in Slots : StartsWith(j, base, s)

BootIndex(s) == GetPartitionIndex("boot", s)

(* GetBootPartitionEntry is not NULL. *)
HasBootEntry(s) == BootIndex(s) # 0

-----------------------------------------------------------------------------
(* Slots *)

BootAttr(table, s) == table[BootIndex(s)].attr

IsSlotBootable(table, s) ==
  /\ HasBootEntry(s)
  /\ ~BootAttr(table, s).unbootable
  /\ BootAttr(table, s).successful

(* A slot GetActiveSlot may pick: ACTIVE with a priority above 0. *)
Candidate(table, s) ==
  BootAttr(table, s).active /\ BootAttr(table, s).priority > 0

(* The slots are visited "a" first; "b" wins only with a higher priority. *)
ActiveSlots(table) ==
  {s \in Slots :
     /\ Candidate(table, s)
     /\ Candidate(table, Other(s)) =>
          \/ BootAttr(table, s).priority > BootAttr(table, Other(s)).priority
          \/ /\ s = "a"
             /\ BootAttr(table, "a").priority = BootAttr(table, "b").priority}

(* GetActiveSlot takes slot A for a first boot. *)
FirstBoot(table) ==
  /\ ActiveSlots(table) = {}
  /\ ~BootAttr(table, "a").active
  /\ ~BootAttr(table, "a").successful
  /\ ~BootAttr(table, "a").unbootable
  /\ BootAttr(table, "a").priority = 0

(* Mutant of Activated: ACTIVE is not among the bits that are set. *)
MutActivated(attr) ==
  [priority |-> MAX_PRIORITY, active |-> attr.active, fullRetry |-> TRUE,
   successful |-> attr.successful, unbootable |-> FALSE]

(* |= PRIORITY | ACTIVE | MAX_RETRY_COUNT and &= ~UNBOOTABLE *)
Activated(attr) ==
  [priority |-> MAX_PRIORITY, active |-> TRUE, fullRetry |-> TRUE,
   successful |-> attr.successful, unbootable |-> FALSE]

(* Mutants of Deactivated: the priority leaves its two bits; ACTIVE stays. *)
MutDeactivatedPriority(attr) ==
  [attr EXCEPT !.active = FALSE, !.priority = MAX_PRIORITY + 1]
MutDeactivatedActive(attr) ==
  [attr EXCEPT !.priority = MAX_PRIORITY - 1]

(* &= ~PRIORITY & ~ACTIVE and |= (MAX_PRIORITY - 1) << PART_ATT_PRIORITY_BIT *)
Deactivated(attr) ==
  [attr EXCEPT !.active = FALSE, !.priority = MAX_PRIORITY - 1]

SetAttr(table, s, attr) == [table EXCEPT ![BootIndex(s)].attr = attr]

DefaultSlotA(table) ==
  SetAttr(table, "a", [Activated(BootAttr(table, "a")) EXCEPT !.successful = FALSE])

ClearUnbootable(table, s) ==
  SetAttr(table, s, [BootAttr(table, s) EXCEPT !.unbootable = FALSE, !.fullRetry = TRUE])

(***************************************************************************)
(* The attribute half of SetActiveSlot: the new slot is activated, its     *)
(* SUCCESSFUL bit reset and/or set, and the alternate slot loses ACTIVE    *)
(* and gets priority MAX_PRIORITY - 1.                                     *)
(***************************************************************************)
SlotActivated(table, s, reset, set) ==
  LET up   == Activated(BootAttr(table, s))
      new  == [up EXCEPT !.successful = set \/ (@ /\ ~reset)]
  IN  SetAttr(SetAttr(table, s, new), Other(s), Deactivated(BootAttr(table, Other(s))))

(* Mutant of MarkPtnActive: without the else branch. *)
MutMarkPtnActive(table, s, K) ==
  [i \in Index |-> IF i \in K
                   THEN [table[i] EXCEPT !.attr.active = @ \/ ContainsSuffix(i, s)]
                   ELSE table[i]]

(* MarkPtnActive: ACTIVE on every partition of the slot, and on no other. *)
MarkPtnActive(table, s, K) ==
  [i \in Index |-> IF i \in K
                   THEN [table[i] EXCEPT !.attr.active = ContainsSuffix(i, s)]
                   ELSE table[i]]

-----------------------------------------------------------------------------
(* Type GUIDs *)

(* The names GetMultiSlotPartsList lists: a base with two sibling entries. *)
MultiSlotParts(K) ==
  {BaseOf[i] : i \in {k \in K :
     /\ TailOf[k] \in Slots
     /\ \E j \in K : j > k /\ BaseOf[j] = BaseOf[k] /\ TailOf[j] \in Slots}}

(* The entry SwitchPtnSlots keeps for "<base>_<s>": the last that matches. *)
IsLastMatch(i, base, s, K) ==
  StartsWith(i, base, s) /\ \A j \in K : StartsWith(j, base, s) => j <= i

(***************************************************************************)
(* SwitchPtnSlots: the type GUIDs of "<base>_a" and "<base>_b" change      *)
(* places, for every listed base.  The bases are different, so are the     *)
(* pairs, and the order of the list does not matter.  An entry that is in  *)
(* no pair keeps its GUID.                                                 *)
(***************************************************************************)
SwapPartners(i, K) ==
  {j \in K : /\ i \in K
             /\ BaseOf[i] \in MultiSlotParts(K)
             /\ \E s \in Slots : /\ IsLastMatch(i, BaseOf[i], s, K)
                                 /\ IsLastMatch(j, BaseOf[i], Other(s), K)}

Partner(i, K) ==
  IF SwapPartners(i, K) = {} THEN i ELSE CHOOSE j \in SwapPartners(i, K) : TRUE

(* Mutant of SwapPtnGuids: the second CopyMem of SwapPtnGuid is missing. *)
MutSwapPtnGuids(table, K) ==
  [i \in Index |-> IF Partner(i, K) > i
                   THEN [table[i] EXCEPT !.guid = table[Partner(i, K)].guid]
                   ELSE table[i]]

SwapPtnGuids(table, K) ==
  [i \in Index |-> [table[i] EXCEPT !.guid = table[Partner(i, K)].guid]]

=============================================================================

----------------------------- MODULE MemoryInit -----------------------------
(***************************************************************************)
(* The first stage: MemoryPeim adds up the memory of the device tree,      *)
(* picks a memory class and turns the rows of the port's map into hand-off *)
(* blocks (what the DXE core may use) and MMU descriptors (how it is       *)
(* mapped); PlatformPeim then hands over the address of the Info Blk.      *)
(***************************************************************************)
EXTENDS Phone, FiniteSetsExt

VARIABLES
  node,         \* memory nodes of the device tree read so far
  MemoryTotal,  \* their sum, in MB (what the rows add to it later is never read)
  Mem,          \* the class selected
  row,          \* the row MemoryDescriptorEx points to
  hobs,         \* the rows that got a resource hand-off block, in order
  MemoryDescriptor,  \* the rows in the table for the MMU, in order
  handed        \* the page published as the Info Blk, 0 for none yet

memoryVars == <<node, MemoryTotal, Mem, row, hobs, MemoryDescriptor, handed>>

Classes == {"Mem4G", "Mem6G", "Mem8G", "Mem10G", "Mem12G"}

MAX_ARM_MEMORY_REGION_DESCRIPTOR_COUNT == 128

-----------------------------------------------------------------------------
(* Operators. *)

(* The SIZE_MB_IN lines: both ends are excluded, and every other total is  *)
(* taken for 4 GB.                                                         *)
ClassOf(total) ==
  CASE total > 5120 /\ total < 6656 -> "Mem6G"
    [] total > 7168 /\ total < 8704 -> "Mem8G"
    [] total > 9216 /\ total < 10752 -> "Mem10G"
    [] total > 11520 /\ total < 12488 -> "Mem12G"
    [] OTHER -> "Mem4G"

(* Mutant of OfOtherClass: the rows of every class are installed. *)
MutOfOtherClass(r) == FALSE

(* The switch on HobOption. *)
OfOtherClass(r) == r.option \in Classes \ {Mem}

GetsHob(r) == r.option \in {"AddMem", "AddDev", "HobOnlyNoCacheSetting"} \cup Classes

GetsMapped(r) == r.option /= "HobOnlyNoCacheSetting"

(* AddHob adds an allocation for these. *)
Allocated(r) == r.resource = "SYS_MEM" \/ r.type = "RtData"

(* Memory the DXE core hands out: system memory allocated as conventional. *)
IsFree(r) == Allocated(r) /\ r.resource = "SYS_MEM" /\ r.type = "Conv"

Overlap(r, s) == r.base < s.base + s.pages /\ s.base < r.base + r.pages

Covers(r, base, pages) == r.base <= base /\ base + pages <= r.base + r.pages

-----------------------------------------------------------------------------
(* MemoryPeim. *)

MemoryInitial ==
  /\ node = 0 /\ MemoryTotal = 0 /\ Mem = "Mem4G" /\ row = 1
  /\ hobs = <<>> /\ MemoryDescriptor = <<>> /\ handed = 0

(* One round of fdt_get_memory. *)
ReadNode ==
  /\ pc = "nodes" /\ node < Len(phone.nodes)
  /\ MemoryTotal' = MemoryTotal + phone.nodes[node + 1]
  /\ node' = node + 1
  /\ UNCHANGED <<phone, pc, faults, Mem, row, hobs, MemoryDescriptor, handed>>

SelectClass ==
  /\ pc = "nodes" /\ node = Len(phone.nodes)
  /\ Mem' = ClassOf(MemoryTotal)
  /\ pc' = "rows"
  /\ UNCHANGED <<phone, faults, node, MemoryTotal, row, hobs, MemoryDescriptor, handed>>

AtRow == pc = "rows" /\ row <= Len(Map)

SkipRow ==
  /\ AtRow /\ OfOtherClass(Map[row])
  /\ row' = row + 1
  /\ UNCHANGED <<phone, pc, faults, node, MemoryTotal, Mem, hobs, MemoryDescriptor, handed>>

(* Mutant of TakeRow: the switch has no AddHob for the rows of a class. *)
MutTakeRow ==
  /\ AtRow /\ ~OfOtherClass(Map[row])
  /\ hobs' = IF GetsHob(Map[row]) /\ Map[row].option \notin Classes THEN Append(hobs, row)
             ELSE hobs
  /\ MemoryDescriptor' = IF GetsMapped(Map[row]) THEN Append(MemoryDescriptor, row)
                         ELSE MemoryDescriptor
  /\ row' = row + 1
  /\ UNCHANGED <<phone, pc, faults, node, MemoryTotal, Mem, handed>>

(* AddHob, and the descriptor for the MMU.  The assertion on the size of   *)
(* the table only prints: the descriptor is written all the same.          *)
TakeRow ==
  /\ AtRow /\ ~OfOtherClass(Map[row])
  /\ hobs' = IF GetsHob(Map[row]) THEN Append(hobs, row) ELSE hobs
  /\ MemoryDescriptor' = IF GetsMapped(Map[row]) THEN Append(MemoryDescriptor, row)
                         ELSE MemoryDescriptor
  /\ row' = row + 1
  /\ UNCHANGED <<phone, pc, faults, node, MemoryTotal, Mem, handed>>

(* The terminator and InitMmu. *)
EndOfMap ==
  /\ pc = "rows" /\ row > Len(Map)
  /\ pc' = "platform"
  /\ UNCHANGED <<phone, faults, memoryVars>>

(* The page of the Info Blk: a number in each port's PlatformPeiLib, not   *)
(* looked up in its map.                                                   *)
InfoBlk(soc) == IF soc \in {"sm6225", "sm6375"} THEN \h5FFFF ELSE \h9FFFF

(* PlatformPeim. *)
InstallPlatformHob ==
  /\ pc = "platform"
  /\ handed' = InfoBlk(phone.soc)
  /\ pc' = "smbios"
  /\ UNCHANGED <<phone, faults, node, MemoryTotal, Mem, row, hobs, MemoryDescriptor>>

MemoryNext ==
  \/ ReadNode \/ SelectClass
  \/ SkipRow \/ TakeRow \/ EndOfMap
  \/ InstallPlatformHob

-----------------------------------------------------------------------------
(* Properties. *)

Rising(s) == \A i, j \in DOMAIN s : i < j => s[i] < s[j]

(* What was taken is what the map says for the class that was selected,    *)
(* row by row, once and in order.                                          *)
Followed ==
  LET map == Map
      seen == {i \in 1 .. row - 1 : ~OfOtherClass(map[i])}
  IN  /\ Rising(hobs) /\ Range(hobs) = {i \in seen : GetsHob(map[i])}
      /\ Rising(MemoryDescriptor) /\ Range(MemoryDescriptor) = {i \in seen : GetsMapped(map[i])}

(***************************************************************************)
(* What is wrong with the maps: the pairs of rows, by their addresses,     *)
(* that overlap on a port although one of them is free memory or the two   *)
(* are mapped differently.  On sm6225 and sm6375 free memory is described  *)
(* two and three times; on the others free memory reaches into a region    *)
(* that is kept; the last two of mata and nx563j are both kept.            *)
(***************************************************************************)
ListedOverlaps(p) ==
  CASE p.soc \in {"sm6225", "sm6375"} ->
         {{\h60000}, {\h60000, \h63900}, {\h60000, \h67E00}, {\h63900, \h67E00},
          {\h80000}, {\hC0000}, {\h80000, \hC0000}}
    [] p.soc = "sdm660" -> {{\h8BF00, \h94000}}
    [] p.soc = "sm7150" -> {{\h85F40, \h86000}}
    [] p.port \in {"mata", "nx563j"} ->
         {{\h8AB00, \h95800}, {\h86600, \h87B00}, {\h88F00, \h8AB00}}
    [] p.port \in {"wahoo", "walleye", "joan", "cheeseburger", "dumpling", "sagit"} ->
         {{\h8AB00, \h95800}}
    [] p.port \in {"j716f", "tb_9707f", "tb371fc", "instantnoodlep", "r8q", "pipa"} ->
         {{\hB0000, \hB0400}}
    [] p.port \in {"alioth", "lmi"} -> {{\hB0000, \hB0190}}
    [] OTHER -> {}

(* The phones that get no block of free memory for the UEFI heap: the map  *)
(* of sm7125 leaves the memory to RamPartitionDxe, those of sm8150 have    *)
(* rows for three classes and none for the others.                         *)
HeapLeftOut(p, class) ==
  \/ p.soc = "sm7125"
  \/ p.soc = "sm8150" /\ class \in {"Mem4G", "Mem10G"}

(* Of the rows of phone p that got a block: no memory is described as free *)
(* twice, and none that is free belongs to a region that is kept, but for  *)
(* the listed pairs.                                                       *)
FreeApart(p, rows) ==
  \A i, j \in rows :
    LET r == p.map[i]
        s == p.map[j]
    IN  i /= j /\ IsFree(r) /\ Overlap(r, s) => {r.base, s.base} \in ListedOverlaps(p)

(* Of its rows in the table of the MMU: none that overlap are mapped       *)
(* differently, but for the listed pairs.                                  *)
AttributesAgree(p, rows) ==
  \A i, j \in rows :
    LET r == p.map[i]
        s == p.map[j]
    IN  i < j /\ r.attr /= s.attr /\ Overlap(r, s) => {r.base, s.base} \in ListedOverlaps(p)

(* The UEFI heap lies in free memory.                                      *)
HeapFree(p, rows) ==
  \E i \in rows : IsFree(p.map[i]) /\ Covers(p.map[i], p.heap[1], p.heap[2])

InfoBlkKept(p, rows) ==
  \A i \in rows : IsFree(p.map[i]) => ~Overlap(p.map[i], [base |-> InfoBlk(p.soc), pages |-> 1])

(* The memory of a phone of the class, in MB. *)
NominalSize ==
  [Mem4G |-> 4096, Mem6G |-> 6144, Mem8G |-> 8192, Mem10G |-> 10240, Mem12G |-> 12288]

(* Blocks describe no more memory than a phone of the class has, when the  *)
(* map has rows for classes.                                               *)
Fits(map, class, rows) ==
  LET memory == {i \in rows : map[i].resource = "SYS_MEM"}
  IN  (\E i \in DOMAIN map : map[i].option \in Classes) =>
        MapThenSumSet(LAMBDA i : map[i].pages, memory) <= NominalSize[class] * 256

(* The rows with a block, and those in the table of the MMU, are memory    *)
(* that phone p of a class can be given.                                   *)
RowsSound(p, class, withHob, mapped) ==
  /\ FreeApart(p, withHob) /\ AttributesAgree(p, mapped)
  /\ ~HeapLeftOut(p, class) => HeapFree(p, withHob)
  /\ InfoBlkKept(p, withHob)
  /\ Fits(p.map, class, withHob)

(* What MemoryPeim hands to the DXE phase, on every port and for every     *)
(* size of the phone: the rows of its class, all of them, in order and no  *)
(* other.  But for the pairs of rows listed for the port, no memory is     *)
(* described as free twice, none that is free belongs to a region that is  *)
(* kept, and no page is mapped in two ways.  The heap is free memory, but  *)
(* on sm7125 and on phones of sm8150 of a class its maps have no rows for; *)
(* the Info Blk is not.  No more memory is described than a phone of the   *)
(* class has, where the map has rows for classes, and a phone whose device *)
(* tree names all its memory is of its class.  The table of the MMU does   *)
(* not overflow.  A tree that names less than all (5.5 GB, say) still gets *)
(* the rows of the full size.  MemoryPeim, AddHob, PlatformPeim, the maps. *)
MapSound ==
  pc = "platform" =>
    /\ Followed
    /\ \A class \in Classes : MemoryTotal = NominalSize[class] => Mem = class
    /\ RowsSound(phone, Mem, Range(hobs), Range(MemoryDescriptor))
    /\ Len(MemoryDescriptor) < MAX_ARM_MEMORY_REGION_DESCRIPTOR_COUNT

-----------------------------------------------------------------------------
(* What the tables must be for that, whatever the device tree says. *)

HobRows(map, class) ==
  {i \in DOMAIN map : map[i].option \notin Classes \ {class} /\ GetsHob(map[i])}

MappedRows(map, class) ==
  {i \in DOMAIN map : map[i].option \notin Classes \ {class} /\ GetsMapped(map[i])}

TablesSound ==
  \A p \in Phones, class \in Classes :
    /\ RowsSound(p, class, HobRows(p.map, class), MappedRows(p.map, class))
    /\ Cardinality(MappedRows(p.map, class)) < MAX_ARM_MEMORY_REGION_DESCRIPTOR_COUNT

=============================================================================

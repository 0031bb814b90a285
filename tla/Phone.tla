-------------------------------- MODULE Phone --------------------------------
(***************************************************************************)
(* What the start of the platform runs on: the phone, where the start has  *)
(* got to, and the calls that failed so far.  MemoryInit, Smbios and       *)
(* AcpiUpdate are its stages; PlatformStart puts them in a row.            *)
(***************************************************************************)
EXTENDS Naturals, Sequences, FiniteSets

CONSTANTS
  Phones,     \* records [port, map, soc, heap, nodes, names], see below
  MaxFaults   \* bound: calls that fail in one start

(***************************************************************************)
(* A phone is its port and its memory map (a sequence of rows, see         *)
(* MemoryTables), its SoC, the first page and the length of the UEFI heap  *)
(* (PcdUefiMemPoolBase, PcdUefiMemPoolSize), the memory nodes of its       *)
(* device tree in MB, and those of the names that get patched that its     *)
(* DSDT has.                                                               *)
(***************************************************************************)
Row ==
  [name : STRING, option : STRING, resource : STRING, type : STRING, attr : STRING,
   base : Nat, pages : Nat]

ASSUME PhoneAssumption ==
  /\ MaxFaults \in Nat
  /\ \A p \in Phones : p.map \in Seq(Row) /\ p.nodes \in Seq(Nat)

VARIABLES phone, pc, faults

Map == phone.map

Fails == faults < MaxFaults /\ faults' = faults + 1

Works == UNCHANGED faults

(* The first row with the name; 0 when there is none.                      *)
FirstNamed(map, name) ==
  LET found == {i \in DOMAIN map : map[i].name = name}
  IN  IF found = {} THEN 0 ELSE CHOOSE i \in found : \A j \in found : i <= j

(* In the map, whatever the class of the row and whether it was installed. *)
LocateMemoryMapAreaByName(name) == FirstNamed(Map, name)

PhoneInit == phone \in Phones /\ pc = "nodes" /\ faults = 0

=============================================================================

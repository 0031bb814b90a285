---------------------------- MODULE PlatformStart ----------------------------
(***************************************************************************)
(* The start of the platform, from the device tree to the operating        *)
(* system, on every port: MemoryInit, then Smbios, then AcpiUpdate.  They  *)
(* share the map of the phone: what the first turned into memory is what   *)
(* the last names to the system and to the modem.                          *)
(***************************************************************************)
EXTENDS MemoryInit, Smbios, AcpiUpdate

vars == <<phone, pc, faults, memoryVars, smbiosVars, acpiVars>>

Init == PhoneInit /\ MemoryInitial /\ SmbiosInitial /\ AcpiInitial

Next ==
  \/ MemoryNext /\ UNCHANGED <<smbiosVars, acpiVars>>
  \/ SmbiosNext /\ UNCHANGED <<memoryVars, acpiVars>>
  \/ AcpiNext /\ UNCHANGED <<memoryVars, smbiosVars>>

Spec == Init /\ [][Next]_vars

-----------------------------------------------------------------------------
(* Properties. *)

(* The type of the state.  The variables of the stages.                    *)
TypeOK ==
  /\ phone.nodes \in Seq(Nat) /\ faults \in 0 .. MaxFaults
  /\ pc \in {"nodes", "rows", "platform", "smbios", "setup", "os"}
  /\ node \in 0 .. Len(phone.nodes) /\ Mem \in Classes /\ row \in 1 .. Len(Map) + 1
  /\ \A i \in DOMAIN hobs : hobs[i] \in 1 .. row - 1
  /\ \A i \in DOMAIN MemoryDescriptor : MemoryDescriptor[i] \in 1 .. row - 1
  /\ step >= Len(table) + Cardinality(refused)
  /\ \A f \in DOMAIN field : field[f] \in StrayHandles \cup 0 .. step
  /\ \A i \in DOMAIN table : \A f \in DOMAIN table[i].refs :
       table[i].refs[f] \in StrayHandles \cup 0 .. step
  /\ at \in {"protect", "find", "patch", "unpatched", "nothing"}
  /\ next \in 0 .. Len(Names) /\ dsdt \in BOOLEAN

(* What the DSDT says of the region shared with the modem is true.         *)
ModemToldTruly ==
  /\ "RMTB" \in DOMAIN patched => patched["RMTB"] = modem[1]
  /\ "RMTX" \in DOMAIN patched => patched["RMTX"] = modem[2]

(* The phones whose map has the row of the shared region, but not for      *)
(* their class: LocateMemoryMapAreaByName finds a row MemoryPeim left out. *)
ModemLeftOut(p, class) == p.port = "nabu" /\ class \in {"Mem4G", "Mem10G"}

(* None of these blocks hands out any of the pages.                        *)
HandedToNobody(blocks, base, pages) ==
  \A r \in blocks : IsFree(r) => ~Overlap(r, [base |-> base, pages |-> pages])

(* One of them keeps all of the pages from the system, mapped uncached.    *)
KeptUncachedBy(blocks, base, pages) ==
  \E r \in blocks : r.attr = "uncached" /\ Covers(r, base, pages)

(* The region shared with the modem is the one the system is told of       *)
(* (RMTB, RMTX), is handed out to nobody, and is kept from the system,     *)
(* uncached, by a block MemoryPeim built for this phone: but for nabu of 4 *)
(* or 10 GB, whose map has the row of the region for other classes only.   *)
(* LocateMemoryMapAreaByName looks at the map, whatever MemoryPeim took    *)
(* of it.                                                                  *)
ModemMemoryReserved ==
  pc = "os" /\ modem /= <<>> =>
    LET blocks == LET map == Map IN {map[hobs[i]] : i \in DOMAIN hobs}
    IN  /\ ModemToldTruly
        /\ HandedToNobody(blocks, modem[1], modem[2])
        /\ ~ModemLeftOut(phone, Mem) => KeptUncachedBy(blocks, modem[1], modem[2])

(* What the tables must be for that: of the first row MPSS_EFS, on the     *)
(* ports that share its region.                                            *)
TablesKeepModem ==
  \A p \in Phones, class \in Classes :
    LET efs == FirstNamed(p.map, "MPSS_EFS")
        base == p.map[efs].base
        pages == p.map[efs].pages
        blocks == {p.map[i] : i \in HobRows(p.map, class)}
    IN  p.soc \in {"sm7125", "sm7325", "sm8150"} /\ efs /= 0 =>
          /\ HandedToNobody(blocks, base, pages)
          /\ ~ModemLeftOut(p, class) => KeptUncachedBy(blocks, base, pages)

=============================================================================

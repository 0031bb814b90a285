----------------------------- MODULE AcpiUpdate -----------------------------
(***************************************************************************)
(* The third stage: PlatformSetup of the port, called by the boot manager  *)
(* after the console.  It writes what the chip and the memory map say into *)
(* the names of the DSDT, one after the other, each time taking the whole  *)
(* table out of the ACPI tables and putting a patched copy in; and on some *)
(* ports it has the hypervisor share the region of the modem.              *)
(***************************************************************************)
EXTENDS Phone

VARIABLES
  at,       \* where PlatformSetup is: "protect", "find", "patch", "unpatched"
            \* (a protocol is missing) or "nothing" (it is empty)
  next,     \* names dealt with
  dsdt,     \* whether a DSDT is among the ACPI tables
  patched,  \* the names of it that were written, with their values
  modem     \* the region the hypervisor shares with the modem, <<>> for none

acpiVars == <<at, next, dsdt, patched, modem>>

-----------------------------------------------------------------------------
(* The lists of calls of UpdateNameAslCode, per port and in order. *)

msm8998Names ==
  <<"SOID", "SIDV", "SVMJ", "SVMI", "SDFE", "SIDM", "SOSN", "PLST",
    "RMTB", "RMTX", "RFMB", "RFMS", "RFAB", "RFAS", "SIDS">>

sdm660Names ==
  <<"SOID", "SIDV", "SVMJ", "SVMI", "SDFE", "SIDM", "SOSN", "PLST",
    "RMTB", "RMTX", "RFMB", "RFMS", "RFAB", "RFAS",
    "TPMA", "TDTV", "TCMA", "TCML", "SOSI", "SIDS">>

sdm845Names == sdm660Names

sm7125Names ==
  <<"SOID", "SIDV", "SVMJ", "SVMI", "SDFE", "SIDM", "SIDT", "SJTG", "SOSN", "PLST", "EMUL",
    "RMTB", "RMTX", "RFMB", "RFMS", "RFAB", "RFAS", "TCMA", "TCML", "SOSI", "PRP1", "SIDS">>

sm7325Names == sm7125Names

(* PLST_FIX, set by mh2lm5g only, leaves PLST out.                         *)
sm8150Names ==
  <<"SOID", "STOR", "SIDV", "SVMJ", "SVMI", "SDFE", "SIDM",
    "SUFS", "PUS3", "SUS3", "SIDT", "SOSN">>
  \o (IF phone.port = "mh2lm5g" THEN <<>> ELSE <<"PLST">>)
  \o <<"RMTB", "RMTX", "RFMB", "RFMS", "RFAB", "RFAS", "TPMA", "TDTV", "TCMA", "TCML",
       "SOSI", "PRP0", "PRP1", "PRP2", "PRP3", "SIDS">>

Names ==
  CASE phone.soc = "msm8998" -> msm8998Names
    [] phone.soc = "sdm660" -> sdm660Names
    [] phone.soc = "sdm845" -> sdm845Names
    [] phone.soc = "sm7125" -> sm7125Names
    [] phone.soc = "sm7325" -> sm7325Names
    [] phone.soc = "sm8150" -> sm8150Names
    [] OTHER -> <<>>

(* What is written: for the regions the page or the length of the row, the *)
(* pages of 0xDEADBEEF and 0xBEEFDEAD where no row is called TGCM, 0 for   *)
(* the regions of rows no map has, and 1 for what the chip says.           *)
ValueOf(name) ==
  LET efs == LocateMemoryMapAreaByName("MPSS_EFS")
      tgcm == LocateMemoryMapAreaByName("TGCM")
  IN CASE name = "RMTB" -> IF efs = 0 THEN 0 ELSE Map[efs].base
       [] name = "RMTX" -> IF efs = 0 THEN 0 ELSE Map[efs].pages
       [] name = "TCMA" -> IF tgcm = 0 THEN \hDEADB ELSE Map[tgcm].base
       [] name = "TCML" -> IF tgcm = 0 THEN \hBEEFD ELSE Map[tgcm].pages
       [] name \in {"RFMB", "RFMS", "RFAB", "RFAS"} -> 0
       [] OTHER -> 1

-----------------------------------------------------------------------------
(* PlatformSetup. *)

ProtectsFirst == phone.soc \in {"sm7125", "sm7325"}

ProtectsLater == phone.soc = "sm8150"

AcpiInitial ==
  /\ at = IF ProtectsFirst THEN "protect" ELSE IF Names = <<>> THEN "nothing" ELSE "find"
  /\ next = 0 /\ dsdt = TRUE /\ patched = [n \in {} |-> 0] /\ modem = <<>>

(* RFSLocateAndProtectSharedArea: nothing without a row; the call to the   *)
(* hypervisor may fail, and its status is not looked at.                   *)
ShareRegion ==
  LET efs == LocateMemoryMapAreaByName("MPSS_EFS")
  IN \/ efs = 0 /\ Works /\ UNCHANGED modem
     \/ efs /= 0 /\ Works /\ modem' = <<Map[efs].base, Map[efs].pages>>
     \/ efs /= 0 /\ Fails /\ UNCHANGED modem

ProtectSharedArea ==
  /\ pc = "setup" /\ at = "protect"
  /\ ShareRegion
  /\ at' = "find"
  /\ UNCHANGED <<phone, pc, next, dsdt, patched>>

FindProtocols ==
  /\ pc = "setup" /\ at = "find"
  /\ IF ProtectsLater THEN ShareRegion ELSE Works /\ UNCHANGED modem
  /\ at' = "patch"
  /\ UNCHANGED <<phone, pc, next, dsdt, patched>>

(* One of ChipInfo, SMEM, PlatformInfo is missing.                         *)
ProtocolMissing ==
  /\ pc = "setup" /\ at = "find" /\ Fails
  /\ at' = "unpatched"
  /\ UNCHANGED <<phone, pc, next, dsdt, patched, modem>>

-----------------------------------------------------------------------------
(* UpdateNameAslCode for the next name. *)

AtName == pc = "setup" /\ at = "patch" /\ next < Len(Names)

InDsdt == dsdt /\ Names[next + 1] \in phone.names

NextName == next' = next + 1 /\ UNCHANGED <<phone, pc, at, modem>>

(* No DSDT, or a DSDT without the name.                                    *)
NameNotFound ==
  /\ AtName /\ ~InDsdt /\ Works
  /\ NextName /\ UNCHANGED <<dsdt, patched>>

(* Mutant of PatchName: the old table is not uninstalled, so the new one   *)
(* is refused.                                                             *)
MutPatchName ==
  /\ AtName /\ InDsdt /\ Works
  /\ NextName /\ UNCHANGED <<dsdt, patched>>

PatchName ==
  /\ AtName /\ InDsdt /\ Works
  /\ patched' = [n \in DOMAIN patched \cup {Names[next + 1]} |->
                   IF n = Names[next + 1] THEN ValueOf(n) ELSE patched[n]]
  /\ NextName /\ UNCHANGED dsdt

(* There is no memory for the copy, or the old table cannot be uninstalled *)
(* and a second DSDT is refused: the old one stays as it is.               *)
CopyOrUninstallFails ==
  /\ AtName /\ InDsdt /\ Fails
  /\ NextName /\ UNCHANGED <<dsdt, patched>>

(* The old table is out and the new one does not get in.                   *)
InstallFails ==
  /\ AtName /\ InDsdt /\ Fails
  /\ dsdt' = FALSE
  /\ NextName /\ UNCHANGED patched

SetupDone ==
  /\ pc = "setup"
  /\ at = "patch" => next = Len(Names)
  /\ at \notin {"protect", "find"}
  /\ pc' = "os"
  /\ UNCHANGED <<phone, faults, acpiVars>>

AcpiNext ==
  \/ ProtectSharedArea \/ FindProtocols \/ ProtocolMissing
  \/ NameNotFound \/ PatchName \/ CopyOrUninstallFails \/ InstallFails
  \/ SetupDone

-----------------------------------------------------------------------------
(* Properties. *)

Asked == {Names[i] : i \in DOMAIN Names} \cap phone.names

(* The system starts with a DSDT in which every name it has was written,   *)
(* but for one per failed call; it is without one only after the install   *)
(* of a patched copy failed, and then nothing is written any more.  The    *)
(* table goes out and in again for every name.  UpdateNameAslCode.         *)
PatchedOrGone ==
  pc = "os" /\ at = "patch" =>
    /\ dsdt => Cardinality(Asked \ DOMAIN patched) <= faults
    /\ ~dsdt => faults > 0
    /\ \A n \in DOMAIN patched : patched[n] = ValueOf(n) /\ n \in Asked

=============================================================================

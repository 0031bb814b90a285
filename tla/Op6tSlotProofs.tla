--------------------------- MODULE Op6tSlotProofs ---------------------------
(***************************************************************************)
(* Theorems about Op6tSlot, for every list of handles and any number of    *)
(* power losses and failed calls.                                          *)
(***************************************************************************)
EXTENDS Op6tSlot, TLAPS

(* A table has its type whatever its flags are. *)
LEMMA TablesTyped ==
  ASSUME NEW flags \in [Slots -> Flags]
  PROVE  Consistent(flags) \in Gpt /\ Data(flags) \in Gpt
  BY DEF Consistent, Data, Gpt, Sums, EntriesSum

(* A table with its own checksums is valid. *)
LEMMA ConsistentIsValid ==
  ASSUME NEW flags
  PROVE  Valid(Consistent(flags))
  BY DEF Valid, Consistent, EntriesSum

(* The numbers a run starts with. *)
LEMMA Bounds ==
  /\ 1 \in 1 .. NumHandles + 1
  /\ 0 \in 0 .. NumHandles /\ 0 \in 0 .. MaxCrashes /\ 0 \in 0 .. MaxFaults
  BY Op6tAssumption

(* Initially every variable has its type. *)
LEMMA TypeInit == Init => TypeOK
<1> SUFFICES ASSUME Init PROVE TypeOK
  OBVIOUS
<1>1. PICK flags \in [Slots -> Flags] :
        /\ backup = [k \in Handles |-> flags]
        /\ gpt = [k \in Handles |-> IF IsPartition[k] THEN Data(flags) ELSE Consistent(flags)]
  BY DEF Init
<1>2. Consistent(flags) \in Gpt /\ Data(flags) \in Gpt
  BY TablesTyped
<1>3. gpt \in [Handles -> Gpt] /\ backup \in [Handles -> [Slots -> Flags]]
  BY <1>1, <1>2
<1>4. hasBootA \in [Handles -> BOOLEAN]
  BY Op6tAssumption DEF Init
<1> QED
  BY <1>3, <1>4, Bounds, Zenon DEF Init, TypeOK, Slots

(* While the driver works on a disk, it is the disk with boot_a. *)
OnTarget ==
  pc \in {"flags", "write"} => index \in Handles /\ Target(index) /\ disk = index

(* The step that ends the search leaves the range of the index right. *)
LEMMA NextIndex ==
  ASSUME TypeOK, index \in Handles
  PROVE  index + 1 \in 1 .. NumHandles + 1 /\ index \in 0 .. NumHandles
  BY Op6tAssumption DEF TypeOK, Handles

(* Every step keeps every variable in its type. *)
LEMMA TypeStep == TypeOK /\ OnTarget /\ [Next]_vars => TypeOK'
<1> SUFFICES ASSUME TypeOK, OnTarget, [Next]_vars PROVE TypeOK'
  OBVIOUS
<1> USE Op6tAssumption DEF TypeOK, media, budget
<1>1. CASE LoaderSetsFlags
  BY <1>1, TablesTyped DEF LoaderSetsFlags
<1>2. CASE PowerOn
  <2>1. \A k \in Handles : backup[k] \in [Slots -> Flags]
    OBVIOUS
  <2>2. \A k \in Handles : Consistent(backup[k]) \in Gpt
    BY <2>1, TablesTyped
  <2>3. gpt' \in [Handles -> Gpt]
    BY <1>2, <2>2 DEF PowerOn
  <2> QED
    BY <1>2, <2>3, Bounds, Zenon DEF PowerOn, Slots
<1>3. CASE Reboot
  BY <1>3 DEF Reboot
<1>4. CASE Crash
  BY <1>4 DEF Crash
<1>5. CASE Returns
  BY <1>5 DEF Returns, Fault
<1>6. CASE Examine
  BY <1>6, NextIndex DEF Examine, NextHandle
<1>7. CASE ExamineFails
  BY <1>7, NextIndex DEF ExamineFails, NextHandle, Fault
<1>8. CASE ReadFlags
  BY <1>8 DEF ReadFlags, Wanted, Slots
<1>9. CASE WriteFlag
  <2>1. \A g \in Gpt, s \in Slots : [g EXCEPT !.flags[s] = "active"] \in Gpt
    BY DEF Gpt, Flags
  <2> QED
    BY <1>9, <2>1 DEF WriteFlag, FlagWritten
<1>10. CASE WriteFlagFails
  BY <1>10, NextIndex DEF WriteFlagFails, NextHandle, Fault, OnTarget
<1>11. CASE LoopEnds
  BY <1>11 DEF LoopEnds
<1>12. CASE WriteEntryCrc
  <2>1. \A k \in Handles : ThreeBlockSum(k) \in Sums
    BY DEF ThreeBlockSum, Sums, Gpt
  <2>2. \A g \in Gpt, sum \in Sums : [g EXCEPT !.entryCrc = sum] \in Gpt
    BY DEF Gpt
  <2>3. gpt' \in [Handles -> Gpt]
    BY <1>12, <2>1, <2>2 DEF WriteEntryCrc
  <2> QED
    BY <1>12, <2>3 DEF WriteEntryCrc
<1>13. CASE WriteHeaderCrc
  BY <1>13 DEF WriteHeaderCrc, Gpt
<1>14. CASE FixFails
  BY <1>14 DEF FixFails, Fault
<1>15. CASE UNCHANGED vars
  BY <1>15 DEF vars
<1> QED
  BY <1>1, <1>2, <1>3, <1>4, <1>5, <1>6, <1>7, <1>8, <1>9, <1>10, <1>11, <1>12,
     <1>13, <1>14, <1>15 DEF Next, SlotMain, FixGptCRC32

(* Only Examine begins work on a disk, and only on the right one. *)
LEMMA OnTargetStep == TypeOK /\ OnTarget /\ [Next]_vars => OnTarget'
<1> SUFFICES ASSUME TypeOK, OnTarget, [Next]_vars PROVE OnTarget'
  OBVIOUS
<1> USE DEF OnTarget, Target, media, budget, NextHandle
<1>1. CASE Examine
  BY <1>1 DEF Examine
<1>2. CASE ReadFlags
  BY <1>2 DEF ReadFlags
<1>3. CASE UNCHANGED <<hasBootA, pc, index, disk>>
  BY <1>3
<1>4. CASE pc' \notin {"flags", "write"}
  BY <1>4
<1> QED
  BY <1>1, <1>2, <1>3, <1>4
  DEF Next, SlotMain, FixGptCRC32, LoaderSetsFlags, PowerOn, Reboot, Crash, Returns,
      ExamineFails, WriteFlag, WriteFlagFails, LoopEnds, WriteEntryCrc, WriteHeaderCrc,
      FixFails, vars

(* Op6tSlotDxe keeps every variable in its type: the index stays in the      *)
(* range of the handles although a failed write of the flag moves on.        *)
THEOREM Op6tTypeCorrect == Spec => []TypeOK
<1>1. Init => TypeOK /\ OnTarget
  BY TypeInit DEF Init, OnTarget
<1>2. (TypeOK /\ OnTarget) /\ [Next]_vars => (TypeOK /\ OnTarget)'
  BY TypeStep, OnTargetStep
<1> QED
  BY <1>1, <1>2, PTL DEF Spec

-----------------------------------------------------------------------------
(***************************************************************************)
(* The search passes no disk with boot_a unless a call fails; the          *)
(* checksums are written on such a disk, or on the last handle looked at   *)
(* when the search came to its end.                                        *)
(***************************************************************************)
Passed ==
  /\ (pc \in {"next", "flags", "write"} /\ ~failed) =>
       \A t \in Handles : Target(t) => index <= t
  /\ pc \in {"entries", "header"} =>
       /\ disk \in Handles
       /\ Target(disk) \/ (/\ index \notin Handles
                           /\ failed \/ \A t \in Handles : ~Target(t))

SearchInv == TypeOK /\ OnTarget /\ Passed

(* Every step keeps what is known of the search. *)
LEMMA PassedStep == SearchInv /\ [Next]_vars => Passed'
<1> SUFFICES ASSUME SearchInv, [Next]_vars PROVE Passed'
  OBVIOUS
<1> USE Op6tAssumption DEF SearchInv, TypeOK, Target, media, budget
<1>1. CASE PowerOn
  BY <1>1 DEF PowerOn, Passed, Handles
<1>2. CASE LoaderSetsFlags \/ Reboot \/ Crash
  BY <1>2 DEF LoaderSetsFlags, Reboot, Crash, Passed
<1>3. CASE Returns \/ ExamineFails \/ WriteFlagFails \/ FixFails
  BY <1>3 DEF Returns, ExamineFails, WriteFlagFails, FixFails, Fault, NextHandle, Passed
<1>4. CASE Examine
  BY <1>4 DEF Examine, NextHandle, Handles, Passed
<1>5. CASE ReadFlags
  BY <1>5 DEF ReadFlags, Passed
<1>6. CASE WriteFlag
  BY <1>6 DEF WriteFlag, OnTarget, Passed
<1>7. CASE LoopEnds
  BY <1>7 DEF LoopEnds, Handles, Passed
<1>8. CASE WriteEntryCrc
  BY <1>8 DEF WriteEntryCrc, Passed
<1>9. CASE WriteHeaderCrc
  BY <1>9 DEF WriteHeaderCrc, Passed
<1>10. CASE UNCHANGED vars
  BY <1>10 DEF vars, Passed
<1> QED
  BY <1>1, <1>2, <1>3, <1>4, <1>5, <1>6, <1>7, <1>8, <1>9, <1>10
  DEF Next, SlotMain, FixGptCRC32

(* SearchInv is an invariant of Op6tSlotDxe. *)
LEMMA SearchInvariance == Spec => []SearchInv
<1>1. Init => SearchInv
  BY TypeInit DEF Init, SearchInv, OnTarget, Passed
<1>2. SearchInv /\ [Next]_vars => SearchInv'
  BY TypeStep, OnTargetStep, PassedStep DEF SearchInv
<1> QED
  BY <1>1, <1>2, PTL DEF Spec

(* On any phone, with such a disk or without, Op6tSlotDxe writes a flag on a *)
(* disk with boot_a only; another handle gets new checksums only when it is  *)
(* the last one looked at, after a failed call or where no disk has boot_a.  *)
THEOREM WritesOnlyTarget == Spec => OnlyTargetWritten
<1> DEFINE Writes == \A k \in Handles :
             (pc # "off" /\ ~Target(k) /\ gpt'[k] # gpt[k]) =>
               /\ gpt'[k].flags = gpt[k].flags
               /\ k = disk /\ index \notin Handles
               /\ failed \/ \A h \in Handles : ~Target(h)
<1>1. SearchInv /\ [Next]_vars => Writes
  <2> SUFFICES ASSUME SearchInv, [Next]_vars, NEW k \in Handles,
                      pc # "off", ~Target(k), gpt'[k] # gpt[k]
               PROVE  /\ gpt'[k].flags = gpt[k].flags
                      /\ k = disk /\ index \notin Handles
                      /\ failed \/ \A h \in Handles : ~Target(h)
    OBVIOUS
  <2> USE DEF SearchInv, TypeOK, media
  <2>1. CASE WriteFlag
    BY <2>1 DEF WriteFlag, FlagWritten, OnTarget
  <2>2. CASE WriteEntryCrc
    BY <2>2 DEF WriteEntryCrc, Passed, Gpt
  <2>3. CASE WriteHeaderCrc
    BY <2>3 DEF WriteHeaderCrc, Passed, Gpt
  <2>4. CASE pc = "off" \/ gpt' = gpt
    BY <2>4
  <2> QED
    BY <2>1, <2>2, <2>3, <2>4
    DEF Next, SlotMain, FixGptCRC32, LoaderSetsFlags, PowerOn, Reboot, Crash, Returns,
        Examine, ExamineFails, ReadFlags, WriteFlagFails, LoopEnds, FixFails, vars
<1>2. SearchInv /\ [Next]_vars => [Writes]_vars
  BY <1>1
<1> QED
  BY <1>2, SearchInvariance, PTL DEF Spec, OnlyTargetWritten

-----------------------------------------------------------------------------
(***************************************************************************)
(* What a boot without a failed call keeps on a phone that has the disk:   *)
(* its table is valid while the search lasts, the checksums are computed   *)
(* on it, and what they will cover has an active slot.                     *)
(***************************************************************************)
HasActive(k) == \E s \in Slots : gpt[k].flags[s] = "active"

Fixing(t) ==
  /\ pc \in {"next", "flags", "write"} => Valid(gpt[t])
  /\ pc \in {"entries", "header"} => disk = t /\ HasActive(t)
  /\ pc = "header" => gpt[t].entryCrc = EntriesSum(gpt[t].flags)
  /\ pc = "idle" => Valid(gpt[t]) /\ HasActive(t)

Undisturbed == ~failed => \A t \in Handles : Target(t) => Fixing(t)

(* The driver is on the phones it is made for: boot_a is on one disk at      *)
(* most, and the entries of that disk fill the three blocks it sums.         *)
RightPhones ==
  \A b \in Names : \A t \in Handles :
    (b[t] /\ ~IsPartition[t]) =>
      ThreeBlocks[t] /\ \A k \in Handles : (b[k] /\ ~IsPartition[k]) => k = t

Inv == SearchInv /\ hasBootA \in Names /\ Undisturbed

(* A phone does not change. *)
LEMMA SamePhone == [Next]_vars => hasBootA' = hasBootA
  BY DEF Next, SlotMain, FixGptCRC32, LoaderSetsFlags, PowerOn, Reboot, Crash, Returns,
         Examine, ExamineFails, ReadFlags, WriteFlag, WriteFlagFails, LoopEnds,
         WriteEntryCrc, WriteHeaderCrc, FixFails, vars, media

(* A step without a failed call keeps what such a boot has established. *)
LEMMA UndisturbedStep == RightPhones /\ Inv /\ [Next]_vars => Undisturbed'
<1> SUFFICES ASSUME RightPhones, Inv, [Next]_vars, ~failed',
                    NEW t \in Handles, Target(t)'
             PROVE  Fixing(t)'
  BY DEF Undisturbed
<1>1. Target(t) /\ ThreeBlocks[t] /\ \A k \in Handles : Target(k) => k = t
  BY SamePhone DEF RightPhones, Inv, Target
<1> USE Op6tAssumption DEF Inv, SearchInv, TypeOK, media, budget
<1>2. CASE PowerOn
  <2>1. Valid(gpt'[t])
    BY <1>1, <1>2, ConsistentIsValid DEF PowerOn, Target
  <2> QED
    BY <1>2, <2>1 DEF PowerOn, Fixing, Valid
<1>3. CASE LoaderSetsFlags \/ Reboot \/ Crash
  BY <1>3 DEF LoaderSetsFlags, Reboot, Crash, Fixing
<1>4. CASE Returns \/ ExamineFails \/ WriteFlagFails \/ FixFails
  BY <1>4 DEF Returns, ExamineFails, WriteFlagFails, FixFails, Fault
<1>5. CASE Examine
  BY <1>1, <1>5 DEF Examine, NextHandle, Undisturbed, Fixing, Valid
<1>6. CASE ReadFlags
  BY <1>1, <1>6 DEF ReadFlags, AlreadyActive, OnTarget, Undisturbed, Fixing, HasActive,
                    Valid, Slots
<1>7. CASE WriteFlag
  BY <1>1, <1>7 DEF WriteFlag, FlagWritten, OnTarget, Fixing, HasActive, Gpt
<1>8. CASE LoopEnds
  BY <1>1, <1>8 DEF LoopEnds, Handles, Passed
<1>9. CASE WriteEntryCrc
  <2>1. disk = t /\ HasActive(t) /\ pc = "entries"
    BY <1>1, <1>9 DEF WriteEntryCrc, Undisturbed, Fixing
  <2>2. gpt'[t].flags = gpt[t].flags /\ gpt'[t].entryCrc = EntriesSum(gpt[t].flags)
    BY <1>1, <1>9, <2>1 DEF WriteEntryCrc, ThreeBlockSum, EntriesSum, Gpt
  <2> QED
    BY <1>9, <2>1, <2>2 DEF WriteEntryCrc, EntriesSum, Fixing, HasActive
<1>10. CASE WriteHeaderCrc
  BY <1>1, <1>10 DEF WriteHeaderCrc, Undisturbed, Fixing, HasActive, Valid, Gpt
<1>11. CASE UNCHANGED vars
  BY <1>1, <1>11 DEF vars, Undisturbed, Fixing, HasActive, Valid
<1> QED
  BY <1>2, <1>3, <1>4, <1>5, <1>6, <1>7, <1>8, <1>9, <1>10, <1>11
  DEF Next, SlotMain, FixGptCRC32

(* On the phones it is made for a boot of Op6tSlotDxe in which no call fails *)
(* ends with an active slot under right checksums, whatever happened to the  *)
(* boots before it.                                                          *)
THEOREM BootActivates ==
  ASSUME RightPhones
  PROVE  Spec => []ActiveAfterBoot
<1>1. Init => Inv
  BY TypeInit DEF Init, Inv, SearchInv, OnTarget, Passed, Undisturbed, Fixing
<1>2. Inv /\ [Next]_vars => Inv'
  <2>1. Inv /\ [Next]_vars => SearchInv'
    BY TypeStep, OnTargetStep, PassedStep DEF Inv, SearchInv
  <2> QED
    BY <2>1, SamePhone, UndisturbedStep DEF Inv
<1>3. Inv => ActiveAfterBoot
  BY DEF Inv, Undisturbed, Fixing, HasActive, ActiveAfterBoot
<1> QED
  BY <1>1, <1>2, <1>3, PTL DEF Spec

=============================================================================

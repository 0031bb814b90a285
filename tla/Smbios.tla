------------------------------- MODULE Smbios -------------------------------
(***************************************************************************)
(* The second stage: PlatformSmbiosDxe adds its records, and between them  *)
(* the port's RegisterSOCSmbiosInfo adds those of the processors, caches   *)
(* and memory.  Records refer to each other by the handles the SMBIOS      *)
(* protocol returned; a refused record leaves the variable a handle is     *)
(* read from as it was.                                                    *)
(***************************************************************************)
EXTENDS Phone, SmbiosTables, FiniteSetsExt

CONSTANT StrayHandles  \* what a handle variable nobody wrote may hold

(* The library is linked into the driver by the .dsc of the SoC.           *)
ASSUME SocAssumption == \A p \in Phones : p.soc \in Socs

VARIABLES
  step,     \* steps of the script done
  handle,   \* SmbiosHandle of the driver and of RegisterSOCSmbiosInfo
  field,    \* the handles written into the templates so far
  table,    \* the records added, in order: [name, refs]
  refused   \* the names of the records that could not be added

smbiosVars == <<step, handle, field, table, refused>>

-----------------------------------------------------------------------------
(* The records of the driver, and the order in which it adds all of them.  *)

(* A template of the driver: it numbers the strings 1 to strings of a pack. *)
Fixed(name, strings, pack) ==
  <<[strings |-> 1 .. strings, pack |-> pack] @@ Template(name)>>

mBIOSInfoType0 == Fixed(<<"type", "0">>, 3, 3)
mSysInfoType1 == Fixed(<<"type", "1">>, 6, 6)
mBoardInfoType2 == Fixed(<<"type", "2">>, 6, 6)
mEnclosureInfoType3 == Fixed(<<"type", "3">>, 4, 4)

(* mSysSlotInfoType9_0 to _3: each numbers one string of the shared pack.  *)
mSysSlotInfoType9 ==
  [i \in 1 .. 4 |-> [strings |-> {i}, pack |-> 4] @@ Template(<<"slot", ToString(i)>>)]

mOemStringsType11 == Fixed(<<"type", "11">>, 1, 1)
mPhyMemArrayInfoType16 == Fixed(<<"type", "16">>, 0, 0)
mMemArrMapInfoType19 == Fixed(<<"type", "19">>, 0, 0)
mBootInfoType32 == Fixed(<<"type", "32">>, 0, 0)

Records(soc) ==
  mBIOSInfoType0 \o mSysInfoType1 \o mBoardInfoType2 \o mEnclosureInfoType3
  \o mSysSlotInfoType9 \o mOemStringsType11 \o mPhyMemArrayInfoType16
  \o mMemArrMapInfoType19 \o mBootInfoType32 \o SocRecords(soc)

RecordOf(soc, name) ==
  LET records == Records(soc)
  IN  records[CHOOSE i \in DOMAIN records : records[i].name = name]

By(frame, steps) ==
  [i \in DOMAIN steps |->
     [frame |-> frame, record |-> steps[i].record, keep |-> steps[i].keep, sets |-> steps[i].sets]]

(* The entry point up to RegisterSOCSmbiosInfo.  The handle of the memory  *)
(* array goes to the template of the mapped addresses and, as the argument *)
(* Type16, to that of the memory device.                                   *)
DriverHead ==
  <<Log(<<"type", "0">>), Log(<<"type", "1">>),
    LogTo(<<"type", "3">>, {<<<<"type", "2">>, "ChassisHandle">>}),
    Log(<<"type", "2">>)>>
  \o [i \in 1 .. 4 |-> Log(<<"slot", ToString(i)>>)]
  \o <<Log(<<"type", "11">>),
       LogTo(<<"type", "16">>, {<<<<"type", "19">>, "MemoryArrayHandle">>,
                                <<<<"memory", "device">>, "MemoryArrayHandle">>})>>

(* The rest: one mapped range per memory node of the device tree.          *)
ScriptOf(p) ==
  By("driver", DriverHead) \o By("soc", RegisterSOCSmbiosInfo(p.soc))
  \o By("driver", [i \in DOMAIN p.nodes |-> Log(<<"type", "19">>)] \o <<Log(<<"type", "32">>)>>)

Script == ScriptOf(phone)

Unset == 65535

-----------------------------------------------------------------------------
(* LogSmbiosData, and the copies of SmbiosHandle that follow it. *)

Current == Script[step + 1]

AtRecord == pc = "smbios" /\ step < Len(Script)

(* The handle fields are 0 until written.                                  *)
RefsOf(name) ==
  [f \in {"ChassisHandle", "MemoryArrayHandle", "L1CacheHandle", "L2CacheHandle"} |->
     IF <<name, f>> \in DOMAIN field THEN field[<<name, f>>] ELSE 0]

(* Mutant of CopyHandle: the variable is copied before the call fills it.  *)
MutCopyHandle(now, h) ==
  field' = [f \in now.sets \cup DOMAIN field |->
              IF f \in now.sets THEN handle[now.frame] ELSE field[f]]

CopyHandle(now, h) ==
  field' = [f \in now.sets \cup DOMAIN field |-> IF f \in now.sets THEN h ELSE field[f]]

AddRecord ==
  /\ AtRecord /\ Works
  /\ LET now == Current
     IN  /\ table' = Append(table, [name |-> now.record, refs |-> RefsOf(now.record)])
         /\ handle' = IF now.keep THEN [handle EXCEPT ![now.frame] = Len(table)] ELSE handle
         /\ CopyHandle(now, Len(table))
  /\ step' = step + 1
  /\ UNCHANGED <<phone, pc, refused>>

(* No protocol, no pool, or an error of Add: the caller does not look at   *)
(* the status and copies what its variable holds.                          *)
RefuseRecord ==
  /\ AtRecord /\ Fails
  /\ LET now == Current
         held == handle[now.frame]
     IN  /\ refused' = refused \cup {now.record}
         /\ \E h \in IF held = Unset THEN StrayHandles ELSE {held} : CopyHandle(now, h)
  /\ step' = step + 1
  /\ UNCHANGED <<phone, pc, handle, table>>

SmbiosDone ==
  /\ pc = "smbios" /\ step = Len(Script)
  /\ pc' = "setup"
  /\ UNCHANGED <<phone, faults, smbiosVars>>

SmbiosInitial ==
  /\ step = 0 /\ handle = [frame \in {"driver", "soc"} |-> Unset]
  /\ field = [f \in {} |-> 0]
  /\ table = <<>> /\ refused = {}

SmbiosNext == AddRecord \/ RefuseRecord \/ SmbiosDone

-----------------------------------------------------------------------------
(* Properties. *)

LoggedBy(script) == {script[i].record : i \in DOMAIN script}

Logged == LoggedBy(Script)

(* The handle leads to the record meant, unless that record was refused or *)
(* the port has none of the kind.                                          *)
LeadsTo(h, name, logged) ==
  \/ name \in refused \/ name \notin logged
  \/ h < Len(table) /\ table[h + 1].name = name

(* The L2 cache a processor is to name: the shared one where there is one. *)
L2Of(record, logged) ==
  <<"L2", IF <<"L2", "all">> \in logged THEN "all" ELSE record.cluster>>

(* The handle fields of a record, each with the record it is named for.    *)
Needs(record, logged) ==
  (IF record.name = <<"type", "2">> THEN {<<"ChassisHandle", <<"type", "3">>>>} ELSE {})
  \cup (IF record.name \in {<<"type", "19">>, <<"memory", "device">>}
        THEN {<<"MemoryArrayHandle", <<"type", "16">>>>} ELSE {})
  \cup (IF record.cores > 0
        THEN {<<"L1CacheHandle", <<"L1D", record.cluster>>>>,
              <<"L2CacheHandle", L2Of(record, logged)>>}
        ELSE {})

HandlesSound(record, refs, logged) ==
  \A need \in Needs(record, logged) : LeadsTo(refs[need[1]], need[2], logged)

StringsSound(record) == record.strings \subseteq 1 .. record.pack

(* Eight cores in all, each of them once.                                  *)
EightCores(added) == MapThenSumSet(LAMBDA i : added[i].cores, DOMAIN added) = 8

(* The SMBIOS table tells one story: every handle written into a record    *)
(* leads to the record it is named for (the chassis of the board, the      *)
(* array of a memory device, the caches of the cluster of a processor)     *)
(* although it was taken from a variable that calls in between reuse or    *)
(* leave alone; every string number has a string; and the processors of    *)
(* every port add up to its eight cores.  LogSmbiosData,                   *)
(* PlatformSmbiosDriverEntryPoint, RegisterSOCSmbiosInfo.                  *)
RecordsSound ==
  pc = "smbios" /\ step = Len(Script) =>
    LET logged == Logged
        added == [i \in DOMAIN table |-> RecordOf(phone.soc, table[i].name)]
    IN  /\ \A i \in DOMAIN table :
             HandlesSound(added[i], table[i].refs, logged) /\ StringsSound(added[i])
        /\ refused = {} => EightCores(added)

(* What the scripts must be for that, whatever is refused: the record a    *)
(* field is named for is added before the record with the field, its       *)
(* handle is copied there, and no other's is; and the strings and cores    *)
(* come out.                                                               *)
ScriptSound(soc, script) ==
  LET logged == LoggedBy(script)
      records == [i \in DOMAIN script |-> RecordOf(soc, script[i].record)]
  IN  /\ \A k \in DOMAIN script : StringsSound(records[k])
      /\ \A k \in DOMAIN script : \A need \in Needs(records[k], logged) :
           need[2] \in logged =>
             \E j \in 1 .. k - 1 : /\ script[j].record = need[2]
                                  /\ <<script[k].record, need[1]>> \in script[j].sets
      /\ \A i, j \in DOMAIN script :
           script[i].sets \cap script[j].sets /= {} => script[i].record = script[j].record
      /\ EightCores(records)

ScriptsSound == \A p \in Phones : ScriptSound(p.soc, ScriptOf(p))

=============================================================================

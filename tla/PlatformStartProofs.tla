------------------------- MODULE PlatformStartProofs -------------------------
(***************************************************************************)
(* The start of the platform, for every set of phones, list of patched     *)
(* names in the DSDT, number of failed calls and stray handle.             *)
(*                                                                         *)
(* PatchedOrGone speaks of the end of PlatformSetup only.  PatchInv is the *)
(* count it keeps on the way: of the names dealt with, no more are         *)
(* unwritten than calls have failed while a DSDT is there, and it can only *)
(* be gone for a failed call.  The type of the state needs that count (for *)
(* the names), and Types: what was taken of the map are rows already       *)
(* passed, every step of the script of the SMBIOS records has one of the   *)
(* two handle variables, and a handle is stray or the number of a record.  *)
(* Shared is what the region of the modem is compared with.                *)
(*                                                                         *)
(* Of the maps nothing is known but what TablesSound and TablesKeepModem   *)
(* say of their rows; the two are true of all the ports, which TLC         *)
(* evaluates (PortTables in MCPlatformStart).  RowsTaken, that the rows    *)
(* taken are those of the map so far for the class of the device tree,     *)
(* carries them over to what the code makes of the maps: MemorySound and   *)
(* ModemReserved.  ScriptsSound is that condition for the scripts of the   *)
(* SMBIOS records; RecordInv says of the steps done where the records are  *)
(* in the table and which handles the fields have, for                     *)
(* RecordsTellOneStory.                                                    *)
(***************************************************************************)
EXTENDS PlatformStart, FiniteSetTheorems, TLAPS

(* The names of the DSDT dealt with that were not written.                 *)
Unwritten == ({Names[i] : i \in 1 .. next} \cap phone.names) \ DOMAIN patched

Counting ==
  /\ faults \in Nat /\ next \in Nat /\ next <= Len(Names)
  /\ dsdt \in BOOLEAN /\ IsFiniteSet(Unwritten)
  /\ patched = [n \in DOMAIN patched |-> patched[n]]

Written == \A n \in DOMAIN patched : patched[n] = ValueOf(n) /\ n \in Asked

Paid ==
  /\ dsdt => Cardinality(Unwritten) <= faults
  /\ ~dsdt => faults > 0

AllDealtWith == pc = "os" /\ at = "patch" => next = Len(Names)

PatchInv == Counting /\ Written /\ Paid /\ AllDealtWith

-----------------------------------------------------------------------------
(* The names of all the lists. *)
NameSet ==
  {"SOID", "STOR", "SIDV", "SVMJ", "SVMI", "SDFE", "SIDM", "SUFS", "PUS3", "SUS3", "SIDT",
   "SJTG", "SOSN", "PLST", "EMUL", "RMTB", "RMTX", "RFMB", "RFMS", "RFAB", "RFAS", "TPMA",
   "TDTV", "TCMA", "TCML", "SOSI", "PRP0", "PRP1", "PRP2", "PRP3", "SIDS"}

(* The list of names is a sequence, on every SoC. *)
LEMMA NamesSeq == Names \in Seq(NameSet)
<1>1. ASSUME NEW s \in Seq(NameSet), NEW t \in Seq(NameSet)
      PROVE  s \o t \in Seq(NameSet)
  OBVIOUS
<1>2. sm8150Names \in Seq(NameSet)
  <2> DEFINE head == <<"SOID", "STOR", "SIDV", "SVMJ", "SVMI", "SDFE", "SIDM",
                       "SUFS", "PUS3", "SUS3", "SIDT", "SOSN">>
             plst == IF phone.port = "mh2lm5g" THEN <<>> ELSE <<"PLST">>
             tail == <<"RMTB", "RMTX", "RFMB", "RFMS", "RFAB", "RFAS", "TPMA", "TDTV", "TCMA",
                       "TCML", "SOSI", "PRP0", "PRP1", "PRP2", "PRP3", "SIDS">>
  <2>1. head \in Seq(NameSet)
    BY DEF NameSet
  <2>2. plst \in Seq(NameSet)
    <3>1. <<"PLST">> \in Seq(NameSet) /\ <<>> \in Seq(NameSet)
      BY DEF NameSet
    <3> QED
      BY <3>1
  <2>3. tail \in Seq(NameSet)
    BY DEF NameSet
  <2>4. sm8150Names = (head \o plst) \o tail
    BY DEF sm8150Names
  <2> HIDE DEF head, plst, tail
  <2>5. head \o plst \in Seq(NameSet)
    BY <1>1, <2>1, <2>2
  <2> QED
    BY <1>1, <2>5, <2>3, <2>4
<1>3. msm8998Names \in Seq(NameSet)
  BY DEF NameSet, msm8998Names
<1>4. sdm660Names \in Seq(NameSet)
  BY DEF NameSet, sdm660Names
<1>5. sm7125Names \in Seq(NameSet)
  BY DEF NameSet, sm7125Names
<1>6. <<>> \in Seq(NameSet)
  OBVIOUS
<1> QED
  BY <1>2, <1>3, <1>4, <1>5, <1>6 DEF Names, sdm845Names, sm7325Names

LEMMA NamesLength == Len(Names) \in Nat /\ DOMAIN Names = 1 .. Len(Names)
<1> DEFINE list == Names
<1>1. list \in Seq(NameSet)
  BY NamesSeq
<1> HIDE DEF list
<1>2. Len(list) \in Nat /\ DOMAIN list = 1 .. Len(list)
  BY <1>1
<1> QED
  BY <1>2 DEF list

(* What depends on the phone only.                                         *)
LEMMA SamePhone ==
  ASSUME phone' = phone
  PROVE  Names' = Names /\ Asked' = Asked /\ \A n : ValueOf(n)' = ValueOf(n)
<1>1. Names' = Names
  BY DEF Names, msm8998Names, sdm660Names, sdm845Names, sm7125Names, sm7325Names, sm8150Names
<1>2. Asked' = Asked
  BY <1>1 DEF Asked
<1>3. \A n : ValueOf(n)' = ValueOf(n)
  BY DEF ValueOf, LocateMemoryMapAreaByName, Map
<1> QED
  BY <1>1, <1>2, <1>3

(* Nothing is dealt with yet.                                              *)
LEMMA InitPatch ==
  ASSUME Init
  PROVE  PatchInv
<1> USE DEF Init, PhoneInit, AcpiInitial
<1>1. Unwritten = {}
  BY DEF Unwritten
<1>2. IsFiniteSet(Unwritten) /\ Cardinality(Unwritten) = 0
  BY <1>1, FS_EmptySet
<1>3. Counting
  BY <1>2, NamesLength DEF Counting
<1> QED
  BY <1>2, <1>3 DEF PatchInv, Written, Paid, AllDealtWith

(* The next name is the only one that can join the unwritten ones, and it  *)
(* does not when it is none of the DSDT or is written.                     *)
LEMMA OneMore ==
  ASSUME Counting, phone' = phone, next' = next + 1, DOMAIN patched \subseteq DOMAIN patched'
  PROVE  /\ IsFiniteSet(Unwritten') /\ Cardinality(Unwritten') <= Cardinality(Unwritten) + 1
         /\ Names[next + 1] \notin phone.names \/ Names[next + 1] \in DOMAIN patched' =>
              Cardinality(Unwritten') <= Cardinality(Unwritten)
<1> DEFINE name == Names[next + 1]
           older == Unwritten
           newer == Unwritten'
<1>1. newer \subseteq older \cup {name}
  <2>1. Names' = Names
    BY SamePhone
  <2>2. 1 .. next' = 1 .. next \cup {next + 1}
    BY DEF Counting
  <2> QED
    BY <2>1, <2>2 DEF Unwritten
<1>2. name \notin phone.names \/ name \in DOMAIN patched' => newer \subseteq older
  <2>1. name \notin phone.names \/ name \in DOMAIN patched' => name \notin newer
    BY DEF Unwritten
  <2> QED
    BY <1>1, <2>1
<1>3. IsFiniteSet(older)
  BY DEF Counting
<1> HIDE DEF name, older, newer
<1>4. Cardinality(older) \in Nat
  BY <1>3, FS_CardinalityType
<1>5. /\ IsFiniteSet(older \cup {name})
      /\ Cardinality(older \cup {name}) <= Cardinality(older) + 1
      /\ Cardinality(older \cup {name}) \in Nat
  BY <1>3, <1>4, FS_AddElement, FS_CardinalityType
<1>6. IsFiniteSet(newer) /\ Cardinality(newer) <= Cardinality(older \cup {name})
  BY <1>1, <1>5, FS_Subset
<1>7. Cardinality(newer) \in Nat
  BY <1>6, FS_CardinalityType
<1>8. newer \subseteq older => Cardinality(newer) <= Cardinality(older)
  BY <1>3, FS_Subset
<1>9. Cardinality(newer) <= Cardinality(older) + 1
  BY <1>4, <1>5, <1>6, <1>7
<1> QED
  BY <1>2, <1>6, <1>8, <1>9 DEF name, older, newer

(* A step that leaves the names and the DSDT alone.                        *)
LEMMA OtherStep ==
  ASSUME PatchInv, phone' = phone, UNCHANGED <<next, dsdt, patched>>,
         faults' \in Nat, faults' >= faults, AllDealtWith'
  PROVE  PatchInv'
<1>1. Names' = Names /\ Asked' = Asked /\ \A n : ValueOf(n)' = ValueOf(n)
  BY SamePhone
<1>2. Unwritten' = Unwritten
  BY <1>1 DEF Unwritten
<1>3. Cardinality(Unwritten) \in Nat
  BY FS_CardinalityType DEF PatchInv, Counting
<1>4. Counting'
  BY <1>1, <1>2 DEF PatchInv, Counting
<1>5. Written'
  BY <1>1 DEF PatchInv, Written
<1>6. Paid'
  BY <1>2, <1>3 DEF PatchInv, Paid, Counting
<1> QED
  BY <1>4, <1>5, <1>6 DEF PatchInv

(* The two first stages do not touch the tables, and their faults count.   *)
LEMMA EarlierStages ==
  ASSUME PatchInv, \/ MemoryNext /\ UNCHANGED <<smbiosVars, acpiVars>>
                   \/ SmbiosNext /\ UNCHANGED <<memoryVars, acpiVars>>
  PROVE  PatchInv'
<1>1. phone' = phone /\ UNCHANGED <<next, dsdt, patched, at>>
  BY DEF MemoryNext, ReadNode, SelectClass, SkipRow, TakeRow, EndOfMap, InstallPlatformHob,
         SmbiosNext, AddRecord, RefuseRecord, SmbiosDone, acpiVars
<1>2. faults' = faults \/ faults' = faults + 1
  BY DEF MemoryNext, ReadNode, SelectClass, SkipRow, TakeRow, EndOfMap, InstallPlatformHob,
         SmbiosNext, AddRecord, RefuseRecord, SmbiosDone, Works, Fails
<1>3. pc' = pc \/ pc' # "os"
  BY DEF MemoryNext, ReadNode, SelectClass, SkipRow, TakeRow, EndOfMap, InstallPlatformHob,
         SmbiosNext, AddRecord, RefuseRecord, SmbiosDone
<1>4. AllDealtWith'
  BY <1>1, <1>3, SamePhone DEF PatchInv, AllDealtWith
<1>5. faults' \in Nat /\ faults' >= faults
  BY <1>2 DEF PatchInv, Counting
<1> QED
  BY <1>1, <1>4, <1>5, OtherStep

(* PlatformSetup. *)
LEMMA Setup ==
  ASSUME PatchInv, AcpiNext
  PROVE  PatchInv'
<1> USE DEF AtName, NextName, Works, Fails
<1>0. /\ faults \in Nat /\ faults + 1 > faults /\ faults + 1 \in Nat /\ faults >= faults
      /\ next \in Nat /\ Cardinality(Unwritten) \in Nat
  BY FS_CardinalityType DEF PatchInv, Counting
<1>1. CASE ProtectSharedArea \/ FindProtocols \/ ProtocolMissing
  <2>1. phone' = phone /\ UNCHANGED <<next, dsdt, patched>>
    BY <1>1 DEF ProtectSharedArea, FindProtocols, ProtocolMissing
  <2>2. faults' = faults \/ faults' = faults + 1
    BY <1>1 DEF ProtectSharedArea, FindProtocols, ProtocolMissing, ShareRegion
  <2>3. pc' # "os"
    BY <1>1 DEF ProtectSharedArea, FindProtocols, ProtocolMissing
  <2> QED
    BY <1>0, <2>1, <2>2, <2>3, OtherStep DEF AllDealtWith
<1>2. CASE SetupDone
  <2>1. phone' = phone /\ UNCHANGED <<next, dsdt, patched, faults, at>>
    BY <1>2 DEF SetupDone, acpiVars
  <2>2. AllDealtWith'
    BY <1>2, <2>1, SamePhone DEF SetupDone, AllDealtWith
  <2> QED
    BY <1>0, <2>1, <2>2, OtherStep
<1>3. CASE NameNotFound \/ PatchName \/ CopyOrUninstallFails \/ InstallFails
  <2> DEFINE name == Names[next + 1]
  <2>1. /\ phone' = phone /\ next' = next + 1 /\ pc' = "setup" /\ next < Len(Names)
        /\ DOMAIN patched \subseteq DOMAIN patched'
    BY <1>3 DEF NameNotFound, PatchName, CopyOrUninstallFails, InstallFails
  <2>2. /\ Names' = Names /\ Asked' = Asked /\ \A n : ValueOf(n)' = ValueOf(n)
        /\ Len(Names) \in Nat /\ name \in {Names[i] : i \in DOMAIN Names}
    BY <1>0, <2>1, SamePhone, NamesLength
  <2>3. Len(Names)' = Len(Names)
    BY <2>2
  <2>4. AllDealtWith'
    BY <2>1 DEF AllDealtWith
  <2>5. /\ IsFiniteSet(Unwritten') /\ Cardinality(Unwritten') <= Cardinality(Unwritten) + 1
        /\ Cardinality(Unwritten') \in Nat
        /\ name \notin phone.names \/ name \in DOMAIN patched' =>
             Cardinality(Unwritten') <= Cardinality(Unwritten)
    BY <2>1, OneMore, FS_CardinalityType DEF PatchInv
  <2>6. next' \in Nat /\ next' <= Len(Names)'
    BY <1>0, <2>1, <2>2, <2>3
  <2> HIDE DEF name
  <2>7. CASE NameNotFound
    <3>1. UNCHANGED <<dsdt, patched, faults>> /\ (dsdt => name \notin phone.names)
      BY <2>7 DEF NameNotFound, InDsdt, name
    <3>2. Counting'
      BY <2>5, <2>6, <3>1 DEF PatchInv, Counting
    <3>3. Written'
      BY <2>2, <3>1 DEF PatchInv, Written
    <3>4. Paid'
      BY <1>0, <2>5, <3>1 DEF PatchInv, Paid
    <3> QED
      BY <2>4, <3>2, <3>3, <3>4 DEF PatchInv
  <2>8. CASE PatchName
    <3>1. /\ UNCHANGED <<dsdt, faults>> /\ name \in phone.names
          /\ patched' = [n \in DOMAIN patched \cup {name} |->
                           IF n = name THEN ValueOf(n) ELSE patched[n]]
      BY <2>8 DEF PatchName, InDsdt, name
    <3>2. /\ patched' = [n \in DOMAIN patched' |-> patched'[n]]
          /\ DOMAIN patched' = {name} \cup DOMAIN patched
          /\ \A n \in DOMAIN patched' : patched'[n] = IF n = name THEN ValueOf(name) ELSE patched[n]
      BY <3>1
    <3>3. Counting'
      BY <2>5, <2>6, <3>1, <3>2 DEF PatchInv, Counting
    <3>4. name \in Asked
      BY <2>2, <3>1 DEF Asked
    <3>5. Written'
      BY <2>2, <3>2, <3>4 DEF PatchInv, Written
    <3>6. Paid'
      BY <1>0, <2>5, <3>1, <3>2 DEF PatchInv, Paid
    <3> QED
      BY <2>4, <3>3, <3>5, <3>6 DEF PatchInv
  <2>9. CASE CopyOrUninstallFails
    <3>1. UNCHANGED <<dsdt, patched>> /\ faults' = faults + 1 /\ dsdt
      BY <2>9 DEF CopyOrUninstallFails, InDsdt
    <3>2. Counting'
      BY <1>0, <2>5, <2>6, <3>1 DEF PatchInv, Counting
    <3>3. Written'
      BY <2>2, <3>1 DEF PatchInv, Written
    <3>4. Paid'
      BY <1>0, <2>5, <3>1 DEF PatchInv, Paid
    <3> QED
      BY <2>4, <3>2, <3>3, <3>4 DEF PatchInv
  <2>10. CASE InstallFails
    <3>1. dsdt' = FALSE /\ patched' = patched /\ faults' = faults + 1
      BY <2>10 DEF InstallFails
    <3>2. dsdt' \in BOOLEAN
      BY <3>1
    <3>3. Counting'
      BY <1>0, <2>5, <2>6, <3>1, <3>2 DEF PatchInv, Counting
    <3>4. Written'
      BY <2>2, <3>1 DEF PatchInv, Written
    <3>5. Paid'
      BY <1>0, <3>1 DEF PatchInv, Paid
    <3> QED
      BY <2>4, <3>3, <3>4, <3>5 DEF PatchInv
  <2> QED
    BY <1>3, <2>7, <2>8, <2>9, <2>10
<1> QED
  BY <1>1, <1>2, <1>3 DEF AcpiNext

LEMMA PatchStep ==
  ASSUME PatchInv, [Next]_vars
  PROVE  PatchInv'
<1>1. CASE Next
  BY <1>1, EarlierStages, Setup DEF Next
<1>2. CASE UNCHANGED vars
  <2>1. phone' = phone /\ UNCHANGED <<next, dsdt, patched, at, pc, faults>>
    BY <1>2 DEF vars, acpiVars
  <2>2. AllDealtWith' /\ faults \in Nat /\ faults >= faults
    BY <2>1, SamePhone DEF PatchInv, AllDealtWith, Counting
  <2> QED
    BY <2>1, <2>2, OtherStep
<1> QED
  BY <1>1, <1>2

(* At the start of the system the names dealt with are all of them.        *)
LEMMA PatchEnd ==
  ASSUME PatchInv
  PROVE  PatchedOrGone
<1> SUFFICES ASSUME pc = "os", at = "patch"
             PROVE  /\ dsdt => Cardinality(Asked \ DOMAIN patched) <= faults
                    /\ ~dsdt => faults > 0
                    /\ \A n \in DOMAIN patched : patched[n] = ValueOf(n) /\ n \in Asked
  BY DEF PatchedOrGone
<1>1. 1 .. next = DOMAIN Names
  BY NamesLength DEF PatchInv, AllDealtWith
<1>2. Unwritten = Asked \ DOMAIN patched
  BY <1>1 DEF Unwritten, Asked
<1> QED
  BY <1>2 DEF PatchInv, Paid, Written

(* PatchedOrGone, for every phone and number of failed calls: the system   *)
(* starts with a DSDT in which all but one name per failed call was        *)
(* written, with the value of the map, or without one after a failed       *)
(* install.  UpdateNameAslCode as PlatformSetup calls it.                  *)
THEOREM TableOrFault == Spec => []PatchedOrGone
<1>1. Init => PatchInv
  BY InitPatch
<1>2. PatchInv /\ [Next]_vars => PatchInv'
  BY PatchStep
<1>3. PatchInv => PatchedOrGone
  BY PatchEnd
<1> QED
  BY <1>1, <1>2, <1>3, PTL DEF Spec

-----------------------------------------------------------------------------
(* Sequences, whatever they are sequences of.                              *)
IsSeq(s) == \E S : s \in Seq(S)

LEMMA SeqLength ==
  ASSUME NEW s, IsSeq(s)
  PROVE  Len(s) \in Nat /\ DOMAIN s = 1 .. Len(s)
  BY DEF IsSeq

LEMMA Concat ==
  ASSUME NEW s, NEW t, IsSeq(s), IsSeq(t)
  PROVE  IsSeq(s \o t)
<1>1. PICK S : s \in Seq(S)
  BY DEF IsSeq
<1>2. PICK T : t \in Seq(T)
  BY DEF IsSeq
<1>3. s \in Seq(S \cup T) /\ t \in Seq(S \cup T)
  BY <1>1, <1>2
<1>4. s \o t \in Seq(S \cup T)
  BY <1>3
<1> QED
  BY <1>4 DEF IsSeq

LEMMA Tuples ==
  ASSUME NEW a, NEW b, NEW c, NEW d, NEW e, NEW f
  PROVE  /\ IsSeq(<<a>>) /\ IsSeq(<<a, b>>) /\ IsSeq(<<a, b, c>>)
         /\ IsSeq(<<a, b, c, d>>) /\ IsSeq(<<a, b, c, d, e, f>>)
<1> DEFINE S == {a, b, c, d, e, f}
<1>1. /\ <<a>> \in Seq(S) /\ <<a, b>> \in Seq(S) /\ <<a, b, c>> \in Seq(S)
      /\ <<a, b, c, d>> \in Seq(S) /\ <<a, b, c, d, e, f>> \in Seq(S)
  OBVIOUS
<1> QED
  BY <1>1 DEF IsSeq

LEMMA CoresSeq ==
  ASSUME NEW cores, IsSeq(cores)
  PROVE  IsSeq(LogCores(cores))
<1>1. PICK n \in Nat : DOMAIN cores = 1 .. n
  BY SeqLength
<1>2. LogCores(cores) \in Seq({Log(<<"core", cores[i]>>) : i \in 1 .. n})
  BY <1>1 DEF LogCores
<1> QED
  BY <1>2 DEF IsSeq

(* What every port registers is a sequence of steps.                       *)
LEMMA ClustersSeq ==
  ASSUME NEW fast, NEW fastCores, NEW slow, IsSeq(fastCores)
  PROVE  IsSeq(Clusters(fast, fastCores, slow))
<1>1. IsSeq(LogCores(fastCores)) /\ IsSeq(LogCores(<<slow>>))
  BY CoresSeq, Tuples
<1> QED
  BY <1>1, Tuples, Concat DEF Clusters

LEMMA OneCacheSeq ==
  ASSUME NEW cores, IsSeq(cores)
  PROVE  IsSeq(OneCache(cores))
  BY CoresSeq, Tuples, Concat DEF OneCache

LEMMA RegisterSeq ==
  ASSUME NEW soc \in Socs
  PROVE  IsSeq(RegisterSOCSmbiosInfo(soc))
<1>1. /\ IsSeq(msm8998Register) /\ IsSeq(sdm660Register) /\ IsSeq(sdm670Register)
      /\ IsSeq(sdm845Register) /\ IsSeq(sm6225Register) /\ IsSeq(sm6375Register)
      /\ IsSeq(sm7125Register) /\ IsSeq(sm7150Register)
  BY Tuples, ClustersSeq
     DEF msm8998Register, sdm660Register, sdm670Register, sdm845Register,
         sm6225Register, sm6375Register, sm7125Register, sm7150Register
<1>2. /\ IsSeq(sm7325Register) /\ IsSeq(sm8150Register) /\ IsSeq(sm8250Register)
      /\ IsSeq(sm8350Register)
  BY Tuples, ClustersSeq DEF sm7325Register, sm8150Register, sm8250Register, sm8350Register
<1>3. IsSeq(sm8475Register) /\ IsSeq(sm8550Register) /\ IsSeq(sm8650Register)
  BY Tuples, OneCacheSeq DEF sm8475Register, sm8550Register, sm8650Register
<1> QED
  BY <1>1, <1>2, <1>3 DEF RegisterSOCSmbiosInfo, Socs

(* Every step of the script has the handle variable of one of the two.     *)
Frames == {"driver", "soc"}

IsFramed(s) == \E S : s \in Seq(S) /\ \A x \in S : x.frame \in Frames

LEMMA FramedConcat ==
  ASSUME NEW s, NEW t, IsFramed(s), IsFramed(t)
  PROVE  IsFramed(s \o t)
<1>1. PICK S : s \in Seq(S) /\ \A x \in S : x.frame \in Frames
  BY DEF IsFramed
<1>2. PICK T : t \in Seq(T) /\ \A x \in T : x.frame \in Frames
  BY DEF IsFramed
<1>3. s \in Seq(S \cup T) /\ t \in Seq(S \cup T)
  BY <1>1, <1>2
<1>4. s \o t \in Seq(S \cup T) /\ \A x \in S \cup T : x.frame \in Frames
  BY <1>1, <1>2, <1>3
<1> QED
  BY <1>4 DEF IsFramed

LEMMA FramedBy ==
  ASSUME NEW frame \in Frames, NEW steps, IsSeq(steps)
  PROVE  IsFramed(By(frame, steps))
<1> DEFINE framed(i) == [frame |-> frame, record |-> steps[i].record,
                         keep |-> steps[i].keep, sets |-> steps[i].sets]
<1>1. PICK n \in Nat : DOMAIN steps = 1 .. n
  BY SeqLength
<1>2. By(frame, steps) = [i \in 1 .. n |-> framed(i)]
  BY <1>1 DEF By
<1>3. \A i : framed(i).frame \in Frames
  OBVIOUS
<1> HIDE DEF framed
<1>4. /\ By(frame, steps) \in Seq({framed(i) : i \in 1 .. n})
      /\ \A x \in {framed(i) : i \in 1 .. n} : x.frame \in Frames
  BY <1>2, <1>3
<1> QED
  BY <1>4 DEF IsFramed

LEMMA ScriptFramed ==
  ASSUME phone \in Phones
  PROVE  /\ Len(Script) \in Nat /\ DOMAIN Script = 1 .. Len(Script)
         /\ \A i \in DOMAIN Script : Script[i].frame \in Frames
<1> DEFINE slots == [i \in 1 .. 4 |-> Log(<<"slot", ToString(i)>>)]
           nodes == [i \in DOMAIN phone.nodes |-> Log(<<"type", "19">>)]
           script == Script
<1>1. IsSeq(slots)
  <2>1. slots \in Seq({Log(<<"slot", ToString(i)>>) : i \in 1 .. 4})
    OBVIOUS
  <2> QED
    BY <2>1 DEF IsSeq
<1>2. IsSeq(nodes)
  <2>1. PICK n \in Nat : DOMAIN phone.nodes = 1 .. n
    BY PhoneAssumption
  <2>2. nodes \in Seq({Log(<<"type", "19">>)})
    BY <2>1
  <2> QED
    BY <2>2 DEF IsSeq
<1> HIDE DEF slots, nodes
<1>3. IsSeq(DriverHead)
  BY <1>1, Tuples, Concat DEF DriverHead, slots
<1>4. IsSeq(RegisterSOCSmbiosInfo(phone.soc))
  BY RegisterSeq, SocAssumption
<1>5. IsSeq(nodes \o <<Log(<<"type", "32">>)>>)
  BY <1>2, Tuples, Concat
<1>6. /\ IsFramed(By("driver", DriverHead))
      /\ IsFramed(By("soc", RegisterSOCSmbiosInfo(phone.soc)))
      /\ IsFramed(By("driver", nodes \o <<Log(<<"type", "32">>)>>))
  BY <1>3, <1>4, <1>5, FramedBy DEF Frames
<1>7. IsFramed(script)
  BY <1>6, FramedConcat DEF Script, ScriptOf, nodes
<1> HIDE DEF script
<1>8. /\ Len(script) \in Nat /\ DOMAIN script = 1 .. Len(script)
      /\ \A i \in DOMAIN script : script[i].frame \in Frames
  BY <1>7 DEF IsFramed
<1> QED
  BY <1>8 DEF script

-----------------------------------------------------------------------------
HandleFields == {"ChassisHandle", "MemoryArrayHandle", "L1CacheHandle", "L2CacheHandle"}

(* What a handle variable or field may hold after so many steps.           *)
HandlesBy(steps) == StrayHandles \cup 0 .. steps

PhoneTypes ==
  /\ phone \in Phones /\ faults \in 0 .. MaxFaults
  /\ pc \in {"nodes", "rows", "platform", "smbios", "setup", "os"}

MemoryTypes ==
  /\ node \in 0 .. Len(phone.nodes) /\ Mem \in Classes
  /\ row \in Nat /\ row >= 1 /\ row <= Len(Map) + 1
  /\ hobs \in Seq(1 .. row - 1) /\ MemoryDescriptor \in Seq(1 .. row - 1)

SmbiosTypes ==
  /\ step \in Nat /\ IsFiniteSet(refused)
  /\ table \in Seq([name : Logged, refs : [HandleFields -> HandlesBy(step)]])
  /\ step >= Len(table) + Cardinality(refused)
  /\ handle \in [Frames -> {Unset} \cup 0 .. step]
  /\ \A f \in DOMAIN field : field[f] \in HandlesBy(step)

AcpiTypes == at \in {"protect", "find", "patch", "unpatched", "nothing"}

Types == PhoneTypes /\ MemoryTypes /\ SmbiosTypes /\ AcpiTypes

(* Sequences over a growing set. *)
LEMMA Larger ==
  ASSUME NEW S, NEW T, S \subseteq T, NEW s \in Seq(S)
  PROVE  s \in Seq(T)
  OBVIOUS

LEMMA Longer ==
  ASSUME NEW S, NEW T, S \subseteq T, NEW s \in Seq(S), NEW e \in T
  PROVE  Append(s, e) \in Seq(T) /\ Len(Append(s, e)) = Len(s) + 1 /\ Len(s) \in Nat
  BY Larger

LEMMA PhoneFacts ==
  ASSUME phone \in Phones
  PROVE  /\ Len(phone.nodes) \in Nat /\ Len(Map) \in Nat /\ MaxFaults \in Nat
         /\ DOMAIN phone.nodes = 1 .. Len(phone.nodes) /\ DOMAIN Map = 1 .. Len(Map)
<1>1. phone.map \in Seq(Row) /\ phone.nodes \in Seq(Nat)
  BY PhoneAssumption
<1> QED
  BY <1>1, PhoneAssumption DEF Map

LEMMA InitTypes ==
  ASSUME Init
  PROVE  Types
<1>1. PhoneTypes
  BY PhoneAssumption DEF Init, PhoneInit, PhoneTypes
<1>2. MemoryTypes
  BY <1>1, PhoneFacts DEF PhoneTypes, Init, MemoryInitial, MemoryTypes, Classes
<1>3. IsFiniteSet({}) /\ Cardinality({}) = 0
  BY FS_EmptySet
<1>4. SmbiosTypes
  BY <1>3 DEF Init, SmbiosInitial, SmbiosTypes, Frames
<1>5. AcpiTypes
  BY DEF Init, AcpiInitial, AcpiTypes
<1> QED
  BY <1>1, <1>2, <1>4, <1>5 DEF Types

(* The frame of the stages. *)
LEMMA SameMemory ==
  ASSUME MemoryTypes, phone' = phone, UNCHANGED memoryVars
  PROVE  MemoryTypes'
  BY DEF MemoryTypes, memoryVars, Map

LEMMA SameSmbios ==
  ASSUME SmbiosTypes, phone' = phone, UNCHANGED smbiosVars
  PROVE  SmbiosTypes'
<1>1. Logged' = Logged
  BY DEF Logged, LoggedBy, Script
<1> QED
  BY <1>1 DEF SmbiosTypes, smbiosVars, HandlesBy

LEMMA Failed ==
  ASSUME faults \in 0 .. MaxFaults, Works \/ Fails
  PROVE  faults' \in 0 .. MaxFaults
  BY PhoneAssumption DEF Works, Fails

LEMMA MemoryStep ==
  ASSUME PhoneTypes, MemoryTypes, MemoryNext
  PROVE  PhoneTypes' /\ MemoryTypes'
<1> USE PhoneFacts DEF PhoneTypes, MemoryTypes
<1>1. CASE ReadNode
  BY <1>1 DEF ReadNode, Map
<1>2. CASE SelectClass
  BY <1>2 DEF SelectClass, Map, ClassOf, Classes
<1>3. CASE SkipRow
  <2>1. 1 .. row - 1 \subseteq 1 .. row' - 1
    BY <1>3 DEF SkipRow
  <2>2. hobs' \in Seq(1 .. row' - 1) /\ MemoryDescriptor' \in Seq(1 .. row' - 1)
    BY <1>3, <2>1, Larger DEF SkipRow
  <2> QED
    BY <1>3, <2>2 DEF SkipRow, AtRow, Map
<1>4. CASE TakeRow
  <2>1. 1 .. row - 1 \subseteq 1 .. row' - 1 /\ row \in 1 .. row' - 1
    BY <1>4 DEF TakeRow
  <2>2. /\ hobs \in Seq(1 .. row' - 1) /\ Append(hobs, row) \in Seq(1 .. row' - 1)
        /\ MemoryDescriptor \in Seq(1 .. row' - 1)
        /\ Append(MemoryDescriptor, row) \in Seq(1 .. row' - 1)
    <3> DEFINE older == 1 .. row - 1
               newer == 1 .. row' - 1
    <3>1. hobs \in Seq(older) /\ MemoryDescriptor \in Seq(older)
      OBVIOUS
    <3> HIDE DEF older, newer, MemoryTypes
    <3>2. older \subseteq newer /\ row \in newer
      BY <2>1 DEF older, newer
    <3>3. /\ hobs \in Seq(newer) /\ Append(hobs, row) \in Seq(newer)
          /\ MemoryDescriptor \in Seq(newer) /\ Append(MemoryDescriptor, row) \in Seq(newer)
      BY <3>1, <3>2, Larger, Longer
    <3> QED
      BY <3>3 DEF newer
  <2>3. hobs' \in Seq(1 .. row' - 1) /\ MemoryDescriptor' \in Seq(1 .. row' - 1)
    BY <1>4, <2>2 DEF TakeRow
  <2>4. row' \in Nat /\ row' >= 1 /\ row' <= Len(Map) + 1
    BY <1>4 DEF TakeRow, AtRow
  <2>5. phone' = phone /\ UNCHANGED <<pc, faults, node, Mem>>
    BY <1>4 DEF TakeRow
  <2> QED
    BY <2>3, <2>4, <2>5 DEF Map
<1>5. CASE EndOfMap
  BY <1>5 DEF EndOfMap, memoryVars, Map
<1>6. CASE InstallPlatformHob
  BY <1>6 DEF InstallPlatformHob, Map
<1> QED
  BY <1>1, <1>2, <1>3, <1>4, <1>5, <1>6 DEF MemoryNext

LEMMA SmbiosStep ==
  ASSUME PhoneTypes, SmbiosTypes, SmbiosNext
  PROVE  PhoneTypes' /\ SmbiosTypes'
<1>0. phone' = phone
  BY DEF SmbiosNext, AddRecord, RefuseRecord, SmbiosDone
<1>1. PhoneTypes'
  BY Failed DEF PhoneTypes, SmbiosNext, AddRecord, RefuseRecord, SmbiosDone, Works
<1>2. Logged' = Logged
  BY <1>0 DEF Logged, LoggedBy, Script
<1>3. CASE SmbiosDone
  BY <1>0, <1>1, <1>3, SameSmbios DEF SmbiosDone
<1>4. CASE AddRecord \/ RefuseRecord
  <2> DEFINE now == Current
             added == [name |-> now.record, refs |-> RefsOf(now.record)]
             Rows == [name : Logged, refs : [HandleFields -> HandlesBy(step)]]
             RowsNext == [name : Logged, refs : [HandleFields -> HandlesBy(step + 1)]]
  <2>1. /\ step' = step + 1 /\ step \in Nat /\ step + 1 \in DOMAIN Script
        /\ now = Script[step + 1] /\ now.frame \in Frames /\ now.record \in Logged
    BY <1>4, ScriptFramed
       DEF PhoneTypes, SmbiosTypes, AddRecord, RefuseRecord, AtRecord, Current, Logged, LoggedBy
  <2>2. HandlesBy(step) \subseteq HandlesBy(step + 1) /\ 0 .. step \subseteq 0 .. (step + 1)
    BY <2>1 DEF HandlesBy
  <2>3. Rows \subseteq RowsNext
    BY <2>2
  <2>4. RefsOf(now.record) \in [HandleFields -> HandlesBy(step + 1)]
    BY <2>1, <2>2 DEF RefsOf, HandleFields, HandlesBy, SmbiosTypes
  <2>5. added \in RowsNext
    BY <2>1, <2>4
  <2>6. table \in Seq(Rows)
    BY DEF SmbiosTypes
  <2>7. ASSUME NEW h \in HandlesBy(step + 1), CopyHandle(now, h)
        PROVE  \A f \in DOMAIN field' : field'[f] \in HandlesBy(step + 1)
    BY <2>2, <2>7 DEF CopyHandle, SmbiosTypes
  <2> HIDE DEF now, added, Rows, RowsNext
  <2>8. /\ table \in Seq(RowsNext) /\ Append(table, added) \in Seq(RowsNext)
        /\ Len(Append(table, added)) = Len(table) + 1 /\ Len(table) \in Nat
    BY <2>3, <2>5, <2>6, Larger, Longer
  <2>9. Cardinality(refused) \in Nat /\ IsFiniteSet(refused)
    BY FS_CardinalityType DEF SmbiosTypes
  <2>10. CASE AddRecord
    <3>1. /\ table' = Append(table, added) /\ refused' = refused
          /\ handle' = IF now.keep THEN [handle EXCEPT ![now.frame] = Len(table)] ELSE handle
          /\ CopyHandle(now, Len(table))
      BY <2>10 DEF AddRecord, now, added
    <3>2. Len(table) \in 0 .. (step + 1)
      BY <2>1, <2>8, <2>9 DEF SmbiosTypes
    <3>3. handle' \in [Frames -> {Unset} \cup 0 .. (step + 1)]
      BY <2>1, <2>2, <3>1, <3>2 DEF SmbiosTypes
    <3>4. \A f \in DOMAIN field' : field'[f] \in HandlesBy(step + 1)
      BY <2>7, <3>1, <3>2 DEF HandlesBy
    <3>5. step + 1 >= Len(table') + Cardinality(refused')
      BY <2>1, <2>8, <2>9, <3>1 DEF SmbiosTypes
    <3>6. table' \in Seq(RowsNext)
      BY <2>8, <3>1
    <3>7. SmbiosTypes'
      BY <1>2, <2>1, <2>9, <3>1, <3>3, <3>4, <3>5, <3>6 DEF SmbiosTypes, RowsNext, HandlesBy
    <3> QED
      BY <1>1, <3>7
  <2>11. CASE RefuseRecord
    <3>1. /\ table' = table /\ refused' = refused \cup {now.record} /\ handle' = handle
          /\ \E h \in IF handle[now.frame] = Unset THEN StrayHandles ELSE {handle[now.frame]} :
               CopyHandle(now, h)
      BY <2>11 DEF RefuseRecord, now
    <3>2. PICK h \in IF handle[now.frame] = Unset THEN StrayHandles ELSE {handle[now.frame]} :
               CopyHandle(now, h)
      BY <3>1
    <3>3. h \in HandlesBy(step + 1)
      BY <2>1, <2>2, <3>2 DEF SmbiosTypes, HandlesBy
    <3>4. \A f \in DOMAIN field' : field'[f] \in HandlesBy(step + 1)
      BY <2>7, <3>2, <3>3
    <3>5. handle' \in [Frames -> {Unset} \cup 0 .. (step + 1)]
      BY <2>2, <3>1 DEF SmbiosTypes
    <3>6. /\ IsFiniteSet(refused') /\ Cardinality(refused') <= Cardinality(refused) + 1
          /\ Cardinality(refused') \in Nat
      <4> DEFINE more == refused \cup {now.record}
      <4>1. /\ IsFiniteSet(more)
            /\ Cardinality(more) = IF now.record \in refused THEN Cardinality(refused)
                                   ELSE Cardinality(refused) + 1
        BY <2>9, FS_AddElement
      <4>2. refused' = more
        BY <3>1
      <4> HIDE DEF more
      <4> QED
        BY <2>9, <4>1, <4>2
    <3>7. step + 1 >= Len(table') + Cardinality(refused')
      BY <2>1, <2>8, <2>9, <3>1, <3>6 DEF SmbiosTypes
    <3>8. table' \in Seq(RowsNext)
      BY <2>8, <3>1
    <3>9. SmbiosTypes'
      BY <1>2, <2>1, <3>4, <3>5, <3>6, <3>7, <3>8 DEF SmbiosTypes, RowsNext, HandlesBy
    <3> QED
      BY <1>1, <3>9
  <2> QED
    BY <1>4, <2>10, <2>11
<1> QED
  BY <1>3, <1>4 DEF SmbiosNext

LEMMA AcpiStep ==
  ASSUME PhoneTypes, AcpiTypes, AcpiNext
  PROVE  PhoneTypes' /\ AcpiTypes'
<1> USE DEF AcpiNext, ProtectSharedArea, FindProtocols, ProtocolMissing, ShareRegion,
            NameNotFound, PatchName, CopyOrUninstallFails, InstallFails, SetupDone,
            AtName, NextName
<1>1. phone' = phone /\ pc' \in {pc, "os"}
  BY DEF acpiVars
<1>2. Works \/ Fails
  BY DEF Works
<1>3. AcpiTypes'
  BY DEF AcpiTypes, acpiVars
<1> QED
  BY <1>1, <1>2, <1>3, Failed DEF PhoneTypes

LEMMA TypesStep ==
  ASSUME Types, [Next]_vars
  PROVE  Types'
<1>1. CASE MemoryNext /\ UNCHANGED <<smbiosVars, acpiVars>>
  <2>1. phone' = phone
    BY <1>1 DEF MemoryNext, ReadNode, SelectClass, SkipRow, TakeRow, EndOfMap,
                InstallPlatformHob
  <2> QED
    BY <1>1, <2>1, MemoryStep, SameSmbios DEF Types, AcpiTypes, acpiVars
<1>2. CASE SmbiosNext /\ UNCHANGED <<memoryVars, acpiVars>>
  <2>1. phone' = phone
    BY <1>2 DEF SmbiosNext, AddRecord, RefuseRecord, SmbiosDone
  <2> QED
    BY <1>2, <2>1, SmbiosStep, SameMemory DEF Types, AcpiTypes, acpiVars
<1>3. CASE AcpiNext /\ UNCHANGED <<memoryVars, smbiosVars>>
  <2>1. phone' = phone
    BY <1>3 DEF AcpiNext, ProtectSharedArea, FindProtocols, ProtocolMissing, NameNotFound,
                PatchName, CopyOrUninstallFails, InstallFails, SetupDone, NextName
  <2> QED
    BY <1>3, <2>1, AcpiStep, SameMemory, SameSmbios DEF Types
<1>4. CASE UNCHANGED vars
  <2>1. phone' = phone /\ UNCHANGED <<memoryVars, smbiosVars, acpiVars, pc, faults>>
    BY <1>4 DEF vars
  <2> QED
    BY <2>1, SameMemory, SameSmbios DEF Types, PhoneTypes, AcpiTypes, acpiVars
<1> QED
  BY <1>1, <1>2, <1>3, <1>4 DEF Next

LEMMA TypesGive ==
  ASSUME Types, PatchInv
  PROVE  TypeOK
<1>1. Len(Names) \in Nat /\ next \in 0 .. Len(Names) /\ dsdt \in BOOLEAN
  BY NamesLength DEF PatchInv, Counting
<1>2. phone.nodes \in Seq(Nat) /\ row \in 1 .. Len(Map) + 1
  BY PhoneFacts, PhoneAssumption DEF Types, PhoneTypes, MemoryTypes
<1>3. /\ \A i \in DOMAIN hobs : hobs[i] \in 1 .. row - 1
      /\ \A i \in DOMAIN MemoryDescriptor : MemoryDescriptor[i] \in 1 .. row - 1
  <2>1. hobs \in Seq(1 .. row - 1) /\ MemoryDescriptor \in Seq(1 .. row - 1)
    BY DEF Types, MemoryTypes
  <2>2. ASSUME NEW S, NEW s \in Seq(S), NEW i \in DOMAIN s
        PROVE  s[i] \in S
    OBVIOUS
  <2> QED
    BY <2>1, <2>2
<1>4. \A i \in DOMAIN table : \A f \in DOMAIN table[i].refs :
        table[i].refs[f] \in StrayHandles \cup 0 .. step
  <2> DEFINE Rows == [name : Logged, refs : [HandleFields -> HandlesBy(step)]]
  <2>1. \A r \in Rows : \A f \in DOMAIN r.refs : r.refs[f] \in HandlesBy(step)
    OBVIOUS
  <2>2. table \in Seq(Rows)
    BY DEF Types, SmbiosTypes
  <2> HIDE DEF Rows
  <2>3. \A i \in DOMAIN table : table[i] \in Rows
    BY <2>2
  <2> QED
    BY <2>1, <2>3 DEF HandlesBy
<1> QED
  BY <1>1, <1>2, <1>3, <1>4
     DEF TypeOK, Types, PhoneTypes, MemoryTypes, SmbiosTypes, AcpiTypes, HandlesBy

(* TypeOK: the start never reads past the device tree, the map, the script *)
(* or the list of names, takes only rows it has passed, and writes only    *)
(* handles it was given.  MemoryPeim, PlatformSmbiosDriverEntryPoint and   *)
(* PlatformSetup.                                                          *)
THEOREM StartTypeCorrect == Spec => []TypeOK
<1>1. Init => PatchInv /\ Types
  BY InitPatch, InitTypes
<1>2. PatchInv /\ Types /\ [Next]_vars => (PatchInv /\ Types)'
  BY PatchStep, TypesStep
<1>3. PatchInv /\ Types => TypeOK
  BY TypesGive
<1> QED
  BY <1>1, <1>2, <1>3, PTL DEF Spec

-----------------------------------------------------------------------------
(* The region shared with the modem is that of the row MPSS_EFS.           *)
Shared ==
  LET efs == LocateMemoryMapAreaByName("MPSS_EFS")
  IN  modem # <<>> => efs # 0 /\ modem = <<Map[efs].base, Map[efs].pages>>

LEMMA SharedStep ==
  ASSUME Shared, [Next]_vars
  PROVE  Shared'
<1> DEFINE efs == LocateMemoryMapAreaByName("MPSS_EFS")
<1>1. /\ phone' = phone
      /\ modem' = modem \/ (efs # 0 /\ modem' = <<Map[efs].base, Map[efs].pages>>)
  <2>1. CASE MemoryNext /\ UNCHANGED <<smbiosVars, acpiVars>>
    BY <2>1 DEF MemoryNext, ReadNode, SelectClass, SkipRow, TakeRow, EndOfMap,
                InstallPlatformHob, acpiVars
  <2>2. CASE SmbiosNext /\ UNCHANGED <<memoryVars, acpiVars>>
    BY <2>2 DEF SmbiosNext, AddRecord, RefuseRecord, SmbiosDone, acpiVars
  <2>3. CASE AcpiNext
    BY <2>3 DEF AcpiNext, ProtectSharedArea, FindProtocols, ProtocolMissing, ShareRegion,
                NameNotFound, PatchName, CopyOrUninstallFails, InstallFails, SetupDone,
                NextName, acpiVars
  <2>4. CASE UNCHANGED vars
    BY <2>4 DEF vars, acpiVars
  <2> QED
    BY <2>1, <2>2, <2>3, <2>4 DEF Next
<1>2. efs' = efs /\ Map' = Map
  BY <1>1 DEF LocateMemoryMapAreaByName, Map
<1> HIDE DEF efs
<1>3. modem # <<>> => efs # 0 /\ modem = <<Map[efs].base, Map[efs].pages>>
  BY DEF Shared, efs
<1>4. modem' # <<>> => efs' # 0 /\ modem' = <<Map'[efs'].base, Map'[efs'].pages>>
  BY <1>1, <1>2, <1>3
<1> QED
  BY <1>4 DEF Shared, efs

(* The system is told the region that the hypervisor shares, on every port *)
(* and whatever fails: ValueOf and ShareRegion look at the same row.       *)
THEOREM SharedIsTold == Spec => [](modem # <<>> => ModemToldTruly)
<1>1. Init => PatchInv /\ Shared
  BY InitPatch DEF Init, AcpiInitial, Shared
<1>2. PatchInv /\ Shared /\ [Next]_vars => (PatchInv /\ Shared)'
  BY PatchStep, SharedStep
<1>3. PatchInv /\ Shared => (modem # <<>> => ModemToldTruly)
  <2> SUFFICES ASSUME PatchInv, Shared, modem # <<>>
               PROVE  ModemToldTruly
    OBVIOUS
  <2> DEFINE efs == LocateMemoryMapAreaByName("MPSS_EFS")
  <2>1. efs # 0 /\ modem = <<Map[efs].base, Map[efs].pages>>
    BY DEF Shared
  <2>2. ValueOf("RMTB") = Map[efs].base /\ ValueOf("RMTX") = Map[efs].pages
    BY <2>1 DEF ValueOf
  <2>3. \A n \in DOMAIN patched : patched[n] = ValueOf(n)
    BY DEF PatchInv, Written
  <2> HIDE DEF efs
  <2> QED
    BY <2>1, <2>2, <2>3 DEF ModemToldTruly
<1> QED
  BY <1>1, <1>2, <1>3, PTL DEF Spec

-----------------------------------------------------------------------------
(* A sequence of numbers below n, rising, gets n at its end.               *)
LEMMA RisingAppend ==
  ASSUME NEW n \in Nat, NEW s \in Seq(1 .. n - 1), Rising(s)
  PROVE  /\ Rising(Append(s, n)) /\ Range(Append(s, n)) = Range(s) \cup {n}
         /\ n \notin Range(s) /\ Len(Append(s, n)) = Len(s) + 1
<1> DEFINE t == Append(s, n)
           l == Len(s)
<1>1. /\ l \in Nat /\ Len(t) = l + 1 /\ DOMAIN s = 1 .. l /\ DOMAIN t = 1 .. l + 1
      /\ t[l + 1] = n /\ \A i \in 1 .. l : t[i] = s[i]
  OBVIOUS
<1>2. \A i \in 1 .. l : s[i] \in 1 .. n - 1
  OBVIOUS
<1> HIDE DEF t, l
<1>3. ASSUME NEW i \in 1 .. l + 1, NEW j \in 1 .. l + 1, i < j
      PROVE  t[i] < t[j]
  <2>1. i \in 1 .. l
    BY <1>1, <1>3
  <2>2. CASE j = l + 1
    BY <1>1, <1>2, <2>1, <2>2
  <2>3. CASE j # l + 1
    <3>1. j \in 1 .. l
      BY <1>1, <2>3
    <3>2. s[i] < s[j]
      BY <1>1, <1>3, <2>1, <3>1 DEF Rising
    <3> QED
      BY <1>1, <2>1, <3>1, <3>2
  <2> QED
    BY <2>2, <2>3
<1>4. Rising(t)
  BY <1>1, <1>3 DEF Rising
<1>5. 1 .. l + 1 = 1 .. l \cup {l + 1}
  BY <1>1
<1>6. Range(t) = Range(s) \cup {n}
  BY <1>1, <1>5 DEF Range
<1>7. n \notin Range(s)
  BY <1>1, <1>2 DEF Range
<1> QED
  BY <1>1, <1>4, <1>6, <1>7 DEF t, l

(* The rows taken are those of the map so far, for the class of the sum of *)
(* the nodes, each once.                                                   *)
Counted ==
  IsFiniteSet(Range(MemoryDescriptor))
    /\ Len(MemoryDescriptor) = Cardinality(Range(MemoryDescriptor))

RowsTaken ==
  /\ Followed /\ Counted
  /\ IF pc = "nodes" THEN row = 1 ELSE Mem = ClassOf(MemoryTotal)
  /\ pc \notin {"nodes", "rows"} => row = Len(Map) + 1

LEMMA InitRows ==
  ASSUME Init
  PROVE  RowsTaken
<1>1. hobs = <<>> /\ MemoryDescriptor = <<>> /\ row = 1 /\ pc = "nodes"
  BY DEF Init, PhoneInit, MemoryInitial
<1>2. Range(<<>>) = {} /\ Rising(<<>>) /\ Len(<<>>) = 0
  BY DEF Range, Rising
<1>3. 1 .. row - 1 = {}
  BY <1>1
<1>4. Followed
  BY <1>1, <1>2, <1>3 DEF Followed
<1>5. Counted
  BY <1>1, <1>2, FS_EmptySet DEF Counted
<1> QED
  BY <1>1, <1>4, <1>5 DEF RowsTaken

(* The later stages leave the rows alone. *)
LEMMA SameRows ==
  ASSUME RowsTaken, phone' = phone, UNCHANGED <<MemoryTotal, Mem, row, hobs, MemoryDescriptor>>,
         pc' = pc \/ (pc \notin {"nodes", "rows"} /\ pc' \notin {"nodes", "rows"})
  PROVE  RowsTaken'
<1>1. Map' = Map /\ \A r : OfOtherClass(r)' = OfOtherClass(r)
  BY DEF Map, OfOtherClass, Classes
<1>2. Followed'
  BY <1>1 DEF RowsTaken, Followed, Rising, Range
<1> QED
  BY <1>1, <1>2 DEF RowsTaken, Counted

LEMMA RowsStep ==
  ASSUME PhoneTypes, MemoryTypes, RowsTaken, MemoryNext
  PROVE  RowsTaken'
<1> DEFINE seen == {i \in 1 .. row - 1 : ~OfOtherClass(Map[i])}
<1>0. /\ row \in Nat /\ row >= 1 /\ row <= Len(Map) + 1 /\ Len(Map) \in Nat
      /\ hobs \in Seq(1 .. row - 1) /\ MemoryDescriptor \in Seq(1 .. row - 1)
  BY PhoneFacts DEF PhoneTypes, MemoryTypes
<1>1. /\ Rising(hobs) /\ Range(hobs) = {i \in seen : GetsHob(Map[i])}
      /\ Rising(MemoryDescriptor)
      /\ Range(MemoryDescriptor) = {i \in seen : GetsMapped(Map[i])}
  BY DEF RowsTaken, Followed
<1>2. CASE ReadNode \/ InstallPlatformHob
  <2>1. CASE ReadNode
    <3>1. UNCHANGED <<phone, pc, Mem, row, hobs, MemoryDescriptor>> /\ pc = "nodes"
      BY <2>1 DEF ReadNode
    <3>2. Map' = Map /\ \A r : OfOtherClass(r)' = OfOtherClass(r)
      BY <3>1 DEF Map, OfOtherClass, Classes
    <3>3. Followed'
      BY <3>1, <3>2 DEF RowsTaken, Followed, Rising, Range
    <3> QED
      BY <3>1, <3>2, <3>3 DEF RowsTaken, Counted
  <2>2. CASE InstallPlatformHob
    BY <2>2, SameRows DEF InstallPlatformHob
  <2> QED
    BY <1>2, <2>1, <2>2
<1>3. CASE SelectClass
  <2>1. /\ row = 1 /\ UNCHANGED <<phone, MemoryTotal, row, hobs, MemoryDescriptor>>
        /\ pc' = "rows" /\ Mem' = ClassOf(MemoryTotal)
    BY <1>3 DEF SelectClass, RowsTaken
  <2>2. 1 .. row - 1 = {} /\ 1 .. row' - 1 = {}
    BY <2>1
  <2>3. Followed'
    BY <1>1, <2>1, <2>2 DEF Followed
  <2> QED
    BY <2>1, <2>3 DEF RowsTaken, Counted
<1>4. CASE EndOfMap
  <2>1. /\ UNCHANGED <<phone, MemoryTotal, Mem, row, hobs, MemoryDescriptor>>
        /\ pc # "nodes" /\ pc' = "platform" /\ row = Len(Map) + 1
    BY <1>0, <1>4 DEF EndOfMap, memoryVars
  <2>2. Map' = Map /\ \A r : OfOtherClass(r)' = OfOtherClass(r)
    BY <2>1 DEF Map, OfOtherClass, Classes
  <2>3. Followed'
    BY <2>1, <2>2 DEF RowsTaken, Followed, Rising, Range
  <2> QED
    BY <2>1, <2>2, <2>3 DEF RowsTaken, Counted
<1>5. CASE SkipRow \/ TakeRow
  <2> DEFINE r == Map[row]
             seenNext == {i \in 1 .. row : ~OfOtherClass(Map[i])}
  <2>1. UNCHANGED <<phone, MemoryTotal, Mem>> /\ row' = row + 1 /\ pc = "rows" /\ pc' = "rows"
    BY <1>5 DEF SkipRow, TakeRow, AtRow
  <2>2. Map' = Map /\ \A s : OfOtherClass(s)' = OfOtherClass(s)
    BY <2>1 DEF Map, OfOtherClass, Classes
  <2>3. seenNext = IF OfOtherClass(r) THEN seen ELSE seen \cup {row}
    <3>1. 1 .. row = 1 .. row - 1 \cup {row}
      BY <1>0
    <3> QED
      BY <3>1
  <2>4. 1 .. row' - 1 = 1 .. row
    BY <1>0, <2>1
  <2>5. SUFFICES /\ Rising(hobs') /\ Range(hobs') = {i \in seenNext : GetsHob(Map[i])}
                 /\ Rising(MemoryDescriptor')
                 /\ Range(MemoryDescriptor') = {i \in seenNext : GetsMapped(Map[i])}
                 /\ Counted'
    BY <2>1, <2>2, <2>4 DEF RowsTaken, Followed, GetsHob, GetsMapped, Classes
  <2>6. CASE SkipRow
    <3>1. UNCHANGED <<hobs, MemoryDescriptor>> /\ seenNext = seen
      BY <2>3, <2>6 DEF SkipRow
    <3> QED
      BY <1>1, <3>1 DEF RowsTaken, Counted
  <2>7. CASE TakeRow
    <3>1. /\ hobs' = IF GetsHob(r) THEN Append(hobs, row) ELSE hobs
          /\ MemoryDescriptor' = IF GetsMapped(r) THEN Append(MemoryDescriptor, row)
                                 ELSE MemoryDescriptor
          /\ seenNext = seen \cup {row}
      BY <2>3, <2>7 DEF TakeRow
    <3>2. /\ Rising(Append(hobs, row)) /\ Range(Append(hobs, row)) = Range(hobs) \cup {row}
          /\ Rising(Append(MemoryDescriptor, row))
          /\ Range(Append(MemoryDescriptor, row)) = Range(MemoryDescriptor) \cup {row}
          /\ row \notin Range(MemoryDescriptor)
          /\ Len(Append(MemoryDescriptor, row)) = Len(MemoryDescriptor) + 1
      BY <1>0, <1>1, RisingAppend
    <3> HIDE DEF seen, seenNext
    <3>3. Rising(hobs') /\ Range(hobs') = {i \in seenNext : GetsHob(Map[i])}
      BY <1>1, <3>1, <3>2
    <3>4. Rising(MemoryDescriptor')
            /\ Range(MemoryDescriptor') = {i \in seenNext : GetsMapped(Map[i])}
      BY <1>1, <3>1, <3>2
    <3>5. Counted'
      <4>1. IsFiniteSet(Range(MemoryDescriptor))
              /\ Len(MemoryDescriptor) = Cardinality(Range(MemoryDescriptor))
        BY DEF RowsTaken, Counted
      <4>2. IsFiniteSet(Range(MemoryDescriptor) \cup {row})
              /\ Cardinality(Range(MemoryDescriptor) \cup {row}) = Len(MemoryDescriptor) + 1
        BY <3>2, <4>1, FS_AddElement
      <4> QED
        BY <3>1, <3>2, <4>1, <4>2 DEF Counted
    <3> QED
      BY <3>3, <3>4, <3>5
  <2> QED
    BY <1>5, <2>6, <2>7
<1> QED
  BY <1>2, <1>3, <1>4, <1>5 DEF MemoryNext

LEMMA RowsKept ==
  ASSUME Types, RowsTaken, [Next]_vars
  PROVE  RowsTaken'
<1>1. CASE MemoryNext
  BY <1>1, RowsStep DEF Types
<1>2. CASE SmbiosNext /\ UNCHANGED <<memoryVars, acpiVars>>
  BY <1>2, SameRows DEF SmbiosNext, AddRecord, RefuseRecord, SmbiosDone, memoryVars
<1>3. CASE AcpiNext /\ UNCHANGED <<memoryVars, smbiosVars>>
  BY <1>3, SameRows
     DEF AcpiNext, ProtectSharedArea, FindProtocols, ProtocolMissing, NameNotFound, PatchName,
         CopyOrUninstallFails, InstallFails, SetupDone, NextName, memoryVars
<1>4. CASE UNCHANGED vars
  BY <1>4, SameRows DEF vars, memoryVars
<1> QED
  BY <1>1, <1>2, <1>3, <1>4 DEF Next

(* At the end of the map they are the rows of the class.                   *)
LEMMA AllRows ==
  ASSUME Types, Followed, row = Len(Map) + 1
  PROVE  /\ Range(hobs) = HobRows(phone.map, Mem)
         /\ Range(MemoryDescriptor) = MappedRows(phone.map, Mem)
<1>1. Len(Map) \in Nat /\ DOMAIN Map = 1 .. Len(Map)
  BY PhoneFacts DEF Types, PhoneTypes
<1>2. 1 .. row - 1 = DOMAIN Map
  BY <1>1
<1> QED
  BY <1>2 DEF Followed, HobRows, MappedRows, OfOtherClass, Map

(* MapSound, whatever the device tree says: MemoryPeim hands over the rows *)
(* of the class, each once and in the order of the map, so the memory it   *)
(* hands over is as sound as the map of the port is for a phone of that    *)
(* class, and has the faults listed for the map and no other.              *)
THEOREM MemorySound == TablesSound => (Spec => []MapSound)
<1> SUFFICES ASSUME TablesSound
             PROVE  Spec => []MapSound
  OBVIOUS
<1>1. Init => Types /\ RowsTaken
  BY InitTypes, InitRows
<1>2. Types /\ RowsTaken /\ [Next]_vars => (Types /\ RowsTaken)'
  BY TypesStep, RowsKept
<1>3. Types /\ RowsTaken => MapSound
  <2> SUFFICES ASSUME Types, RowsTaken, pc = "platform"
               PROVE  /\ Followed
                      /\ \A class \in Classes : MemoryTotal = NominalSize[class] => Mem = class
                      /\ RowsSound(phone, Mem, Range(hobs), Range(MemoryDescriptor))
                      /\ Len(MemoryDescriptor) < MAX_ARM_MEMORY_REGION_DESCRIPTOR_COUNT
    BY DEF MapSound
  <2>1. /\ Followed /\ row = Len(Map) + 1
        /\ Len(MemoryDescriptor) = Cardinality(Range(MemoryDescriptor))
    BY DEF RowsTaken, Counted
  <2>2. /\ Range(hobs) = HobRows(phone.map, Mem)
        /\ Range(MemoryDescriptor) = MappedRows(phone.map, Mem)
    BY <2>1, AllRows
  <2>3. phone \in Phones /\ Mem \in Classes
    BY DEF Types, PhoneTypes, MemoryTypes
  <2>4. /\ RowsSound(phone, Mem, HobRows(phone.map, Mem), MappedRows(phone.map, Mem))
        /\ Cardinality(MappedRows(phone.map, Mem)) < MAX_ARM_MEMORY_REGION_DESCRIPTOR_COUNT
    BY <2>3 DEF TablesSound
  <2>5. \A class \in Classes : MemoryTotal = NominalSize[class] => Mem = class
    BY DEF RowsTaken, ClassOf, NominalSize, Classes
  <2> QED
    BY <2>1, <2>2, <2>4, <2>5
<1> QED
  BY <1>1, <1>2, <1>3, PTL DEF Spec

-----------------------------------------------------------------------------
(* Only these ports ask the hypervisor to share the region. *)
Sharing ==
  /\ at = "protect" => phone.soc \in {"sm7125", "sm7325"}
  /\ modem # <<>> => phone.soc \in {"sm7125", "sm7325", "sm8150"}

LEMMA SharingStep ==
  ASSUME Sharing, [Next]_vars
  PROVE  Sharing'
<1>1. CASE MemoryNext /\ UNCHANGED <<smbiosVars, acpiVars>>
  BY <1>1 DEF Sharing, MemoryNext, ReadNode, SelectClass, SkipRow, TakeRow, EndOfMap,
              InstallPlatformHob, acpiVars
<1>2. CASE SmbiosNext /\ UNCHANGED <<memoryVars, acpiVars>>
  BY <1>2 DEF Sharing, SmbiosNext, AddRecord, RefuseRecord, SmbiosDone, acpiVars
<1>3. CASE AcpiNext
  BY <1>3 DEF Sharing, AcpiNext, ProtectSharedArea, FindProtocols, ProtocolMissing, ShareRegion,
              NameNotFound, PatchName, CopyOrUninstallFails, InstallFails, SetupDone, NextName,
              ProtectsLater, acpiVars
<1>4. CASE UNCHANGED vars
  BY <1>4 DEF Sharing, vars, acpiVars
<1> QED
  BY <1>1, <1>2, <1>3, <1>4 DEF Next

(* ModemMemoryReserved, whatever the device tree says and whatever fails:  *)
(* the blocks are the rows of the class and the region is the first row    *)
(* MPSS_EFS of the map, so it is handed out to nobody, is kept by an       *)
(* uncached block for every phone whose class is not said to be left out,  *)
(* and is the one the system is told of.  MemoryPeim,                      *)
(* RFSLocateAndProtectSharedArea and PlatformSetup.                        *)
THEOREM ModemReserved == TablesKeepModem => (Spec => []ModemMemoryReserved)
<1> SUFFICES ASSUME TablesKeepModem
             PROVE  Spec => []ModemMemoryReserved
  OBVIOUS
<1> DEFINE IInv == Types /\ RowsTaken /\ Shared /\ Sharing
<1>1. Init => IInv
  BY InitTypes, InitRows DEF Init, AcpiInitial, Shared, Sharing, ProtectsFirst
<1>2. IInv /\ [Next]_vars => IInv'
  BY TypesStep, RowsKept, SharedStep, SharingStep
<1>3. IInv /\ (modem # <<>> => ModemToldTruly) => ModemMemoryReserved
  <2> SUFFICES ASSUME IInv, pc = "os", modem # <<>>, ModemToldTruly
               PROVE  LET blocks == {Map[hobs[i]] : i \in DOMAIN hobs}
                      IN  /\ HandedToNobody(blocks, modem[1], modem[2])
                          /\ ~ModemLeftOut(phone, Mem) =>
                               KeptUncachedBy(blocks, modem[1], modem[2])
    BY DEF ModemMemoryReserved
  <2> DEFINE blocks == {Map[hobs[i]] : i \in DOMAIN hobs}
             rows == HobRows(phone.map, Mem)
             efs == FirstNamed(phone.map, "MPSS_EFS")
             shared == phone.map[efs]
  <2>1. blocks = {phone.map[i] : i \in rows}
    <3>1. Range(hobs) = rows
      BY AllRows DEF RowsTaken
    <3>2. blocks = {Map[i] : i \in Range(hobs)}
      BY DEF Range
    <3> QED
      BY <3>1, <3>2 DEF Map
  <2>2. efs # 0 /\ modem = <<shared.base, shared.pages>>
    BY DEF Shared, LocateMemoryMapAreaByName, Map
  <2>3. /\ phone \in Phones /\ Mem \in Classes
        /\ phone.soc \in {"sm7125", "sm7325", "sm8150"}
    BY DEF Types, PhoneTypes, MemoryTypes, Sharing
  <2>4. LET told == {phone.map[i] : i \in rows}
        IN  /\ HandedToNobody(told, shared.base, shared.pages)
            /\ ~ModemLeftOut(phone, Mem) => KeptUncachedBy(told, shared.base, shared.pages)
    BY <2>2, <2>3 DEF TablesKeepModem
  <2> HIDE DEF rows, efs, shared, IInv
  <2>5. modem[1] = shared.base /\ modem[2] = shared.pages
    BY <2>2
  <2> QED
    BY <2>1, <2>4, <2>5
<1> QED
  BY <1>1, <1>2, <1>3, SharedIsTold, PTL DEF Spec

-----------------------------------------------------------------------------
(* LeadsTo for a record the port has. *)
LeadsIn(h, name, records, refusals) ==
  name \in refusals \/ (h \in Nat /\ h < Len(records) /\ records[h + 1].name = name)

(* The fields written so far lead to the records they are named for, those *)
(* of the templates and those of the records added; and while nothing was  *)
(* refused the records are those of the script.                            *)
Copied ==
  \A j \in 1 .. step : \A x \in Script[j].sets :
    x \in DOMAIN field /\ LeadsIn(field[x], Script[j].record, table, refused)

Meant ==
  \A i \in DOMAIN table : \A need \in Needs(RecordOf(phone.soc, table[i].name), Logged) :
    need[2] \in Logged => LeadsIn(table[i].refs[need[1]], need[2], table, refused)

Scripted ==
  refused = {} =>
    Len(table) = step /\ \A i \in 1 .. step : table[i].name = Script[i].record

RecordInv == step <= Len(Script) /\ Copied /\ Meant /\ Scripted

LEMMA NeedsFields ==
  ASSUME NEW record, NEW logged, NEW need \in Needs(record, logged)
  PROVE  need[1] \in HandleFields
  BY DEF Needs, HandleFields

(* The records and the refusals only grow. *)
LEMMA LeadsGrows ==
  ASSUME Len(table) \in Nat, Len(table') \in Nat, Len(table) <= Len(table'),
         \A i \in 1 .. Len(table) : table'[i] = table[i],
         refused \subseteq refused'
  PROVE  \A h, name : LeadsIn(h, name, table, refused) => LeadsIn(h, name, table', refused')
  BY DEF LeadsIn

LEMMA InitRecords ==
  ASSUME Init
  PROVE  RecordInv
<1>1. step = 0 /\ table = <<>> /\ Len(table) = 0 /\ phone \in Phones
  BY DEF Init, PhoneInit, SmbiosInitial
<1>2. Len(Script) \in Nat
  BY <1>1, ScriptFramed
<1>3. DOMAIN table = {} /\ 1 .. step = {}
  BY <1>1
<1> QED
  BY <1>1, <1>2, <1>3 DEF RecordInv, Copied, Meant, Scripted

LEMMA SameRecords ==
  ASSUME RecordInv, phone' = phone, UNCHANGED smbiosVars
  PROVE  RecordInv'
<1>1. Script' = Script /\ Logged' = Logged
  BY DEF Script, Logged, LoggedBy
<1>2. UNCHANGED <<step, handle, field, table, refused>>
  BY DEF smbiosVars
<1>3. Copied'
  BY <1>1, <1>2 DEF RecordInv, Copied
<1>4. Meant'
  BY <1>1, <1>2 DEF RecordInv, Meant
<1> QED
  BY <1>1, <1>2, <1>3, <1>4 DEF RecordInv, Scripted

(* A step of the script leaves a handle h in the fields it writes.  Other  *)
(* steps that write them are for the same record, in a sound script.       *)
LEMMA FieldsLead ==
  ASSUME ScriptsSound, phone \in Phones, phone' = phone, Copied, step \in Nat, step' = step + 1,
         step + 1 \in DOMAIN Script, DOMAIN Script = 1 .. Len(Script), Len(Script) \in Nat,
         NEW h, CopyHandle(Current, h), LeadsIn(h, Current.record, table', refused'),
         \A g, name : LeadsIn(g, name, table, refused) => LeadsIn(g, name, table', refused')
  PROVE  Copied'
<1>1. Script' = Script
  BY DEF Script
<1>2. SUFFICES ASSUME NEW j \in 1 .. step + 1, NEW x \in Script[j].sets
               PROVE  x \in DOMAIN field' /\ LeadsIn(field'[x], Script[j].record, table', refused')
  BY <1>1 DEF Copied
<1>3. /\ DOMAIN field' = Current.sets \cup DOMAIN field
      /\ \A f \in DOMAIN field' : field'[f] = IF f \in Current.sets THEN h ELSE field[f]
  BY DEF CopyHandle
<1>4. CASE x \in Current.sets
  <2>1. \A i, k \in DOMAIN Script :
          Script[i].sets \cap Script[k].sets /= {} => Script[i].record = Script[k].record
    BY DEF ScriptsSound, ScriptSound, Script
  <2>2. j \in DOMAIN Script
    OBVIOUS
  <2>3. Script[j].record = Current.record
    BY <1>4, <2>1, <2>2 DEF Current
  <2> QED
    BY <1>3, <1>4, <2>3
<1>5. CASE x \notin Current.sets
  <2>1. j \in 1 .. step
    BY <1>5 DEF Current
  <2>2. x \in DOMAIN field /\ LeadsIn(field[x], Script[j].record, table, refused)
    BY <2>1 DEF Copied
  <2> QED
    BY <1>3, <1>5, <2>2
<1> QED
  BY <1>4, <1>5

LEMMA RecordStep ==
  ASSUME ScriptsSound, PhoneTypes, SmbiosTypes, RecordInv, AddRecord \/ RefuseRecord
  PROVE  RecordInv'
<1> DEFINE AddedRows == [name : Logged, refs : [HandleFields -> HandlesBy(step)]]
           added == [name |-> Current.record, refs |-> RefsOf(Current.record)]
<1>1. /\ phone' = phone /\ phone \in Phones /\ step \in Nat /\ step' = step + 1
      /\ step + 1 \in DOMAIN Script /\ DOMAIN Script = 1 .. Len(Script) /\ Len(Script) \in Nat
  BY ScriptFramed DEF PhoneTypes, SmbiosTypes, AddRecord, RefuseRecord, AtRecord
<1>2. Script' = Script /\ Logged' = Logged
  BY <1>1 DEF Script, Logged, LoggedBy
<1>3. step' <= Len(Script')
  BY <1>1, <1>2
<1>4. table \in Seq(AddedRows) /\ Len(table) \in Nat /\ DOMAIN table = 1 .. Len(table)
  <2>1. table \in Seq(AddedRows)
    BY DEF SmbiosTypes
  <2> HIDE DEF AddedRows
  <2> QED
    BY <2>1
<1> HIDE DEF AddedRows
<1>5. CASE AddRecord
  <2>1. /\ table' = Append(table, added) /\ refused' = refused /\ CopyHandle(Current, Len(table))
    BY <1>5 DEF AddRecord
  <2>2. added.name = Current.record /\ added.refs = RefsOf(Current.record)
    OBVIOUS
  <2> HIDE DEF added
  <2>3. /\ Len(table') = Len(table) + 1 /\ DOMAIN table' = 1 .. Len(table) + 1
        /\ table'[Len(table) + 1] = added
        /\ \A i \in 1 .. Len(table) : table'[i] = table[i]
    <3>1. table \in Seq(AddedRows \cup {added})
      BY <1>4
    <3> QED
      BY <2>1, <3>1
  <2>4. \A g, name : LeadsIn(g, name, table, refused) => LeadsIn(g, name, table', refused')
    BY <1>4, <2>1, <2>3, LeadsGrows
  <2>5. LeadsIn(Len(table), Current.record, table', refused')
    BY <1>4, <2>2, <2>3 DEF LeadsIn
  <2>6. Copied'
    BY <1>1, <2>1, <2>4, <2>5, FieldsLead DEF RecordInv
  <2>7. ASSUME NEW need \in Needs(RecordOf(phone.soc, Current.record), Logged), need[2] \in Logged
        PROVE  LeadsIn(added.refs[need[1]], need[2], table', refused')
    <3> DEFINE x == <<Current.record, need[1]>>
               records == [i \in DOMAIN Script |-> RecordOf(phone.soc, Script[i].record)]
    <3>1. \A k \in DOMAIN Script : \A n \in Needs(records[k], Logged) :
            n[2] \in Logged =>
              \E j \in 1 .. k - 1 : /\ Script[j].record = n[2]
                                    /\ <<Script[k].record, n[1]>> \in Script[j].sets
      BY <1>1 DEF ScriptsSound, ScriptSound, Script, Logged
    <3>2. records[step + 1] = RecordOf(phone.soc, Current.record)
      BY <1>1 DEF Current
    <3> HIDE DEF records
    <3>3. PICK j \in 1 .. step : Script[j].record = need[2] /\ x \in Script[j].sets
      BY <1>1, <2>7, <3>1, <3>2 DEF Current
    <3>4. x \in DOMAIN field /\ LeadsIn(field[x], need[2], table, refused)
      BY <3>3 DEF RecordInv, Copied
    <3>5. added.refs[need[1]] = field[x]
      BY <2>2, <3>4, NeedsFields DEF RefsOf, HandleFields
    <3> QED
      BY <2>4, <3>4, <3>5
  <2>8. Meant'
    <3>1. SUFFICES ASSUME NEW i \in 1 .. Len(table) + 1,
                          NEW need \in Needs(RecordOf(phone.soc, table'[i].name), Logged),
                          need[2] \in Logged
                   PROVE  LeadsIn(table'[i].refs[need[1]], need[2], table', refused')
      BY <1>1, <1>2, <2>3 DEF Meant
    <3>2. CASE i = Len(table) + 1
      BY <2>2, <2>3, <2>7, <3>1, <3>2
    <3>3. CASE i # Len(table) + 1
      <4>1. i \in DOMAIN table /\ table'[i] = table[i]
        BY <1>4, <2>3, <3>3
      <4>2. LeadsIn(table[i].refs[need[1]], need[2], table, refused)
        BY <3>1, <4>1 DEF RecordInv, Meant
      <4> QED
        BY <2>4, <4>1, <4>2
    <3> QED
      BY <3>2, <3>3
  <2>9. Scripted'
    <3>1. SUFFICES ASSUME refused = {}
                   PROVE  /\ Len(table') = step + 1
                          /\ \A i \in 1 .. step + 1 : table'[i].name = Script[i].record
      BY <1>1, <1>2, <2>1 DEF Scripted
    <3>2. Len(table) = step /\ \A i \in 1 .. step : table[i].name = Script[i].record
      BY <3>1 DEF RecordInv, Scripted
    <3>3. 1 .. step + 1 = 1 .. step \cup {step + 1}
      BY <1>1
    <3> QED
      BY <2>2, <2>3, <3>2, <3>3 DEF Current
  <2> QED
    BY <1>3, <2>6, <2>8, <2>9 DEF RecordInv
<1>6. CASE RefuseRecord
  <2>1. /\ table' = table /\ refused' = refused \cup {Current.record}
        /\ \E h \in IF handle[Current.frame] = Unset THEN StrayHandles
                    ELSE {handle[Current.frame]} : CopyHandle(Current, h)
    BY <1>6 DEF RefuseRecord
  <2>2. PICK h : CopyHandle(Current, h)
    BY <2>1
  <2>3. \A g, name : LeadsIn(g, name, table, refused) => LeadsIn(g, name, table', refused')
    BY <2>1 DEF LeadsIn
  <2>4. LeadsIn(h, Current.record, table', refused')
    BY <2>1 DEF LeadsIn
  <2>5. Copied'
    BY <1>1, <2>2, <2>3, <2>4, FieldsLead DEF RecordInv
  <2>6. Meant'
    BY <1>1, <1>2, <2>1, <2>3 DEF RecordInv, Meant
  <2>7. Scripted'
    BY <2>1 DEF Scripted
  <2> QED
    BY <1>3, <2>5, <2>6, <2>7 DEF RecordInv
<1> QED
  BY <1>5, <1>6

LEMMA RecordsKept ==
  ASSUME ScriptsSound, Types, RecordInv, [Next]_vars
  PROVE  RecordInv'
<1>1. CASE MemoryNext /\ UNCHANGED <<smbiosVars, acpiVars>>
  BY <1>1, SameRecords
     DEF MemoryNext, ReadNode, SelectClass, SkipRow, TakeRow, EndOfMap, InstallPlatformHob
<1>2. CASE SmbiosNext
  BY <1>2, RecordStep, SameRecords DEF SmbiosNext, SmbiosDone, Types
<1>3. CASE AcpiNext /\ UNCHANGED <<memoryVars, smbiosVars>>
  BY <1>3, SameRecords
     DEF AcpiNext, ProtectSharedArea, FindProtocols, ProtocolMissing, NameNotFound, PatchName,
         CopyOrUninstallFails, InstallFails, SetupDone, NextName
<1>4. CASE UNCHANGED vars
  BY <1>4, SameRecords DEF vars
<1> QED
  BY <1>1, <1>2, <1>3, <1>4 DEF Next

LEMMA RecordsGive ==
  ASSUME ScriptsSound, Types, RecordInv
  PROVE  RecordsSound
<1> DEFINE script == Script
           logged == Logged
           added == [i \in DOMAIN table |-> RecordOf(phone.soc, table[i].name)]
           records == [i \in DOMAIN script |-> RecordOf(phone.soc, script[i].record)]
           AddedRows == [name : logged, refs : [HandleFields -> HandlesBy(step)]]
<1>1. SUFFICES ASSUME step = Len(script)
               PROVE  /\ \A i \in DOMAIN table :
                           /\ HandlesSound(added[i], table[i].refs, logged)
                           /\ StringsSound(added[i])
                      /\ refused = {} => EightCores(added)
  BY DEF RecordsSound
<1>2. phone \in Phones /\ table \in Seq(AddedRows) /\ step \in Nat
  BY DEF Types, PhoneTypes, SmbiosTypes
<1>3. /\ \A k \in DOMAIN script : StringsSound(records[k])
      /\ EightCores(records)
  BY <1>2 DEF ScriptsSound, ScriptSound, Script
<1>4. DOMAIN script = 1 .. Len(script)
  BY <1>2, ScriptFramed
<1>5. ASSUME NEW i \in DOMAIN table
      PROVE  HandlesSound(added[i], table[i].refs, logged) /\ StringsSound(added[i])
  <2>1. table[i].name \in logged
    <3> HIDE DEF logged
    <3>1. \A r \in AddedRows : r.name \in logged
      OBVIOUS
    <3> HIDE DEF AddedRows
    <3>2. table[i] \in AddedRows
      BY <1>2
    <3> QED
      BY <3>1, <3>2
  <2>2. PICK k \in DOMAIN script : script[k].record = table[i].name
    BY <2>1 DEF Logged, LoggedBy
  <2>3. added[i] = RecordOf(phone.soc, table[i].name) /\ added[i] = records[k]
    BY <2>2
  <2> HIDE DEF added, records, script, logged
  <2>4. StringsSound(added[i])
    BY <1>3, <2>3
  <2>5. ASSUME NEW need \in Needs(added[i], logged)
        PROVE  LeadsTo(table[i].refs[need[1]], need[2], logged)
    BY <2>3, <2>5 DEF RecordInv, Meant, LeadsIn, LeadsTo, logged
  <2> QED
    BY <2>4, <2>5 DEF HandlesSound
<1>6. ASSUME refused = {}
      PROVE  EightCores(added)
  <2>1. Len(table) = step /\ \A i \in 1 .. step : table[i].name = script[i].record
    BY <1>6 DEF RecordInv, Scripted
  <2>2. DOMAIN table = 1 .. Len(table)
    <3> HIDE DEF AddedRows
    <3> QED
      BY <1>2
  <2>3. DOMAIN table = DOMAIN script
    BY <1>1, <1>4, <2>1, <2>2
  <2> HIDE DEF script
  <2>4. added = records
    BY <1>1, <1>4, <2>1, <2>3
  <2> HIDE DEF added, records
  <2> QED
    BY <1>3, <2>4
<1> QED
  BY <1>5, <1>6

(* RecordsSound, whichever of the records are refused and whatever a       *)
(* handle variable holds that nobody wrote: when the script of the port    *)
(* adds a record before those that name it and copies its handle to them,  *)
(* every handle leads to the record it is named for, or that one was       *)
(* refused.  LogSmbiosData and PlatformSmbiosDriverEntryPoint.             *)
THEOREM RecordsTellOneStory == ScriptsSound => (Spec => []RecordsSound)
<1> SUFFICES ASSUME ScriptsSound
             PROVE  Spec => []RecordsSound
  OBVIOUS
<1>1. Init => Types /\ RecordInv
  BY InitTypes, InitRecords
<1>2. Types /\ RecordInv /\ [Next]_vars => (Types /\ RecordInv)'
  BY TypesStep, RecordsKept
<1>3. Types /\ RecordInv => RecordsSound
  BY RecordsGive
<1> QED
  BY <1>1, <1>2, <1>3, PTL DEF Spec
=============================================================================

---------------------------- MODULE SmbiosTables ----------------------------
(***************************************************************************)
(* What the ports say of their processors, caches and memory: the record   *)
(* templates of every SOCSmbiosInfo.c, and the order in which its          *)
(* RegisterSOCSmbiosInfo adds them.  Of a template are kept its name, the  *)
(* strings it numbers (and how many its pack has), its cores, and for a    *)
(* cache its level and kind; speeds, sizes and the fields that say         *)
(* "unknown" are left out.                                                 *)
(***************************************************************************)
EXTENDS Sequences, TLC

Template(name) ==
  [name |-> name, strings |-> {}, part |-> 0, pack |-> 0, cores |-> 0,
   cluster |-> "none", level |-> 0, kind |-> "none"]

(* TYPE4: strings 1 to 3 are its socket, manufacturer and version.  The    *)
(* cluster is the one whose caches it is to be given.                      *)
Processor(core, cluster, cores, part, pack) ==
  [strings |-> {1, 2, 3}, part |-> part, pack |-> pack, cores |-> cores, cluster |-> cluster]
  @@ Template(<<"core", core>>)

(* TYPE7: the strings are "L1 Instruction", "L1 Data" and "L2".  The level *)
(* is that of CacheConfiguration, bits 0 to 2.                             *)
Cache(name, string, level, kind) ==
  [strings |-> {string}, pack |-> 3, level |-> level, kind |-> kind] @@ Template(name)

InstructionCaches(fast, slow) ==
  <<Cache(<<"L1I", fast>>, 1, 1, "instruction"), Cache(<<"L1I", slow>>, 1, 1, "instruction")>>

DataCaches(fast, slow) ==
  <<Cache(<<"L1D", fast>>, 2, 1, "data"), Cache(<<"L1D", slow>>, 2, 1, "data")>>

UnifiedCaches(fast, slow) ==
  <<Cache(<<"L2", fast>>, 3, 2, "unified"), Cache(<<"L2", slow>>, 3, 2, "unified")>>

SharedCache == <<Cache(<<"L2", "all">>, 3, 2, "unified")>>

(* TYPE17: strings 1 and 2 are its locator and its bank, and 2 also its    *)
(* manufacturer.                                                           *)
MemoryDevice == <<[strings |-> {1, 2}, pack |-> 2] @@ Template(<<"memory", "device">>)>>

(***************************************************************************)
(* A step of a registration: LogSmbiosData is called for the record; if it *)
(* is given the variable SmbiosHandle, keep holds and the variable is then *)
(* copied to the fields of sets.                                           *)
(***************************************************************************)
Log(record) == [record |-> record, keep |-> FALSE, sets |-> {}]

LogTo(record, sets) == [record |-> record, keep |-> TRUE, sets |-> sets]

Fields(cores, field) == {<<<<"core", cores[i]>>, field>> : i \in DOMAIN cores}

LogCores(cores) == [i \in DOMAIN cores |-> Log(<<"core", cores[i]>>)]

(* The two clusters have caches of their own; the cores of fast share one  *)
(* set of records.                                                         *)
Clusters(fast, fastCores, slow) ==
  <<Log(<<"L1I", fast>>), Log(<<"L1I", slow>>),
    LogTo(<<"L1D", fast>>, Fields(fastCores, "L1CacheHandle")),
    LogTo(<<"L1D", slow>>, Fields(<<slow>>, "L1CacheHandle")),
    LogTo(<<"L2", fast>>, Fields(fastCores, "L2CacheHandle")),
    LogTo(<<"L2", slow>>, Fields(<<slow>>, "L2CacheHandle"))>>
  \o LogCores(fastCores) \o LogCores(<<slow>>) \o <<Log(<<"memory", "device">>)>>

(* The newest SoCs: a single cache record, and no L1 handle is set.        *)
OneCache(cores) ==
  <<LogTo(<<"L2", "all">>, Fields(cores, "L2CacheHandle"))>>
  \o LogCores(cores) \o <<Log(<<"memory", "device">>)>>

-----------------------------------------------------------------------------
msm8998Processors == <<Processor("a73", "a73", 4, 7, 3), Processor("a53", "a53", 4, 6, 3)>>
msm8998L1I == InstructionCaches("a73", "a53")
msm8998L1D == DataCaches("a73", "a53")
msm8998L2 == UnifiedCaches("a73", "a53")
msm8998Register == Clusters("a73", <<"a73">>, "a53")
msm8998Memory == MemoryDevice

sdm660Processors == <<Processor("a73", "a73", 4, 7, 3), Processor("a53", "a53", 4, 6, 3)>>
sdm660L1I == InstructionCaches("a73", "a53")
sdm660L1D == DataCaches("a73", "a53")
sdm660L2 == UnifiedCaches("a73", "a53")
sdm660Register == Clusters("a73", <<"a73">>, "a53")
sdm660Memory == MemoryDevice

sdm670Processors == <<Processor("a75", "a75", 2, 7, 3), Processor("a55", "a55", 6, 6, 3)>>
sdm670L1I == InstructionCaches("a75", "a55")
sdm670L1D == DataCaches("a75", "a55")
sdm670L2 == UnifiedCaches("a75", "a55")
sdm670Register == Clusters("a75", <<"a75">>, "a55")
sdm670Memory == MemoryDevice

sdm845Processors == <<Processor("a75", "a75", 4, 7, 3), Processor("a55", "a55", 4, 6, 3)>>
sdm845L1I == InstructionCaches("a75", "a55")
sdm845L1D == DataCaches("a75", "a55")
sdm845L2 == UnifiedCaches("a75", "a55")
sdm845Register == Clusters("a75", <<"a75">>, "a55")
sdm845Memory == MemoryDevice

sm6225Processors == <<Processor("a73", "a73", 4, 7, 3), Processor("a53", "a53", 4, 6, 3)>>
sm6225L1I == InstructionCaches("a73", "a53")
sm6225L1D == DataCaches("a73", "a53")
sm6225L2 == UnifiedCaches("a73", "a53")
sm6225Register == Clusters("a73", <<"a73">>, "a53")
sm6225Memory == MemoryDevice

sm6375Processors == <<Processor("a73", "a73", 4, 7, 3), Processor("a53", "a53", 4, 6, 3)>>
sm6375L1I == InstructionCaches("a73", "a53")
sm6375L1D == DataCaches("a73", "a53")
sm6375L2 == UnifiedCaches("a73", "a53")
sm6375Register == Clusters("a73", <<"a73">>, "a53")
sm6375Memory == MemoryDevice

sm7125Processors == <<Processor("a76", "a76", 2, 7, 3), Processor("a55", "a55", 6, 6, 3)>>
sm7125L1I == InstructionCaches("a76", "a55")
sm7125L1D == DataCaches("a76", "a55")
sm7125L2 == UnifiedCaches("a76", "a55")
sm7125Register == Clusters("a76", <<"a76">>, "a55")
sm7125Memory == MemoryDevice

sm7150Processors == <<Processor("a76", "a76", 2, 7, 3), Processor("a55", "a55", 6, 6, 3)>>
sm7150L1I == InstructionCaches("a76", "a55")
sm7150L1D == DataCaches("a76", "a55")
sm7150L2 == UnifiedCaches("a76", "a55")
sm7150Register == Clusters("a76", <<"a76">>, "a55")
sm7150Memory == MemoryDevice

sm7325Processors == <<Processor("a78_big", "a78", 1, 7, 3), Processor("a78", "a78", 3, 7, 3)>>
sm7325MoreProcessors == <<Processor("a55", "a55", 4, 6, 3)>>
sm7325L1I == InstructionCaches("a78", "a55")
sm7325L1D == DataCaches("a78", "a55")
sm7325L2 == UnifiedCaches("a78", "a55")
sm7325Register == Clusters("a78", <<"a78_big", "a78">>, "a55")
sm7325Memory == MemoryDevice

sm8150Processors == <<Processor("a76_big", "a76", 1, 7, 3), Processor("a76", "a76", 3, 7, 3)>>
sm8150MoreProcessors == <<Processor("a55", "a55", 4, 6, 3)>>
sm8150L1I == InstructionCaches("a76", "a55")
sm8150L1D == DataCaches("a76", "a55")
sm8150L2 == UnifiedCaches("a76", "a55")
sm8150Register == Clusters("a76", <<"a76_big", "a76">>, "a55")
sm8150Memory == MemoryDevice

sm8250Processors == <<Processor("a77_big", "a77", 1, 7, 3), Processor("a77", "a77", 3, 7, 3)>>
sm8250MoreProcessors == <<Processor("a55", "a55", 4, 6, 3)>>
sm8250L1I == InstructionCaches("a77", "a55")
sm8250L1D == DataCaches("a77", "a55")
sm8250L2 == UnifiedCaches("a77", "a55")
sm8250Register == Clusters("a77", <<"a77_big", "a77">>, "a55")
sm8250Memory == MemoryDevice

sm8350Processors == <<Processor("x1", "a78", 1, 7, 3), Processor("a78", "a78", 3, 7, 3)>>
sm8350MoreProcessors == <<Processor("a55", "a55", 4, 6, 3)>>
sm8350L1I == InstructionCaches("a78", "a55")
sm8350L1D == DataCaches("a78", "a55")
sm8350L2 == UnifiedCaches("a78", "a55")
sm8350Register == Clusters("a78", <<"x1", "a78">>, "a55")
sm8350Memory == MemoryDevice

sm8475Processors == <<Processor("x2", "all", 1, 7, 3), Processor("a710", "all", 3, 6, 3)>>
sm8475MoreProcessors == <<Processor("a510", "all", 4, 5, 3)>>
sm8475L2 == SharedCache
sm8475Register == OneCache(<<"x2", "a710", "a510">>)
sm8475Memory == MemoryDevice

sm8550Processors == <<Processor("x3", "all", 1, 7, 3), Processor("a715", "all", 2, 7, 3)>>
sm8550MoreProcessors == <<Processor("a710", "all", 2, 6, 3),
                          Processor("a510", "all", 3, 6, 3)>>
sm8550L2 == SharedCache
sm8550Register == OneCache(<<"x3", "a715", "a710", "a510">>)
sm8550Memory == MemoryDevice

sm8650Processors == <<Processor("x4", "all", 1, 7, 8), Processor("a720_hi", "all", 3, 6, 8),
                      Processor("a720_lo", "all", 2, 5, 8),
                      Processor("a520", "all", 2, 4, 8)>>
sm8650L2 == SharedCache
sm8650Register == OneCache(<<"x4", "a720_hi", "a720_lo", "a520">>)
sm8650Memory == MemoryDevice

-----------------------------------------------------------------------------
(* The SoCs with a SOCSmbiosInfoLib. *)
Socs == {"msm8998", "sdm660", "sdm670", "sdm845", "sm6225", "sm6375", "sm7125", "sm7150",
         "sm7325", "sm8150", "sm8250", "sm8350", "sm8475", "sm8550", "sm8650"}

(* What a port adds, step by step.                                         *)
RegisterSOCSmbiosInfo(soc) ==
  CASE soc = "msm8998" -> msm8998Register
    [] soc = "sdm660" -> sdm660Register
    [] soc = "sdm670" -> sdm670Register
    [] soc = "sdm845" -> sdm845Register
    [] soc = "sm6225" -> sm6225Register
    [] soc = "sm6375" -> sm6375Register
    [] soc = "sm7125" -> sm7125Register
    [] soc = "sm7150" -> sm7150Register
    [] soc = "sm7325" -> sm7325Register
    [] soc = "sm8150" -> sm8150Register
    [] soc = "sm8250" -> sm8250Register
    [] soc = "sm8350" -> sm8350Register
    [] soc = "sm8475" -> sm8475Register
    [] soc = "sm8550" -> sm8550Register
    [] soc = "sm8650" -> sm8650Register

(* The templates it draws on. *)
SocRecords(soc) ==
  CASE soc = "msm8998" ->
         msm8998Processors \o msm8998L1I \o msm8998L1D
         \o msm8998L2 \o msm8998Memory
    [] soc = "sdm660" ->
         sdm660Processors \o sdm660L1I \o sdm660L1D \o sdm660L2 \o sdm660Memory
    [] soc = "sdm670" ->
         sdm670Processors \o sdm670L1I \o sdm670L1D \o sdm670L2 \o sdm670Memory
    [] soc = "sdm845" ->
         sdm845Processors \o sdm845L1I \o sdm845L1D \o sdm845L2 \o sdm845Memory
    [] soc = "sm6225" ->
         sm6225Processors \o sm6225L1I \o sm6225L1D \o sm6225L2 \o sm6225Memory
    [] soc = "sm6375" ->
         sm6375Processors \o sm6375L1I \o sm6375L1D \o sm6375L2 \o sm6375Memory
    [] soc = "sm7125" ->
         sm7125Processors \o sm7125L1I \o sm7125L1D \o sm7125L2 \o sm7125Memory
    [] soc = "sm7150" ->
         sm7150Processors \o sm7150L1I \o sm7150L1D \o sm7150L2 \o sm7150Memory
    [] soc = "sm7325" ->
         sm7325Processors \o sm7325MoreProcessors \o sm7325L1I \o sm7325L1D
         \o sm7325L2 \o sm7325Memory
    [] soc = "sm8150" ->
         sm8150Processors \o sm8150MoreProcessors \o sm8150L1I \o sm8150L1D
         \o sm8150L2 \o sm8150Memory
    [] soc = "sm8250" ->
         sm8250Processors \o sm8250MoreProcessors \o sm8250L1I \o sm8250L1D
         \o sm8250L2 \o sm8250Memory
    [] soc = "sm8350" ->
         sm8350Processors \o sm8350MoreProcessors \o sm8350L1I \o sm8350L1D
         \o sm8350L2 \o sm8350Memory
    [] soc = "sm8475" ->
         sm8475Processors \o sm8475MoreProcessors \o sm8475L2 \o sm8475Memory
    [] soc = "sm8550" ->
         sm8550Processors \o sm8550MoreProcessors \o sm8550L2 \o sm8550Memory
    [] soc = "sm8650" ->
         sm8650Processors \o sm8650L2 \o sm8650Memory

=============================================================================

--------------------------- MODULE MCPlatformStart ---------------------------
(***************************************************************************)
(* PlatformStart on every port: each map with the heap of its SoC; for the *)
(* ports whose rows depend on the memory class, phones of several sizes,   *)
(* some with two memory nodes and some of a size no class is for; and with *)
(* DSDTs that have all the names, or not all of them.                      *)
(***************************************************************************)
EXTENDS PlatformStart, MemoryTables

(* The sm8150 maps, by what the .dsc of the device defines.                *)
plainMap == sm8150Map({})
nabuMap == sm8150Map({"MEMMAP_XIAOMI_HACKS"})
betalmMap == sm8150Map({"MEMMAP_LG_HACKS"})
mh2lm5gMap == sm8150Map({"MEMMAP_LG_HACKS", "HAS_MLVM"})

(* PcdUefiMemPoolBase and PcdUefiMemPoolSize, in pages.                    *)
Heaps ==
  [msm8998 |-> <<\hA0000, \h2E000>>, sdm660 |-> <<\hA0000, \h2E000>>,
   sdm670 |-> <<\hA0000, \h2E000>>, sdm845 |-> <<\hA0000, \h2E000>>,
   sm6225 |-> <<\h63900, \hE000>>, sm6375 |-> <<\h63900, \hE000>>,
   sm7125 |-> <<\hA1200, \h1B700>>, sm7150 |-> <<\hC0000, \hE000>>,
   sm7325 |-> <<\hB0400, \h9300>>, sm8150 |-> <<\hC0300, \h4230>>,
   sm8250 |-> <<\hC0000, \hE000>>, sm8350 |-> <<\hA0000, \hEB00>>,
   sm8475 |-> <<\hA0000, \hEB00>>, sm8550 |-> <<\hA0000, \hEB00>>,
   sm8650 |-> <<\hA0000, \hEB00>>]

Ports ==
  {<<soc, soc>> : soc \in DOMAIN Heaps \ {"msm8998", "sm8250"}}
  \cup {<<map, "sm8150">> : map \in {"nabu", "betalm", "mh2lm5g"}}
  \cup {<<map, "msm8998">> : map \in {"mata", "wahoo", "walleye", "joan", "nx563j",
                                       "cheeseburger", "dumpling", "sagit"}}
  \cup {<<map, "sm8250">> : map \in {"j716f", "tb_9707f", "tb371fc", "instantnoodlep", "r8q",
                                      "alioth", "apollo", "elish", "lmi", "pipa"}}

MapOf(name) ==
  CASE name = "sdm660" -> sdm660Map
    [] name = "sdm670" -> sdm670Map
    [] name = "sdm845" -> sdm845Map
    [] name = "sm6225" -> sm6225Map
    [] name = "sm6375" -> sm6375Map
    [] name = "sm7125" -> sm7125Map
    [] name = "sm7150" -> sm7150Map
    [] name = "sm7325" -> sm7325Map
    [] name = "sm8350" -> sm8350Map
    [] name = "sm8475" -> sm8475Map
    [] name = "sm8550" -> sm8550Map
    [] name = "sm8650" -> sm8650Map
    [] name = "mata" -> mataMap
    [] name = "wahoo" -> wahooMap
    [] name = "walleye" -> walleyeMap
    [] name = "joan" -> joanMap
    [] name = "nx563j" -> nx563jMap
    [] name = "cheeseburger" -> cheeseburgerMap
    [] name = "dumpling" -> dumplingMap
    [] name = "sagit" -> sagitMap
    [] name = "j716f" -> j716fMap
    [] name = "tb_9707f" -> tb_9707fMap
    [] name = "tb371fc" -> tb371fcMap
    [] name = "instantnoodlep" -> instantnoodlepMap
    [] name = "r8q" -> r8qMap
    [] name = "alioth" -> aliothMap
    [] name = "apollo" -> apolloMap
    [] name = "elish" -> elishMap
    [] name = "lmi" -> lmiMap
    [] name = "pipa" -> pipaMap
    [] name = "sm8150" -> plainMap
    [] name = "nabu" -> nabuMap
    [] name = "betalm" -> betalmMap
    [] name = "mh2lm5g" -> mh2lm5gMap

AllNames ==
  {"SOID", "STOR", "SIDV", "SVMJ", "SVMI", "SDFE", "SIDM", "SUFS", "PUS3", "SUS3", "SIDT",
   "SJTG", "SOSN", "PLST", "EMUL", "RMTB", "RMTX", "RFMB", "RFMS", "RFAB", "RFAS", "TPMA",
   "TDTV", "TCMA", "TCML", "SOSI", "PRP0", "PRP1", "PRP2", "PRP3", "SIDS"}

PhoneOf(port, nodes, names) ==
  [port |-> port[1], map |-> MapOf(port[1]), soc |-> port[2], heap |-> Heaps[port[2]],
   nodes |-> nodes, names |-> names]

Sizes == {<<3072>>, <<4096>>, <<2048, 2048>>, <<3072, 3072>>, <<8192>>, <<4096, 6144>>, <<12288>>}

(* A map of each kind with rows that depend on the class.                  *)
SizeMatters(port) ==
  port[1] \in {"sdm660", "sdm845", "sm8150", "nabu", "betalm", "mh2lm5g", "mata", "wahoo"}

AllPhones ==
  {PhoneOf(port, <<6144>>, AllNames) : port \in Ports}
  \cup {PhoneOf(port, nodes, AllNames \ {"PLST", "RMTX", "SIDS"}) :
          port \in {p \in Ports : SizeMatters(p)}, nodes \in Sizes}

(* The maps and the records of all ports are such tables, for a phone of   *)
(* every class.                                                            *)
ASSUME PortTables == TablesSound /\ TablesKeepModem /\ ScriptsSound

(* No exception is idle: every listed pair is in the table of the MMU of   *)
(* every phone of the port and overlaps, and the heap and the region of    *)
(* the modem have no block where they are said to be left out.             *)
ASSUME ExceptionsAreReal ==
  \A p \in Phones, class \in Classes :
    /\ \A pair \in ListedOverlaps(p) :
         \E i, j \in MappedRows(p.map, class) :
           i /= j /\ {p.map[i].base, p.map[j].base} = pair /\ Overlap(p.map[i], p.map[j])
    /\ HeapLeftOut(p, class) => ~HeapFree(p, HobRows(p.map, class))
    /\ ModemLeftOut(p, class) =>
         \A i \in HobRows(p.map, class) : p.map[i].name /= "MPSS_EFS"

=============================================================================

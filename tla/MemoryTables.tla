---------------------------- MODULE MemoryTables ----------------------------
(***************************************************************************)
(* The memory maps of the ports: gDeviceMemoryDescriptorEx of every        *)
(* PlatformMemoryMapLib.c, row by row and in the order of the source.      *)
(* Addresses and lengths are in pages of 4 KiB (every row is a whole       *)
(* number of pages).  The ResourceAttribute column and the names that      *)
(* nothing looks up are left out, and so is the terminator of length 0:    *)
(* the end of the sequence stands for it.                                  *)
(***************************************************************************)
EXTENDS Sequences, TLC

(***************************************************************************)
(* What a row is: its HobOption, ResourceType, MemoryType, ArmAttributes.  *)
(* WRITE_BACK and WRITE_BACK_XN are one attribute, as are the two names of *)
(* UNCACHED_UNBUFFERED.                                                    *)
(***************************************************************************)
Kind(option, resource, type, attr) ==
  [option |-> option, resource |-> resource, type |-> type, attr |-> attr]

Free == Kind("AddMem", "SYS_MEM", "Conv", "back")
Boot == Kind("AddMem", "SYS_MEM", "BsData", "back")
Kept == Kind("AddMem", "SYS_MEM", "Reserv", "back")
KeptUncached == Kind("AddMem", "SYS_MEM", "Reserv", "uncached")
KeptDevice == Kind("AddMem", "SYS_MEM", "Reserv", "device")
Runtime == Kind("AddMem", "SYS_MEM", "RtData", "back")
RuntimeCode == Kind("AddMem", "SYS_MEM", "RtCode", "back")
RuntimeUncached == Kind("AddMem", "SYS_MEM", "RtData", "uncached")
Carved == Kind("AddMem", "MEM_RES", "Reserv", "uncached")
CarvedRuntime == Kind("AddMem", "MEM_RES", "RtData", "uncached")
Display == Kind("AddMem", "MEM_RES", "Reserv", "through")
HobOnly == Kind("HobOnlyNoCacheSetting", "MEM_RES", "Reserv", "uncached")
Secure == Kind("NoHob", "SYS_MEM", "Reserv", "device")
Dump == Kind("NoHob", "MMAP_IO", "Conv", "uncached")
KeptDump == Kind("NoHob", "MMAP_IO", "Reserv", "uncached")
MappedDevice == Kind("NoHob", "MMAP_IO", "Conv", "device")
ConvDevice == Kind("AddDev", "MMAP_IO", "Conv", "device")
Device == Kind("AddDev", "MMAP_IO", "MmIO", "device")

(* A row that counts only when the memory class of the phone is class. *)
For(class, kind) == [kind EXCEPT !.option = class]

(* Rows given as <<kind, base, pages>>, with the name where one is looked  *)
(* up by name; and rows of device registers, as <<base, pages>>.           *)
Rows(rows) ==
  [i \in DOMAIN rows |->
     [name |-> IF Len(rows[i]) = 4 THEN rows[i][4] ELSE "",
      base |-> rows[i][2], pages |-> rows[i][3]] @@ rows[i][1]]

Devices(spans) ==
  [i \in DOMAIN spans |-> [name |-> "", base |-> spans[i][1], pages |-> spans[i][2]] @@ Device]

-----------------------------------------------------------------------------
sdm660Map ==
  Rows(<<
    <<Free, \h80000, \h1AC0>>, <<Boot, \h81AC0, \h3C40>>, <<Runtime, \h85700, \h80>>,
    <<RuntimeCode, \h85780, \h80>>, <<KeptDevice, \h85800, \h600>>,
    <<KeptUncached, \h85E00, \h200, "MPSS_EFS">>, <<Carved, \h86000, \h200>>,
    <<KeptUncached, \h8BF00, \hBD00>>, <<Free, \h94000, \h9330>>, <<KeptDump, \h9D330, \hD0>>,
    <<Display, \h9D400, \h2400>>, <<Boot, \h9F800, \h400>>, <<Boot, \h9FC00, \h300>>,
    <<Boot, \h9FF00, \h8C>>, <<Boot, \h9FF8C, \h1>>, <<Boot, \h9FF8D, \h3>>,
    <<Boot, \h9FF90, \h40>>, <<Kept, \h9FFD0, \hA>>, <<Carved, \h9FFDA, \h3>>,
    <<KeptUncached, \h9FFDD, \h4>>, <<Kept, \h9FFE1, \h1>>, <<KeptUncached, \h9FFE2, \h1>>,
    <<Kept, \h9FFE3, \h14>>, <<Kept, \h9FFF7, \h8>>, <<Kept, \h9FFFF, \h1, "Info Blk">>,
    <<Free, \hA0000, \h2E000>>, <<Boot, \hCE000, \h2000>>,
    <<For("Mem4G", Free), \hD0000, \hADFA0>>, <<MappedDevice, \h14680, \h40>>,
    <<ConvDevice, \h146BF, \h1>>, <<ConvDevice, \h16000, \h1000>>>>)
  \o Devices(<<
    <<\h70, \h10>>, <<\h620, \h20>>, <<\h100, \hB0>>, <<\h778, \h8>>, <<\h780, \h7>>,
    <<\h790, \h10>>, <<\h10A3, \h1>>, <<\h10AA, \h1>>, <<\h10AB, \h1>>, <<\h10AC, \h1>>,
    <<\h10AD, \h1>>, <<\h10AE, \h1>>, <<\h1C00, \h7>>, <<\h1DA0, \h20>>, <<\h1DC0, \h40>>,
    <<\h1FC0, \h26>>, <<\h3100, \hC00>>, <<\h8000, \h2800>>, <<\h5065, \h9>>,
    <<\h6000, \h100>>, <<\h6400, \h200>>, <<\hA800, \h11B>>, <<\hA920, \h10>>,
    <<\hC000, \h200>>, <<\hC800, \h800>>, <<\h17900, \h30>>, <<\h17A00, \h10>>,
    <<\h17B00, \h100>>, <<\h17800, \h100>>, <<\h1B000, \h1000>>, <<\h15060, \h20>>>>)

sdm670Map ==
  Rows(<<
    <<Free, \h80000, \h1AC0>>, <<Boot, \h81AC0, \h3B40>>, <<Runtime, \h85600, \h80>>,
    <<RuntimeCode, \h85680, \h80>>, <<KeptDevice, \h85700, \h600>>, <<Free, \h85D00, \h100>>,
    <<Carved, \h85E00, \h100>>, <<Boot, \h85F00, \hC0>>, <<Kept, \h85FC0, \h20>>,
    <<Carved, \h85FE0, \h20>>, <<Carved, \h86000, \h200>>, <<KeptDevice, \h86200, \hB00>>,
    <<Secure, \h86D00, \h2200>>, <<Boot, \h88F00, \h1C00>>, <<KeptUncached, \h8AB00, \hB700>>,
    <<Free, \h96200, \h5D30>>, <<KeptDump, \h9BF30, \hD0>>, <<Display, \h9C000, \h2400>>,
    <<Boot, \h9F800, \h400>>, <<Boot, \h9FC00, \h300>>, <<Boot, \h9FF00, \h8C>>,
    <<Boot, \h9FF8C, \h1>>, <<Boot, \h9FF8D, \h3>>, <<Boot, \h9FF90, \h40>>,
    <<Kept, \h9FFD0, \hA>>, <<Carved, \h9FFDA, \h3>>, <<KeptUncached, \h9FFDD, \h4>>,
    <<Kept, \h9FFE1, \h1>>, <<KeptUncached, \h9FFE2, \h1>>, <<Kept, \h9FFE3, \h14>>,
    <<Kept, \h9FFF7, \h8>>, <<Kept, \h9FFFF, \h1, "Info Blk">>, <<Free, \hA0000, \h2E000>>,
    <<Boot, \hCE000, \h2000>>, <<Free, \hD0000, \hAE2C0>>, <<MappedDevice, \hC300, \h100>>,
    <<MappedDevice, \h14680, \h3F>>, <<ConvDevice, \h146BF, \h1>>>>)
  \o Devices(<<
    <<\h100, \hB0>>, <<\h780, \h7>>, <<\h790, \h10>>, <<\h800, \hD0>>, <<\hA00, \hD0>>,
    <<\h1D80, \h20>>, <<\h1DC0, \h40>>, <<\h1FC0, \h30>>, <<\h3500, \h300>>,
    <<\h3900, \h300>>, <<\h3D00, \h300>>, <<\h509A, \h4>>, <<\hC200, \hF>>, <<\h506A, \h1>>,
    <<\h507D, \hC>>, <<\h5090, \h10>>, <<\h508B, \h2>>, <<\h5A00, \hD0>>, <<\h8800, \h200>>,
    <<\hA600, \h11B>>, <<\hAB00, \h10>>, <<\hAC00, \h4A>>, <<\hAC4A, \h4>>, <<\hAC4E, \hB2>>,
    <<\hAD00, \h10>>, <<\hAE00, \h134>>, <<\hAF00, \h20>>, <<\hB290, \h10>>, <<\hB490, \h10>>,
    <<\hBA00, \h200>>, <<\hC221, \h1>>, <<\hC222, \h1>>, <<\hC223, \h1>>, <<\hC263, \h1>>,
    <<\hC264, \h1>>, <<\hC265, \h1>>, <<\hC400, \h2800>>, <<\h15000, \hD0>>, <<\h17830, \h1>>,
    <<\h17840, \h1>>, <<\h178B0, \h1>>, <<\h178C0, \h1>>, <<\h178D0, \h1>>, <<\h17980, \h1>>,
    <<\h17990, \h1>>, <<\h179C0, \h30>>, <<\h17A00, \h10>>, <<\h17A60, \h100>>,
    <<\h17C00, \h110>>, <<\h17D20, \hB0>>>>)

sdm845Map ==
  Rows(<<
    <<Free, \h80000, \h1AC0>>, <<Boot, \h81AC0, \h3B40>>, <<Runtime, \h85600, \h80>>,
    <<RuntimeCode, \h85680, \h80>>, <<KeptDevice, \h85700, \h600>>,
    <<KeptUncached, \h85D00, \h200, "MPSS_EFS">>, <<Carved, \h85F00, \h10>>,
    <<Boot, \h85F10, \hB0>>, <<Kept, \h85FC0, \h20>>, <<Carved, \h85FE0, \h20>>,
    <<Carved, \h86000, \h200>>, <<KeptDevice, \h86200, \hB00>>, <<Secure, \h86D00, \h3C00>>,
    <<Boot, \h8A900, \h200>>, <<Carved, \h8AB00, \h1400, "TGCM">>,
    <<KeptUncached, \h8BF00, \hD200>>, <<Free, \h99100, \h4230>>, <<KeptDump, \h9D330, \hD0>>,
    <<Display, \h9D400, \h2400>>, <<Boot, \h9F800, \h400>>, <<Boot, \h9FC00, \h300>>,
    <<Boot, \h9FF00, \h8C>>, <<Boot, \h9FF8C, \h1>>, <<Boot, \h9FF8D, \h3>>,
    <<Boot, \h9FF90, \h40>>, <<Kept, \h9FFD0, \hA>>, <<Carved, \h9FFDA, \h3>>,
    <<KeptUncached, \h9FFDD, \h4>>, <<Kept, \h9FFE1, \h1>>, <<KeptUncached, \h9FFE2, \h1>>,
    <<Kept, \h9FFE3, \h14>>, <<Kept, \h9FFF7, \h8>>, <<Kept, \h9FFFF, \h1, "Info Blk">>,
    <<Free, \hA0000, \h2E000>>, <<Boot, \hCE000, \h2000>>,
    <<For("Mem4G", Free), \hD0000, \hADFA0>>, <<For("Mem6G", Free), \hD0000, \h12AE00>>,
    <<For("Mem8G", Free), \hD0000, \hB0000>>, <<For("Mem8G", Free), \h180000, \hFC7A0>>,
    <<For("Mem10G", Free), \hD0000, \h224AC0>>, <<MappedDevice, \hC300, \h100>>,
    <<MappedDevice, \h14680, \h3F>>, <<ConvDevice, \h146BF, \h1>>>>)
  \o Devices(<<
    <<\h100, \hB0>>, <<\h780, \h7>>, <<\h790, \h10>>, <<\h800, \hD0>>, <<\hA00, \hD0>>,
    <<\h1D80, \h20>>, <<\h1DC0, \h40>>, <<\h1FC0, \h30>>, <<\h3500, \h300>>,
    <<\h3900, \h300>>, <<\h3D00, \h300>>, <<\h509A, \h4>>, <<\hC200, \hF>>, <<\h506A, \h1>>,
    <<\h507D, \hC>>, <<\h5090, \h10>>, <<\h508B, \h2>>, <<\h5A00, \hD0>>, <<\h8800, \h200>>,
    <<\hA600, \h11B>>, <<\hAB00, \h10>>, <<\hAC00, \h4A>>, <<\hAC4A, \h4>>, <<\hAC4E, \hB2>>,
    <<\hAD00, \h10>>, <<\hAE00, \h134>>, <<\hAF00, \h20>>, <<\hB290, \h10>>, <<\hB490, \h10>>,
    <<\hBA00, \h200>>, <<\hC221, \h1>>, <<\hC222, \h1>>, <<\hC223, \h1>>, <<\hC263, \h1>>,
    <<\hC264, \h1>>, <<\hC265, \h1>>, <<\hC400, \h2800>>, <<\h15000, \hD0>>, <<\h17830, \h1>>,
    <<\h17840, \h1>>, <<\h178B0, \h1>>, <<\h178C0, \h1>>, <<\h178D0, \h1>>, <<\h17980, \h1>>,
    <<\h17990, \h1>>, <<\h179C0, \h30>>, <<\h17A00, \h10>>, <<\h17A60, \h100>>,
    <<\h17C00, \h110>>, <<\h17D20, \hB0>>, <<\h60000, \h2000>>, <<\h40000, \h2000>>,
    <<\h1C00, \h8>>, <<\h1C08, \h8>>>>)

sm6225Map ==
  Rows(<<
    <<Free, \h40000, \h5700>>, <<Kept, \h45700, \h600>>, <<Free, \h45D00, \h300>>,
    <<Carved, \h46000, \h200>>, <<Free, \h46200, \h4900>>, <<Carved, \h4AB00, \hA400>>,
    <<Free, \h54F00, \h1800>>, <<Free, \h63900, \hE000>>, <<Free, \h67E00, \h9B00>>,
    <<Dump, \h56700, \hA00>>, <<Boot, \h57100, \h400>>, <<Free, \h57500, \h4B00>>,
    <<Display, \h5C000, \h1000>>, <<Kept, \h5D000, \h400>>, <<Free, \h5D400, \h2400>>,
    <<Boot, \h5F800, \h200>>, <<Free, \h5FA00, \h200>>, <<Boot, \h5FC00, \h300>>,
    <<Boot, \h5FF00, \h8C>>, <<Boot, \h5FF8C, \h1>>, <<Boot, \h5FF8D, \h3>>,
    <<Boot, \h5FF90, \h40>>, <<Free, \h5FFD0, \h27>>, <<Runtime, \h5FFF7, \h8>>,
    <<Runtime, \h5FFFF, \h1, "Info Blk">>, <<Free, \h60000, \h1E580>>,
    <<Free, \h80000, \h80000>>, <<Free, \hC0000, \h80000>>, <<Free, \h60000, \h1DD00>>,
    <<Free, \h80000, \h40000>>, <<Free, \hC0000, \h80000>>, <<MappedDevice, \h45F0, \h7>>,
    <<MappedDevice, \hC100, \h26>>, <<ConvDevice, \hC125, \h1>>>>)
  \o Devices(<<
    <<\h3C0, \h40>>, <<\h500, \h300>>, <<\h900, \h300>>, <<\hD00, \h300>>, <<\h1400, \h200>>,
    <<\h1C00, \h2800>>, <<\h1648, \h8>>, <<\h1B00, \h40>>, <<\h1B40, \h10>>, <<\h1B50, \h10>>,
    <<\h4403, \h1>>, <<\h4410, \h1>>, <<\h4411, \h1>>, <<\h440B, \h1>>, <<\h4A00, \hD0>>,
    <<\h4C00, \hD0>>, <<\h4800, \h20>>, <<\h4700, \h200>>, <<\h4E00, \h200>>, <<\h597D, \hC>>,
    <<\h5990, \h9>>, <<\h5B00, \h20>>, <<\h5E00, \h200>>, <<\h5F00, \h20>>, <<\hC600, \h80>>,
    <<\hF017, \h1>>, <<\hF020, \h110>>, <<\hF111, \h1>>, <<\hF200, \h10>>, <<\hF300, \h20>>,
    <<\hF520, \h20>>, <<\hF500, \hB0>>, <<\h1610, \h10>>, <<\h447D, \h1>>>>)

sm6375Map == sm6225Map

sm7125Map ==
  Rows(<<
    <<Carved, \h80000, \h600>>, <<KeptUncached, \h80600, \h200, "MPSS_EFS">>,
    <<Carved, \h80800, \h20>>, <<Carved, \h80820, \h20>>, <<Carved, \h80840, \h10>>,
    <<Kept, \h80850, \hAF>>, <<Secure, \h808FF, \h1>>, <<Carved, \h80900, \h200>>,
    <<Secure, \h80B00, \h3900>>, <<KeptUncached, \h84400, \h1700>>,
    <<Carved, \h85B00, \hEB00>>, <<Kept, \h94600, \h4500>>, <<Dump, \h98B00, \hD70>>,
    <<Kept, \h99870, \h1F90>>, <<Boot, \h9B800, \h400>>, <<Kept, \h9BC00, \h400>>,
    <<Display, \h9C000, \h1800>>, <<Kept, \h9D800, \h400>>, <<Carved, \h9DC00, \h800>>,
    <<Carved, \h9E400, \h1400, "TGCM">>, <<Boot, \h9F800, \h200>>, <<Kept, \h9FA00, \h200>>,
    <<Boot, \h9FC00, \h300>>, <<Boot, \h9FF00, \h8C>>, <<Boot, \h9FF8C, \h1>>,
    <<Boot, \h9FF8D, \h3>>, <<KeptUncached, \h9FF90, \h2>>, <<Kept, \h9FF92, \h1E>>,
    <<Boot, \h9FFB0, \h20>>, <<Runtime, \h9FFD0, \hA>>, <<CarvedRuntime, \h9FFDA, \h3>>,
    <<RuntimeUncached, \h9FFDD, \h4>>, <<Runtime, \h9FFE1, \h1>>,
    <<RuntimeUncached, \h9FFE2, \h1>>, <<Runtime, \h9FFE3, \h14>>, <<Runtime, \h9FFF7, \h8>>,
    <<Runtime, \h9FFFF, \h1, "Info Blk">>, <<Free, \hC0000, \h40000>>,
    <<Free, \h100000, \h80000>>, <<MappedDevice, \hC300, \h100>>,
    <<MappedDevice, \h14680, \h2B>>, <<ConvDevice, \h146AA, \h1>>>>)
  \o Devices(<<
    <<\h100, \h200>>, <<\h780, \h7>>, <<\h790, \h10>>, <<\h7C0, \h20>>, <<\h800, \h100>>,
    <<\hA00, \h100>>, <<\h1D80, \h20>>, <<\h1DC0, \h40>>, <<\h1FC0, \h40>>, <<\h3500, \h300>>,
    <<\h3900, \h300>>, <<\h3D00, \h300>>, <<\h5090, \h9>>, <<\h509A, \h4>>, <<\hC200, \h10>>,
    <<\h62B00, \h60>>, <<\h8800, \h200>>, <<\h90B0, \h1>>, <<\hA600, \h11B>>,
    <<\hA720, \h10>>, <<\hB2A0, \h10>>, <<\hB4A0, \h10>>, <<\hBA00, \h200>>, <<\hC221, \h3>>,
    <<\hC263, \h3>>, <<\hC400, \h2800>>, <<\hAB00, \h20>>, <<\h9980, \h10>>, <<\hAD00, \h20>>,
    <<\hAF00, \h20>>, <<\h18280, \h1>>, <<\h18282, \h1>>, <<\h18284, \h1>>, <<\h18200, \h30>>,
    <<\h17A00, \h10>>, <<\h17A60, \h100>>, <<\h17C20, \h110>>, <<\h18300, \hB0>>,
    <<\hAE00, \h134>>, <<\h15000, \hD0>>>>)

sm7150Map ==
  Rows(<<
    <<Free, \h80000, \h1AC0>>, <<Boot, \h81AC0, \h3B40>>, <<Runtime, \h85600, \h80>>,
    <<RuntimeCode, \h85680, \h80>>, <<KeptDevice, \h85700, \h600>>, <<Free, \h85D00, \h220>>,
    <<Carved, \h85F20, \h20>>, <<Free, \h85F40, \hE0>>, <<Carved, \h86000, \h200>>,
    <<KeptDevice, \h86200, \h2D00>>, <<Free, \h88F00, \h1C00>>, <<Carved, \h8AB00, \hCB00>>,
    <<Free, \h97600, \h4A00>>, <<Display, \h9C000, \h1800>>, <<Kept, \h9D800, \h400>>,
    <<Free, \h9DC00, \h700>>, <<Boot, \h9FF00, \h8C>>, <<Boot, \h9FF8C, \h1>>,
    <<Boot, \h9FF8D, \h3>>, <<Boot, \h9FF90, \h40>>, <<Free, \h9FFD0, \h27>>,
    <<Kept, \h9FFF7, \h8>>, <<Kept, \h9FFFF, \h1, "Info Blk">>, <<Free, \hA0000, \h1600>>,
    <<Dump, \hA1600, \hD22>>, <<Free, \hA2322, \h1DCDE>>, <<Free, \hC0000, \hE000>>,
    <<Boot, \hCE000, \h2000>>, <<Free, \hD0000, \h12CC00>>, <<MappedDevice, \hC300, \h100>>,
    <<MappedDevice, \h14680, \h2B>>, <<ConvDevice, \h146AA, \h1>>>>)
  \o Devices(<<
    <<\h100, \hB0>>, <<\h780, \h7>>, <<\h790, \h10>>, <<\h7C0, \h5>>, <<\h800, \hD0>>,
    <<\hA00, \hD0>>, <<\h1D80, \h20>>, <<\h1DC0, \h40>>, <<\h1FC0, \h30>>, <<\h3500, \h300>>,
    <<\h3900, \h300>>, <<\h3D00, \h300>>, <<\h5090, \h10>>, <<\h509A, \h4>>, <<\hC200, \hF>>,
    <<\h62600, \hD0>>, <<\h8800, \h200>>, <<\h90B0, \h1>>, <<\hA600, \h11B>>,
    <<\hA720, \h10>>, <<\hB2A0, \h10>>, <<\hB4A0, \h10>>, <<\hBA00, \h200>>, <<\hC221, \h1>>,
    <<\hC222, \h1>>, <<\hC223, \h1>>, <<\hC263, \h1>>, <<\hC264, \h1>>, <<\hC265, \h1>>,
    <<\hC400, \h2800>>, <<\hAB00, \h10>>, <<\h9910, \h10>>, <<\hAD00, \h10>>,
    <<\hAF00, \h20>>, <<\h18280, \h1>>, <<\h18282, \h1>>, <<\h18284, \h1>>, <<\h18200, \h30>>,
    <<\h17A00, \h10>>, <<\h17A60, \h100>>, <<\h17C00, \h110>>, <<\h17C10, \h1>>,
    <<\h18300, \hB0>>, <<\hAE00, \h134>>, <<\h15000, \hD0>>>>)

sm7325Map ==
  Rows(<<
    <<KeptDevice, \h80000, \h600>>, <<Kept, \h80600, \h100>>, <<RuntimeCode, \h80700, \h100>>,
    <<Carved, \h80800, \h60>>, <<Carved, \h80860, \h20>>, <<Free, \h80880, \h14>>,
    <<Carved, \h80894, \h10>>, <<CarvedRuntime, \h808A4, \h10>>, <<Free, \h808B4, \h4B>>,
    <<Carved, \h808FF, \h1>>, <<Carved, \h80900, \h200>>, <<Carved, \h80B00, \h100>>,
    <<Carved, \h80C00, \hC00>>, <<KeptUncached, \h81800, \h1E00>>, <<Boot, \h83600, \h400>>,
    <<Boot, \h83A00, \h1E00>>, <<Carved, \h85800, \h18D00>>, <<Free, \h9E500, \h1A00>>,
    <<Boot, \h9FF00, \h8C>>, <<Boot, \h9FF8C, \h1>>, <<Boot, \h9FF8D, \h3>>,
    <<Boot, \h9FF90, \h40>>, <<Free, \h9FFD0, \h27>>, <<Kept, \h9FFF7, \h8>>,
    <<Kept, \h9FFFF, \h1, "Info Blk">>, <<KeptUncached, \hA0000, \h2>>,
    <<Free, \hA0002, \h7FE>>, <<KeptUncached, \hA0800, \h300, "MPSS_EFS">>,
    <<Free, \hA0B00, \hF500>>, <<Display, \hB0000, \h400>>, <<Free, \hB0400, \h9300>>,
    <<KeptUncached, \hC0000, \h1800>>, <<HobOnly, \hC1800, \h3900>>,
    <<Free, \hC5100, \h8F00>>, <<Boot, \hCE000, \h2000>>, <<Free, \hD0000, \h800>>,
    <<Carved, \hD0800, \h76F7>>, <<Carved, \hD7EF7, \h9>>, <<Carved, \hD7F00, \h100>>,
    <<Free, \hD8000, \h8000>>, <<Dump, \hE0000, \hF00>>, <<Free, \hE0F00, \h100>>,
    <<Display, \hE1000, \h2400>>, <<Free, \hE3400, \h1C00>>, <<Carved, \hE5000, \hC00>>,
    <<KeptUncached, \hE5C00, \h1C00>>, <<Free, \hE7800, \h98800>>,
    <<Free, \h180000, \h100000>>, <<MappedDevice, \h14680, \h2B>>,
    <<ConvDevice, \h146AA, \h1>>>>)
  \o Devices(<<
    <<\h400, \h100>>, <<\h780, \h10>>, <<\h900, \h200>>, <<\h10D0, \h10>>, <<\h1DC0, \h40>>,
    <<\h1FC0, \h30>>, <<\h7C0, \h100>>, <<\h8800, \h500>>, <<\hA600, \h4000>>,
    <<\hB000, \h4000>>, <<\hF100, \h300>>, <<\h15000, \h200>>, <<\h17800, \hE00>>,
    <<\h60000, \h2000>>, <<\h40000, \h2000>>, <<\h1C00, \h8>>, <<\h1C08, \h8>>>>)

sm8150Map(features) ==
  (IF "USE_DISPLAYDXE" \in features
       THEN Rows(<<<<Kept, \h80000, \h600>>, <<Display, \h80600, \h2400>>>>)
       ELSE Rows(<<<<Kept, \h80000, \h2A00>>>>))
  \o Rows(<<
    <<KeptDump, \h82A00, \hD22>>, <<Boot, \h83722, \h1FDE>>, <<KeptDevice, \h85700, \h600>>>>)
  \o (IF "MEMMAP_XIAOMI_HACKS" \in features
       THEN Rows(<<<<Kept, \h85D00, \h200>>>>)
       ELSE Rows(<<<<KeptUncached, \h85D00, \h200, "MPSS_EFS">>>>))
  \o Rows(<<
    <<Carved, \h85F00, \h20>>, <<Carved, \h85F20, \h20>>, <<Carved, \h85F40, \h10>>,
    <<Boot, \h85F50, \hB0>>, <<Carved, \h86000, \h200>>, <<KeptDevice, \h86200, \h1800>>,
    <<Secure, \h87A00, \h2100>>, <<Kept, \h89B00, \h1C00>>>>)
  \o (IF "MEMMAP_LG_HACKS" \in features
       THEN Rows(<<<<KeptUncached, \h8B700, \hF800>>, <<Free, \h9AF00, \hD00>>>>)
       ELSE Rows(<<<<KeptUncached, \h8B700, \hF400>>, <<Free, \h9AB00, \h1100>>>>))
  \o Rows(<<
    <<Boot, \h9BC00, \h400>>>>)
  \o (IF "USE_DISPLAYDXE" \in features
       THEN <<>>
       ELSE Rows(<<<<Display, \h9C000, \h2400>>>>))
  \o Rows(<<
    <<Carved, \h9E400, \h1400, "TGCM">>, <<Boot, \h9F800, \h400>>, <<Boot, \h9FC00, \h300>>,
    <<Boot, \h9FF00, \h8C>>, <<Boot, \h9FF8C, \h1>>, <<Boot, \h9FF8D, \h3>>,
    <<KeptUncached, \h9FF90, \h2>>, <<Kept, \h9FF92, \h1E>>, <<Boot, \h9FFB0, \h20>>,
    <<Kept, \h9FFD0, \hA>>, <<Carved, \h9FFDA, \h3>>, <<KeptUncached, \h9FFDD, \h4>>,
    <<Kept, \h9FFE1, \h1>>, <<KeptUncached, \h9FFE2, \h1>>, <<Kept, \h9FFE3, \h14>>,
    <<Kept, \h9FFF7, \h8>>, <<Kept, \h9FFFF, \h1, "Info Blk">>>>)
  \o (IF "HAS_MLVM" \in features
       THEN Rows(<<<<For("Mem6G", Kept), \hA0000, \h1CC00>>>>)
       ELSE Rows(<<<<For("Mem6G", Free), \hA0000, \h1CC00>>>>))
  \o (IF "MEMMAP_XIAOMI_HACKS" \in features
       THEN Rows(<<<<For("Mem6G", KeptUncached), \hC0000, \h300, "MPSS_EFS">>, <<For("Mem6G", Free), \hC0300, \h7FD00>>>>)
       ELSE Rows(<<<<For("Mem6G", Free), \hC0000, \h80000>>>>))
  \o Rows(<<
    <<For("Mem6G", Free), \h140000, \hC0000>>>>)
  \o (IF "HAS_MLVM" \in features
       THEN Rows(<<<<For("Mem8G", Kept), \hA0000, \h1BB00>>>>)
       ELSE Rows(<<<<For("Mem8G", Free), \hA0000, \h1BB00>>>>))
  \o (IF "MEMMAP_XIAOMI_HACKS" \in features
       THEN Rows(<<<<For("Mem8G", KeptUncached), \hC0000, \h300, "MPSS_EFS">>, <<For("Mem8G", Free), \hC0300, \h7FD00>>>>)
       ELSE Rows(<<<<For("Mem8G", Free), \hC0000, \h80000>>>>))
  \o Rows(<<
    <<For("Mem8G", Free), \h140000, \hC0000>>, <<For("Mem8G", Free), \h200000, \h80000>>>>)
  \o (IF "HAS_MLVM" \in features
       THEN Rows(<<<<For("Mem12G", Kept), \hA0000, \h19900>>>>)
       ELSE Rows(<<<<For("Mem12G", Free), \hA0000, \h19900>>>>))
  \o (IF "MEMMAP_XIAOMI_HACKS" \in features
       THEN Rows(<<<<For("Mem12G", KeptUncached), \hC0000, \h300, "MPSS_EFS">>, <<For("Mem12G", Free), \hC0300, \h7FD00>>>>)
       ELSE Rows(<<<<For("Mem12G", Free), \hC0000, \h80000>>>>))
  \o Rows(<<
    <<For("Mem12G", Free), \h140000, \hC0000>>, <<For("Mem12G", Free), \h200000, \h80000>>,
    <<For("Mem12G", Free), \h280000, \h80000>>, <<For("Mem12G", Free), \h300000, \h80000>>,
    <<MappedDevice, \hC300, \h100>>, <<MappedDevice, \h14680, \h40>>>>)
  \o Devices(<<
    <<\h100, \h200>>, <<\h630, \h4>>, <<\h780, \h7>>, <<\h800, \hD0>>, <<\hA00, \hD0>>,
    <<\hC00, \hD0>>, <<\h790, \h10>>, <<\h1D60, \h20>>, <<\h1D80, \h20>>, <<\h1DC0, \h40>>,
    <<\h1FC0, \h30>>, <<\h2C7D, \h2>>, <<\h2C90, \hA>>, <<\h2C9A, \h4>>, <<\h3100, \h300>>,
    <<\h3500, \h300>>, <<\h3900, \h300>>, <<\h3D00, \h300>>, <<\h5A00, \hD0>>,
    <<\h8800, \h200>>, <<\h90B0, \h1>>, <<\h9910, \h10>>, <<\hA600, \h11B>>, <<\hA720, \h10>>,
    <<\hA800, \h11B>>, <<\hA400, \h11B>>, <<\hA520, \h10>>, <<\hA522, \h10>>,
    <<\hAB00, \h20>>, <<\hAC00, \h4A>>, <<\hAC4A, \h4>>, <<\hAC4E, \hB2>>, <<\hAD00, \h20>>,
    <<\hAF00, \h20>>, <<\hB290, \h20>>, <<\hB490, \h20>>, <<\hBA00, \h200>>, <<\hC200, \h10>>,
    <<\hC221, \h1>>, <<\hC222, \h1>>, <<\hC223, \h1>>, <<\hC263, \h1>>, <<\hC264, \h1>>,
    <<\hC265, \h1>>, <<\hC400, \h2800>>, <<\h18280, \h1>>, <<\h18282, \h1>>, <<\h18284, \h1>>,
    <<\h18286, \h1>>, <<\h18290, \h1>>, <<\h18292, \h1>>, <<\h18294, \h1>>, <<\h18296, \h1>>,
    <<\h18200, \h30>>, <<\h18300, \hB0>>, <<\h17A00, \h10>>, <<\h17A60, \h100>>,
    <<\h17C00, \h1>>, <<\h17C10, \h1>>, <<\h17C20, \h110>>, <<\h60000, \h2000>>,
    <<\h40000, \h2000>>, <<\h68000, \h2000>>, <<\h70000, \h2000>>, <<\h1C00, \h8>>,
    <<\h1C08, \h8>>, <<\h1C10, \h8>>, <<\h1C18, \h8>>, <<\h88E5, \h4>>, <<\hAE00, \h134>>,
    <<\h15000, \hD0>>>>)

sm8350Map ==
  Rows(<<
    <<KeptDevice, \h80000, \h600>>, <<Kept, \h80600, \h100>>, <<Free, \h80700, \h100>>,
    <<Carved, \h80800, \h60>>, <<Carved, \h80860, \h20>>, <<Carved, \h80880, \h10>>,
    <<CarvedRuntime, \h80890, \h10>>, <<KeptUncached, \h808A0, \h10>>,
    <<KeptUncached, \h808B0, \h10>>, <<Free, \h808C0, \h30>>, <<Free, \h808F0, \h10>>,
    <<Carved, \h80900, \h200>>, <<Carved, \h80B00, \h100>>, <<Free, \h80C00, \h2F00>>,
    <<Carved, \h83B00, \hF00>>, <<Carved, \h84A00, \h800>>, <<Carved, \h85200, \h9200>>,
    <<Free, \h8E400, \h10C00>>, <<Boot, \h9F000, \h500>>, <<Boot, \h9F500, \h8C>>,
    <<Boot, \h9F58C, \h1>>, <<Boot, \h9F58D, \h3>>, <<Boot, \h9F590, \h40>>,
    <<Free, \h9F5D0, \h27>>, <<Runtime, \h9F5F7, \h8>>, <<Runtime, \h9F5FF, \h1, "Info Blk">>,
    <<Boot, \h9F600, \h500>>, <<Boot, \h9FB00, \h400>>, <<Boot, \h9FF00, \h100>>,
    <<Free, \hA0000, \hEB00>>, <<Kept, \hAEB00, \h11500>>, <<Free, \hC0000, \h1800>>,
    <<Secure, \hC1800, \h3900>>, <<Dump, \hC5100, \h1100>>, <<Free, \hC6200, \h7E00>>,
    <<Boot, \hCE000, \h2000>>, <<Free, \hD0000, \h8800>>, <<KeptUncached, \hD8800, \h1800>>,
    <<HobOnly, \hDA000, \h3900>>, <<Free, \hDD900, \h3700>>, <<Display, \hE1000, \h2400>>,
    <<Carved, \hE3400, \h1>>, <<Free, \hE3401, \h5CBFF>>, <<Free, \h140000, \h40000>>,
    <<Free, \h180000, \h100000>>, <<MappedDevice, \h14680, \h40>>,
    <<ConvDevice, \h146BF, \h1>>>>)
  \o Devices(<<
    <<\h400, \h100>>, <<\h780, \h7>>, <<\h800, \h300>>, <<\h10D0, \h10>>, <<\h1DC0, \h40>>,
    <<\h1F00, \h100>>, <<\h8800, \h200>>, <<\hA400, \hC00>>, <<\hB000, \h4000>>,
    <<\hF100, \h300>>, <<\hF500, \h300>>, <<\hF900, \h300>>, <<\h15000, \hD0>>,
    <<\h15600, \h200>>, <<\h17800, \hD99>>, <<\h60000, \h2000>>, <<\h40000, \h2000>>,
    <<\h3C000, \h2000>>, <<\h38000, \h2000>>, <<\h34000, \h2000>>, <<\h32000, \h2000>>,
    <<\h30000, \h2000>>, <<\h1C30, \h8>>, <<\h1C28, \h8>>, <<\h1C20, \h8>>, <<\h1C18, \h8>>,
    <<\h1C10, \h8>>, <<\h1C08, \h8>>, <<\h1C00, \h8>>>>)

sm8475Map ==
  Rows(<<
    <<KeptDevice, \h80000, \h600>>, <<Kept, \h80600, \h100>>, <<Free, \h80700, \h100>>,
    <<Carved, \h80800, \h60>>, <<Carved, \h80860, \h20>>, <<Carved, \h80880, \h10>>,
    <<CarvedRuntime, \h80890, \h10>>, <<KeptUncached, \h808A0, \h10>>,
    <<KeptUncached, \h808B0, \h10>>, <<Free, \h808C0, \h30>>, <<Free, \h808F0, \h10>>,
    <<Carved, \h80900, \h200>>, <<Carved, \h80B00, \h100>>, <<Free, \h80C00, \h2F00>>,
    <<Carved, \h83B00, \hF00>>, <<Carved, \h84A00, \h800>>, <<Carved, \h85200, \h9200>>,
    <<Free, \h8E400, \h10C00>>, <<Boot, \h9F000, \h500>>, <<Boot, \h9F500, \h8C>>,
    <<Boot, \h9F58C, \h1>>, <<Boot, \h9F58D, \h3>>, <<Boot, \h9F590, \h40>>,
    <<Free, \h9F5D0, \h27>>, <<Runtime, \h9F5F7, \h8>>, <<Runtime, \h9F5FF, \h1, "Info Blk">>,
    <<Boot, \h9F600, \h500>>, <<Boot, \h9FB00, \h400>>, <<Boot, \h9FF00, \h100>>,
    <<Free, \hA0000, \hEB00>>, <<Kept, \hAEB00, \h11500>>, <<Free, \hC0000, \h1800>>,
    <<Secure, \hC1800, \h3900>>, <<Dump, \hC5100, \h1100>>, <<Free, \hC6200, \h7E00>>,
    <<Boot, \hCE000, \h2000>>, <<Free, \hD0000, \h8800>>, <<KeptUncached, \hD8800, \h1800>>,
    <<HobOnly, \hDA000, \h3900>>, <<Free, \hDD900, \h3700>>, <<Display, \hE1000, \h2400>>,
    <<Carved, \hE3400, \h1>>, <<Free, \hE3401, \h5CBFF>>, <<Free, \h140000, \h40000>>,
    <<Free, \h180000, \h100000>>, <<MappedDevice, \h14680, \h40>>,
    <<ConvDevice, \h146BF, \h1>>>>)
  \o Devices(<<
    <<\h400, \h100>>, <<\h780, \h7>>, <<\h800, \h300>>, <<\h10D0, \h10>>, <<\h1DC0, \h40>>,
    <<\h1F00, \h100>>, <<\h8800, \h200>>, <<\hA400, \hC00>>, <<\hB000, \h4000>>,
    <<\hF100, \h300>>, <<\hF500, \h300>>, <<\hF900, \h300>>, <<\h15000, \hD0>>,
    <<\h15600, \h200>>, <<\h17000, \h2000>>, <<\h60000, \h2000>>, <<\h40000, \h2000>>,
    <<\h3C000, \h2000>>, <<\h38000, \h2000>>, <<\h34000, \h2000>>, <<\h32000, \h2000>>,
    <<\h30000, \h2000>>, <<\h1C30, \h8>>, <<\h1C28, \h8>>, <<\h1C20, \h8>>, <<\h1C18, \h8>>,
    <<\h1C10, \h8>>, <<\h1C08, \h8>>, <<\h1C00, \h8>>>>)

sm8550Map == sm8475Map

sm8650Map == sm8475Map

mataMap ==
  Rows(<<
    <<Free, \h80000, \h1AC0>>, <<Boot, \h81AC0, \h3C40>>, <<Runtime, \h85700, \h80>>,
    <<RuntimeCode, \h85780, \h80>>, <<KeptDevice, \h85800, \h600>>,
    <<KeptUncached, \h85E00, \h200, "MPSS_EFS">>, <<Carved, \h86000, \h200>>,
    <<KeptDevice, \h86200, \h400>>, <<Secure, \h86600, \h2200>>,
    <<Carved, \h87B00, \h1400, "TGCM">>, <<Boot, \h88F00, \h1E00>>,
    <<KeptUncached, \h8AB00, \hAD15>>, <<Free, \h95800, \h7B30>>, <<KeptDump, \h9D330, \hD0>>,
    <<Display, \h9D400, \h2400>>, <<Boot, \h9F800, \h400>>, <<Boot, \h9FC00, \h300>>,
    <<Boot, \h9FF00, \h8C>>, <<Boot, \h9FF8C, \h1>>, <<Boot, \h9FF8D, \h3>>,
    <<Boot, \h9FF90, \h40>>, <<Kept, \h9FFD0, \hA>>, <<Carved, \h9FFDA, \h3>>,
    <<KeptUncached, \h9FFDD, \h4>>, <<Kept, \h9FFE1, \h1>>, <<KeptUncached, \h9FFE2, \h1>>,
    <<Kept, \h9FFE3, \h14>>, <<Kept, \h9FFF7, \h8>>, <<Kept, \h9FFFF, \h1, "Info Blk">>,
    <<Free, \hA0000, \h2E000>>, <<Boot, \hCE000, \h2000>>,
    <<For("Mem4G", Free), \hD0000, \hAE4C0>>, <<For("Mem6G", Free), \hD0000, \h30000>>,
    <<For("Mem6G", Free), \h100000, \hBD8C0>>, <<MappedDevice, \h14680, \h40>>,
    <<ConvDevice, \h146BF, \h1>>, <<ConvDevice, \h16000, \h1000>>>>)
  \o Devices(<<
    <<\h70, \h10>>, <<\h100, \hB0>>, <<\h620, \h20>>, <<\h778, \h8>>, <<\h780, \h7>>,
    <<\h790, \h10>>, <<\h10A3, \h1>>, <<\h10AA, \h1>>, <<\h10AB, \h1>>, <<\h10AC, \h1>>,
    <<\h10AD, \h1>>, <<\h10AE, \h1>>, <<\h1680, \h9>>, <<\h1C00, \h7>>, <<\h1DA0, \h20>>,
    <<\h1DC0, \h40>>, <<\h1FC0, \h26>>, <<\h3400, \hC00>>, <<\h5026, \h2>>, <<\h502A, \h2>>,
    <<\h5030, \h2>>, <<\h5065, \h9>>, <<\h6000, \h100>>, <<\h6400, \h200>>,
    <<\h8000, \h2800>>, <<\hA800, \h11B>>, <<\hA920, \h10>>, <<\hC000, \h200>>,
    <<\hC800, \h800>>, <<\h17800, \h100>>, <<\h17900, \h30>>, <<\h17A00, \h10>>,
    <<\h17B00, \h100>>, <<\h17C00, \h40>>, <<\h1B000, \h1000>>>>)

wahooMap ==
  Rows(<<
    <<Free, \h80000, \h1AC0>>, <<Boot, \h81AC0, \h3C40>>, <<Runtime, \h85700, \h80>>,
    <<RuntimeCode, \h85780, \h80>>, <<KeptDevice, \h85800, \h600>>,
    <<KeptUncached, \h85E00, \h200, "MPSS_EFS">>, <<Carved, \h86000, \h200>>,
    <<KeptDevice, \h86200, \hB00>>, <<Secure, \h86D00, \hE00>>, <<Secure, \h87B00, \h3000>>,
    <<KeptUncached, \h8AB00, \hAD15>>, <<Free, \h95800, \h7B30>>, <<KeptDump, \h9D330, \hD0>>,
    <<Display, \h9D400, \h2400>>, <<Boot, \h9F800, \h400>>, <<Boot, \h9FC00, \h300>>,
    <<Boot, \h9FF00, \h8C>>, <<Boot, \h9FF8C, \h1>>, <<Boot, \h9FF8D, \h3>>,
    <<Boot, \h9FF90, \h40>>, <<Kept, \h9FFD0, \hA>>, <<Carved, \h9FFDA, \h3>>,
    <<KeptUncached, \h9FFDD, \h4>>, <<Kept, \h9FFE1, \h1>>, <<KeptUncached, \h9FFE2, \h1>>,
    <<Kept, \h9FFE3, \h14>>, <<Kept, \h9FFF7, \h8>>, <<Kept, \h9FFFF, \h1, "Info Blk">>,
    <<Free, \hA0000, \h2E000>>, <<Boot, \hCE000, \h2000>>,
    <<For("Mem4G", Free), \hD0000, \hAE4C0>>, <<For("Mem6G", Free), \hD0000, \h30000>>,
    <<For("Mem6G", Free), \h100000, \hBD8C0>>, <<MappedDevice, \h14680, \h40>>,
    <<ConvDevice, \h146BF, \h1>>, <<ConvDevice, \h16000, \h1000>>>>)
  \o Devices(<<
    <<\h70, \h10>>, <<\h100, \hB0>>, <<\h620, \h20>>, <<\h778, \h8>>, <<\h780, \h7>>,
    <<\h790, \h10>>, <<\h10A3, \h1>>, <<\h10AA, \h1>>, <<\h10AB, \h1>>, <<\h10AC, \h1>>,
    <<\h10AD, \h1>>, <<\h10AE, \h1>>, <<\h1680, \h9>>, <<\h1C00, \h7>>, <<\h1DA0, \h20>>,
    <<\h1DC0, \h40>>, <<\h1FC0, \h26>>, <<\h3400, \hC00>>, <<\h5026, \h2>>, <<\h502A, \h2>>,
    <<\h5030, \h2>>, <<\h5065, \h9>>, <<\h6000, \h100>>, <<\h6400, \h200>>,
    <<\h8000, \h2800>>, <<\hA800, \h11B>>, <<\hA920, \h10>>, <<\hC000, \h200>>,
    <<\hC800, \h800>>, <<\h17800, \h100>>, <<\h17900, \h30>>, <<\h17A00, \h10>>,
    <<\h17B00, \h100>>, <<\h17C00, \h40>>, <<\h1B000, \h1000>>>>)

walleyeMap == wahooMap

joanMap == wahooMap

j716fMap ==
  Rows(<<
    <<KeptDevice, \h80000, \h600>>, <<Free, \h80600, \h100>>, <<Carved, \h80700, \h160>>,
    <<Carved, \h80860, \h20>>, <<Kept, \h80880, \h14>>, <<Free, \h80894, \h6C>>,
    <<Carved, \h80900, \h200>>, <<KeptDevice, \h80B00, \h5700>>,
    <<KeptUncached, \h86200, \h5D00>>, <<Free, \h8BF00, \h10100>>,
    <<Display, \h9C000, \h2400>>, <<Dump, \h9E400, \hF00>>, <<Free, \h9F300, \hC00>>,
    <<Boot, \h9FF00, \h8C>>, <<Boot, \h9FF8C, \h1>>, <<Boot, \h9FF8D, \h3>>,
    <<Boot, \h9FF90, \h40>>, <<Free, \h9FFD0, \h27>>, <<Kept, \h9FFF7, \h8>>,
    <<Kept, \h9FFFF, \h1, "Info Blk">>, <<Free, \hA0000, \h10000>>, <<Kept, \hB0000, \h500>>,
    <<Free, \hB0400, \hC800>>, <<Free, \hC0000, \hE000>>, <<Boot, \hCE000, \h2000>>,
    <<Free, \hD0000, \h130000>>, <<MappedDevice, \h14680, \h40>>, <<ConvDevice, \h146BF, \h1>>>>)
  \o Devices(<<
    <<\h400, \h100>>, <<\h780, \h7>>, <<\h800, \hD0>>, <<\h900, \hD0>>, <<\hA00, \hD0>>,
    <<\h790, \h10>>, <<\h1DC0, \h40>>, <<\h1FC0, \h30>>, <<\h2C7D, \h2>>, <<\h2C90, \hA>>,
    <<\h5A00, \hD0>>, <<\h8800, \h200>>, <<\hA600, \h11B>>, <<\hA720, \h10>>,
    <<\hA800, \h11B>>, <<\hB000, \h4000>>, <<\hF100, \h300>>, <<\hF500, \h300>>,
    <<\hF900, \h300>>, <<\h15000, \hD0>>, <<\h17800, \hD981>>>>)

tb_9707fMap == j716fMap

tb371fcMap == j716fMap

nx563jMap == mataMap

cheeseburgerMap == wahooMap

dumplingMap == wahooMap

instantnoodlepMap == j716fMap

r8qMap == j716fMap

sagitMap == wahooMap

aliothMap ==
  Rows(<<
    <<KeptDevice, \h80000, \h600>>, <<Free, \h80600, \h100>>, <<Carved, \h80700, \h160>>,
    <<Carved, \h80860, \h20>>, <<Kept, \h80880, \h14>>, <<Free, \h80894, \h6C>>,
    <<Carved, \h80900, \h200>>, <<KeptDevice, \h80B00, \h5700>>,
    <<KeptUncached, \h86200, \h5D00>>, <<Free, \h8BF00, \h10100>>,
    <<Display, \h9C000, \h2400>>, <<Dump, \h9E400, \hF00>>, <<Free, \h9F300, \hC00>>,
    <<Boot, \h9FF00, \h8C>>, <<Boot, \h9FF8C, \h1>>, <<Boot, \h9FF8D, \h3>>,
    <<Boot, \h9FF90, \h40>>, <<Free, \h9FFD0, \h27>>, <<Kept, \h9FFF7, \h8>>,
    <<Kept, \h9FFFF, \h1, "Info Blk">>, <<Free, \hA0000, \h10000>>, <<Kept, \hB0000, \h200>>,
    <<Free, \hB0190, \hFE70>>, <<Free, \hC0000, \hE000>>, <<Boot, \hCE000, \h2000>>,
    <<Free, \hD0000, \h130000>>, <<MappedDevice, \h14680, \h40>>, <<ConvDevice, \h146BF, \h1>>>>)
  \o Devices(<<
    <<\h400, \h100>>, <<\h780, \h7>>, <<\h800, \hD0>>, <<\h900, \hD0>>, <<\hA00, \hD0>>,
    <<\h790, \h10>>, <<\h1DC0, \h40>>, <<\h1FC0, \h30>>, <<\h2C7D, \h2>>, <<\h2C90, \hA>>,
    <<\h5A00, \hD0>>, <<\h8800, \h200>>, <<\hA600, \h11B>>, <<\hA720, \h10>>,
    <<\hA800, \h11B>>, <<\hB000, \h4000>>, <<\hF100, \h300>>, <<\hF500, \h300>>,
    <<\hF900, \h300>>, <<\h15000, \hD0>>, <<\h17800, \hD981>>>>)

apolloMap ==
  Rows(<<
    <<KeptDevice, \h80000, \h600>>, <<Free, \h80600, \h100>>, <<Carved, \h80700, \h160>>,
    <<Carved, \h80860, \h20>>, <<Kept, \h80880, \h14>>, <<Free, \h80894, \h6C>>,
    <<Carved, \h80900, \h200>>, <<KeptDevice, \h80B00, \h5700>>,
    <<KeptUncached, \h86200, \h5D00>>, <<Free, \h8BF00, \h10100>>,
    <<Display, \h9C000, \h2400>>, <<Dump, \h9E400, \hF00>>, <<Free, \h9F300, \hC00>>,
    <<Boot, \h9FF00, \h8C>>, <<Boot, \h9FF8C, \h1>>, <<Boot, \h9FF8D, \h3>>,
    <<Boot, \h9FF90, \h40>>, <<Free, \h9FFD0, \h27>>, <<Kept, \h9FFF7, \h8>>,
    <<Kept, \h9FFFF, \h1, "Info Blk">>, <<Free, \hA0000, \h1CC00>>, <<Free, \hC0000, \hE000>>,
    <<Boot, \hCE000, \h2000>>, <<Free, \hD0000, \h130000>>, <<MappedDevice, \h14680, \h40>>,
    <<ConvDevice, \h146BF, \h1>>>>)
  \o Devices(<<
    <<\h400, \h100>>, <<\h780, \h7>>, <<\h800, \hD0>>, <<\h900, \hD0>>, <<\hA00, \hD0>>,
    <<\h790, \h10>>, <<\h1DC0, \h40>>, <<\h1FC0, \h30>>, <<\h2C7D, \h2>>, <<\h2C90, \hA>>,
    <<\h5A00, \hD0>>, <<\h8800, \h200>>, <<\hA600, \h11B>>, <<\hA720, \h10>>,
    <<\hA800, \h11B>>, <<\hB000, \h4000>>, <<\hF100, \h300>>, <<\hF500, \h300>>,
    <<\hF900, \h300>>, <<\h15000, \hD0>>, <<\h17800, \hD981>>>>)

elishMap ==
  Rows(<<
    <<Boot, \h805D0, \h20>>, <<Kept, \h80600, \h100>>, <<Boot, \h80700, \h100>>,
    <<Carved, \h80860, \h20>>, <<Kept, \h80884, \h10>>, <<Carved, \h80900, \h200>>,
    <<HobOnly, \h82400, \h3A00>>, <<KeptUncached, \h86000, \hD200>>,
    <<Free, \h98900, \h3300>>, <<Boot, \h9BC00, \h400>>, <<Display, \h9C000, \h2400>>,
    <<Dump, \h9E400, \hF00>>, <<Boot, \h9F800, \h200>>, <<Kept, \h9FA00, \h200>>,
    <<Boot, \h9FC00, \h300>>, <<Boot, \h9FF00, \h8C>>, <<Boot, \h9FF8C, \h1>>,
    <<Boot, \h9FF8D, \h3>>, <<Boot, \h9FF90, \h40>>, <<Kept, \h9FFF7, \h8>>,
    <<Kept, \h9FFFF, \h1, "Info Blk">>, <<Kept, \hA0000, \h10000>>, <<Free, \hC0000, \hE000>>,
    <<Boot, \hCE000, \h2000>>, <<Free, \hD0000, \h130000>>, <<MappedDevice, \h14680, \h40>>,
    <<ConvDevice, \h146BF, \h1>>>>)
  \o Devices(<<
    <<\h400, \h100>>, <<\h780, \h7>>, <<\h800, \hD0>>, <<\h900, \hD0>>, <<\hA00, \hD0>>,
    <<\h790, \h10>>, <<\h1DC0, \h40>>, <<\h1FC0, \h30>>, <<\h2C7D, \h2>>, <<\h2C90, \hA>>,
    <<\h5A00, \hD0>>, <<\h8800, \h200>>, <<\hA600, \h11B>>, <<\hA720, \h10>>,
    <<\hA800, \h11B>>, <<\hB000, \h4000>>, <<\hF100, \h300>>, <<\hF500, \h300>>,
    <<\hF900, \h300>>, <<\h15000, \hD0>>, <<\h17800, \hD981>>>>)

lmiMap == aliothMap

pipaMap == j716fMap

=============================================================================

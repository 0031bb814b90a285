# Specifications of the edk2-msm firmware

This directory holds TLA+ specifications of the parts of this repository that
keep state and can go wrong in ways a test bench seldom reaches: an EDK2 based
UEFI firmware for Qualcomm phones.  Most of `src/` is data (device trees, memory
maps, ACPI tables, package files) or code of EDK2 itself; what is specific to
this firmware and has logic of its own is listed below, with what is specified
here, what is planned, and what is left out.

## 1. Inventory

| component | state it keeps | operations | interacts with | status |
|---|---|---|---|---|
| **BootSlotLib** `GPLDrivers/Library/BootSlotLib` | `PtnEntries`, `PtnEntriesBak` in RAM; both GPT copies of every LUN; the UFS boot LUN | `EnumeratePartitions`, `GetActiveSlot`, `ClearUnbootable`, `SetActiveSlot`, `UpdatePartitionAttributes`, ... | `EFI_PARTITION_INFO_PROTOCOL`, BlockIo, the UFS config protocol | modelled |
| **BootSlotDxe** `GPLDrivers/Drivers/BootSlotDxe` | none of its own | one run per boot: refresh the current slot | BootSlotLib | modelled |
| **SwitchSlotsApp** `GPLDrivers/Application/SwitchSlotsApp` | none of its own | one run per user request ("Reboot to other slot"): switch, flush twice more, reset | BootSlotLib, the boot menu of PlatformBootManagerLib | modelled |
| **Op6tSlotDxe** `GPLDrivers/Drivers/Op6tSlotDxe` | slot flags and two checksums of one GPT | one run per boot: find the disk, write a flag, write two checksums | DiskIo, BlockIo | modelled |
| **SynapticsTCMDxe** `QcomPkg/Drivers/SynapticsTCMDxe` | driver instance: `Initialized`, `ConfigData`, `LastX`, `LastY`, `StateChanged`, command status, message buffer; `gI2CInstance` | Supported / Start / Stop, poll timer, WaitForInput, GetState, Reset, report interpreter, ExitBootServices | I2C protocol, timer and TPL, AbsolutePointer consumers | modelled |
| **SynapticsRmi4Dxe** `QcomPkg/Drivers/SynapticsRmi4Dxe` | as above, the place of function F12 instead of a configuration | same structure; Start scans the page description table | same | partly: not its poll |
| **PlatformBootManagerLib** `RenegadePkg/Library/PlatformBootManagerLib` | `BootOrder`, `Boot####`, `Key####`, `ConIn`; capsules of the HOB list | BeforeConsole, AfterConsole, WaitCallback | variables, HOBs, EndOfDxe, PlatformSetup | partly: not GetPlatformOptions |
| **PrePi**, **MemoryInitPeiLib**, **MemoryMapHelperLib** | HOBs, the MMU table | add up the memory, pick the class, take the rows of the map, find a region by name | the map of the port, PlatformPeiLib | modelled (PrePi partly) |
| **PlatformSmbiosDxe**, **SOCSmbiosInfoLib** of 15 SoCs | record templates, one handle variable each | add records, copy handles between them | the SMBIOS protocol | modelled |
| **DxeAslUpdateLib**, **MsPlatformDevicesLib**, **RFSProtectionLib** | the DSDT, the region shared with the modem | PlatformSetup: patch names of the DSDT, uninstall / install it, share the region | ACPI protocols, the map, the hypervisor | partly: UpdateNameAslCode and PlatformSetup |
| **Platform and SoC ports** | memory maps of 31 devices and SoCs, the page of the Info Blk | - | all the above | partly: maps; not device trees, ACPI tables, package files |
| FrameBufferSerialPortLib, KernelErrataPatcher, VirtualRealTimeClockLib, SimpleFbDxe, LogoDxe, SetCPUFreqDxe, Reboot2PayloadApp, QcomGeniSerialPortLib, protocol headers, build tools | - | see section 6 | - | not modelled |

What is hard in them, and the properties that make each correct:

* **A/B slots** (the first three rows).  A switch of slots is a dozen writes to
  the media that must survive a power loss between, and inside, any two of
  them; three independent pieces of state (attributes, type GUIDs, boot LUN)
  must end on the same slot; no function tells its caller of a failed transfer;
  the two images work on a snapshot the partition driver took before either of
  them wrote.  Correct means: a LUN never loses both copies of its GPT; a pair
  never loses one of its GUIDs; there is always a slot to boot; nobody but the
  application changes it; a boot after any power loss brings attributes and boot
  LUN together again; the application never resets into the wrong slot.
* **Op6tSlotDxe**.  Three writes to one copy of the GPT with the checksums
  wrong in between, and a search over disks whose last one gets new checksums
  whether or not it was the one that was found.  Correct: only the disk that
  holds `boot_a` gets a flag, and after each boot its flag is active under
  right checksums; that the offsets of the names fit the device is the user's part
  (slot.h:50), and where they do not, at least no flag may be written.
* **Touch drivers**.  Polled from a timer at `TPL_CALLBACK`, and from
  `WaitForInput` at `TPL_NOTIFY`, while `GetState` reads the same state at
  whatever TPL its caller has; a request/response protocol with asynchronous
  reports; Start paths that fail with resources open; reports whose layout is
  a little program sent by the controller.  Correct: one I2C transfer
  at a time; a reported touch is a state the panel had; the bus is closed when
  the OS takes over and open while it is polled; every Start and every report
  comes to an end.
* **PlatformBootManagerLib**.  Boot options, order and hot key are variables
  written one by one, each of which can fail while the rest goes on, with a number
  handed from one call to another; a capsule that fails after one that was applied.
  Correct: what is built in is offered once, and a failure costs its own option only; the
  key opens what the screen says, or nothing; applied capsules are followed by one reset.
* **The start of the platform**.  Memory, SMBIOS and ACPI tables are built from
  tables written by hand for thirty devices, selected by the size of the
  memory, and by code that looks at no status.  Correct: memory is described
  as free once and never what is kept; handles lead to the records they are named for;
  the DSDT is patched, or gone only after a failure; the modem's memory is kept
  from everybody else and known to the OS.

Every hazard, with its line and the properties aimed at it, is in the
`hazards` of `PROJECT.json`.

## 2. Plan

Done, in this order: `SlotTable`, `BootSlot`, the abstract `SlotSwitch`,
`BootSlotProofs`; `Op6tSlot` with its proofs; `TouchPoll` with its proofs;
`TouchBinding`, `TouchReport`; `BootManager`; `MemoryInit`, `Smbios` and
`AcpiUpdate` over the tables of all ports, composed in `PlatformStart`;
`TouchBindingProofs`, `BootManagerProofs` and `PlatformStartProofs`; `BootSlotSwitchProofs`
(pairs, the boot LUN, what SetActiveSlot leaves) and `SlotSwitchProofs` (the slot of
the next boot, the whole switch, the refinement of `SlotSwitch`); then the abstract
`AbsolutePointer`, which `TouchPoll` implements, and the theorems about memory, records
and the modem's region.

The runs are few and each carries several properties; what a theorem says of every device
needs no run for each kind of device.  What is left:

1. `ResetOnlyWhenSwitched` with a failed transfer, and `RefreshKeepsSlot` for every device.  The
   first depends on the layout of the media (section 4), so a theorem would have to name the
   layouts for which it holds.
2. The poll of SynapticsRmi4Dxe as a variant of `TouchPoll`; `FbConsole` for
   FrameBufferSerialPortLib.

## 3. The modules

| module | what it is |
|---|---|
| `SlotTable.tla` | `PtnEntries` as a function of the index, and the pure part of BootSlotLib: names, candidates, the active slot, the attribute words SetActiveSlot writes, the exchange of GUIDs |
| `BootSlot.tla` | the state machine: media, partition driver snapshot, the running image, `UpdatePartitionAttributes` step by step, power losses and failures; the properties |
| `SlotSwitch.tla` | the abstract specification: active slot, boot LUN, live side of each LUN |
| `MCBootSlot.tla` | small devices for TLC |
| `BootSlotProofs.tla` | theorems about `BootSlot`: types, a readable copy |
| `BootSlotSwitchProofs.tla` | theorems about a switch: pairs of GUIDs, what SetActiveSlot leaves, the boot LUN |
| `SlotSwitchProofs.tla` | theorems about the slot of the next boot and the refinement of `SlotSwitch` |
| `Op6tSlot.tla`, `MCOp6tSlot.tla`, `Op6tSlotProofs.tla` | Op6tSlotDxe: state machine and properties, a small phone for TLC, theorems |
| `AbsolutePointer.tla` | the abstract specification of a touch driver for its client: a place for one touch |
| `TouchPoll.tla`, `MCTouchPoll.tla`, `TouchPollProofs.tla` | SynapticsTCMDxe after Start: contexts by TPL, messages, properties; clients for TLC; theorems |
| `TouchBinding.tla`, `MCTouchBinding.tla`, `TouchBindingProofs.tla` | both touch drivers as UEFI drivers: from the device driver to ExitBootServices; theorems |
| `TouchReport.tla`, `MCTouchReport.tla` | the interpreter of touch reports; layouts of controllers for TLC |
| `BootManager.tla`, `MCBootManager.tla`, `BootManagerProofs.tla` | PlatformBootManagerLib, boot after boot; theorems |
| `Phone.tla` | what the stages of the start share: the phone, its map, failed calls, the lookup by name |
| `MemoryTables.tla`, `SmbiosTables.tla` | the memory maps and the SMBIOS templates of every port, row by row |
| `MemoryInit.tla`, `Smbios.tla`, `AcpiUpdate.tla` | the three stages of the start, each with its properties |
| `PlatformStart.tla`, `MCPlatformStart.tla`, `PlatformStartProofs.tla` | their composition and the properties that take two of them; every port, with phones of several sizes; theorems |

### `BootSlot`: state

| variable | code |
|---|---|
| `disk`, `crcOk` | the primary and backup GPT of every LUN: entries, and whether both checksums are right |
| `bootLun` | what `GetBootLU` returns: 1 boots slot a, 2 slot b |
| `partInfo` | what the handles' `EFI_PARTITION_INFO_PROTOCOL` says.  The partition driver reads it when it connects the disk; nothing refreshes it when an image writes the disk |
| `known` | the entries EnumeratePartitions and UpdatePartitionEntries filled; all, unless a lookup failed |
| `mem`, `bak` | `PtnEntries` and `PtnEntriesBak` of the running image (each image links its own BootSlotLib, so each starts over) |
| `image`, `pc` | which image runs and where |
| `cur`, `slot` | `CurrentSlot`, and the slot `SetActiveSlot` is called with |
| `utype`, `ret`, `lun`, `copy`, `idx`, `ptr`, `buf`, `dirty` | inside `UpdatePartitionAttributes`: its argument, its caller, `Lun`, `Iter`, `i`, `PtnEntriesPtr`, the block read into `GptHdr`, and the negation of `SkipUpdation` |
| `crashes`, `faults` | budgets (bounds of the model, not of the code) |

### `BootSlot`: actions

An action is what happens between two accesses to the media, or one of
them, so that power can be lost around each: `ReadCopy` (ReadBlocks of one copy),
`WalkGuid` / `WalkAttr` / `WalkMismatch` (one iteration of the loop over the
entries; the last is the `continue` that leaves `PtnEntriesPtr` where it is),
`WalkEnds` (`SkipUpdation`), `WriteCopy` (the checksums and WriteBlocks),
`LunSkipped` (a lookup that succeeds without a handle: the code goes on with the next LUN),
`FlushExits` (every early return), `WriteFails` (WriteBlocks returns an error).
`Start` is EnumeratePartitions and UpdatePartitionEntries; when a lookup goes wrong the image
either ends (`StartFails`: an error of the last lookup) or works on what it has
(`StartsPartly`: entries without a type GUID, which `WalkSkip`, SwitchPtnSlots and MarkPtnActive
pass over).  A SwitchSlotsApp that gives up waits for a key (`pc = "key"`, `PressKey`).  The
other actions are named after the function, or the part of it, they stand for.
`UpdatePartitionAttributes`, `GetActiveSlot` and `NextCopy` are used inside actions the
way the functions are called.

External, modelled from how the code relies on it: `Connect` (PartitionDxe
checks both copies, rewrites a bad one from the other and publishes the
primary's entries), `LoaderMarksUnbootable` (the boot loader before UEFI gives up
on a slot), power loss, the user's `RunApp` and `Reboot`.

A write that is cut off leaves a prefix of the new entries and wrong
checksums: header and entries travel in one transfer of the whole table.

### `BootSlot`: abstractions

* Attribute words keep priority, ACTIVE, SUCCESSFUL, UNBOOTABLE and "the retry
  count is 7".  The library never writes another count.
* Names are a base and a tail; `StrStr(L"_a")` and prefix comparisons stay what
  they are, so `boot_abc` would match like in the code.
* The raw LUN handles in `PtnEntries`, which every loop skips (they
  have no type GUID), and LUNs without partitions are left out; so is the limit
  of 128 entries, but for what it does after a failed lookup: the 128 empty entries
  EnumeratePartitions then counts leave no room for the LUNs behind (`Missing`).
* The device has slots (`PartitionHasMultiSlot`); on others both images stop at
  once and change nothing.
* `FlushExits` stands for the exits of `UpdatePartitionAttributes` before its
  write: a lookup that is an error, no memory, header or checksum refused, ReadBlocks failed.

### `Op6tSlot`

`gpt` and `backup` are the flags and checksums of each handle with DiskIo, in the
order of `LocateHandleBuffer`; `index` is `handleIndex`, `disk` the handle whose
protocols are in `mDiskIoProtocol` and `mBlockIoProtocol` (globals, so they stay when
the loop goes on), `slot` the flag chosen.  `Examine` is one iteration of the
loop up to the filters, `ExamineFails` its `continue`s, `ReadFlags` the choice of the
slot, `WriteFlag` / `WriteFlagFails` the write and its `break` or `continue`, `LoopEnds`
the call of `FixGptCRC32` after the loop whichever way it ended, `WriteEntryCrc` and
`WriteHeaderCrc` its two writes.  Each write is one action: power can be lost
between any two.  External: the loader changes the flags of a valid table, and
PartitionDxe restores a primary GPT with bad checksums from the backup.

`hasBootA` says on which handles this phone has the name at the offset the driver looks at:
"The offset may very from device to device" (slot.h:50), so a phone may have it nowhere, and
then `LoopEnds` hands the last handle looked at to `FixGptCRC32`.  Of what that handle holds
the model keeps that its bytes were replaced by checksums, not what they were.

A checksum is modelled by what it was computed from (an injective function), the
eight flag values by active, unbootable and the rest.  A handle with DiskIo
has BlockIo, which DiskIo stands on; the second `AllocatePool` of `FixGptCRC32`, whose
result is overwritten, has the early return only.

### `TouchPoll`

`initialized`, `changed`, `lastX`, `lastY` are the fields of `TCM_INTERNAL_DATA`; `queue` and
`reading` the panel's messages and whether the header of the first has been read (a
message takes two transfers; a reset of the controller may come in between and leaves
its identify report only); `clientTpl` the TPL of the client that called last (one at
a time); `pc[c]` where each of the contexts `timer`
(`SyncPollCallback` at `TPL_CALLBACK`), `wait` (`AbsPWaitForInput` at `TPL_NOTIFY`) and
`client` is; `touch[c]` its `TouchPointerData`; `gotX`, `gotY`, `handed` what `AbsPGetState`
fills and returns; `waitQueued`, `signalled` the state of the WaitForInput event.
Every access to the instance, and every transfer, is a step of its own, because
a context at a higher TPL may come in before it; `MayPoll`, `MayCall` and `Runs` are the
rules of the event dispatcher (external).

A position is the number of the message that reported it, per axis, and whether
the axis has been turned round: enough to tell a torn position, an old one, or
one turned too late.  A report that carries no touch leaves `TouchPointerData`
uninitialised: `StackContents` takes either outcome, touch 0 standing for any
position.  Response and command state do not matter between Start and Stop, where
no command is sent.

`Pointer` in `TouchPoll` is the instance of `AbsolutePointer` that `ImplementsPointer` is about.
There a call is one step and a touch is offered in the step in which its message has been
read, before the poll stores it axis by axis: `offered` is the touch of the poll that is
storing one, or else what is stored and announced; `taken` is what GetState returned last; `past`
is the last message the driver has gone past, read or lost; `call` is the call the client is
in.  A torn position, one handed out a second time, and a touch lost by a call that clears
`StateChanged` too late are all steps that `AbsolutePointer` does not have.

### `TouchBinding`

`driver` says which of the two drivers the platform has.  `pc` is where Start is,
one stage per call that can fail or per access to the controller; Start runs at
`TPL_CALLBACK` in one piece, so only the controller (`Sends`, `Answers`) acts between
its stages.  `bus` holds the numbers of the instances whose I2C controller is open,
`gInstance` is `gI2CInstance`; `config` is what `ConfigData` has: nothing, a
configuration, or the payload of some other response, which the code takes
for one.  `queue` is what a TCM controller has to send; its interrupt line is low
iff there is something.  `Receive` is `SynaGetTouchData` as far as Start depends on it:
the identify report clears `Initialized` and fails a command under way, a response goes to
whoever waits.

For RMI4 `pdt` is the page description table, `Scan` the loop of SynaInitialize:
F12 found, a page without entries (which ends the loop without F12, and
Start succeeds), the next page, the next entry, a failed read.  `page` has
8 bits in the code; `PageNumbers` is the number of its values.

The device driver is `Publish`: without the I2C or GPIO protocol nothing is
published and nothing else can happen.  Which register turns which rail on, and
the delays between, are left out.

### `TouchReport`

One action per code of the configuration (`Foreach`, `ForeachEnd`, `ObjectNIndex`, ...),
run over the payload of one report.  `ParseSingleByte` is the loop of
TcmParseSingleByte as a recursive function of the bits that remain.
The configurations and reports are made from a layout (the fields of a frame and of an
object with their widths), so that what a report means is known: `ReportExact` compares.
The widths of an object fill bytes and the object index is wide enough to
tell the padding byte from an object (`ReportAssumption`): without that the
padding would be taken for one more finger, and the source does not say that
controllers may send such a layout.

### `BootManager`

`option`, `order`, `key`, `conIn` are the variables; `pc` is the stage of
the boot, in the order and with the `#ifdef`s of the code (`Route`).  Adding an option
is two actions, the write of `BootOrder` and that of `Boot####`, of which either can fail or be cut
off; `number` is `OptionNumber`, which keeps the number of an option that could not be written;
`lost` has the options, and "key", that could not be written in this boot.  `capsules` is what the
HOB list has, `applied` counts the capsules processed in this boot.  External: what
UefiBootManagerLib does with the variables, the device that comes and goes, the OS that leaves
capsules.

What the builds of this repository make of the code is part of the model:

* The variables are in memory.  Every SoC's `.dsc` includes `QcomCommonDsc.inc`, which has
  VariableRuntimeDxe emulate non-volatile variables (`PcdEmuVariableNvModeEnable`, lines 90-92,
  "Fake Variable Services", line 401) and reserves no store, so `PowerOn` finds them empty.
  What the user edits in the menu is gone with the next start, `EfiBootManagerFindLoadOption`
  finds nothing that was not registered in this boot, and the branch of
  PlatformRegisterFvBootOption for an option that exists, which returns
  `LoadOptionNumberUnassigned` cut to 16 bits, is never taken.  It would matter with a store
  that lasts: the hot key would be bound to option 0.
* Assertions print and go on (`PcdDebugPropertyMask`, lines 79 and 82), so a failed write ends nothing.
* The boot time-out is given twice (3 in line 116, 0 in line 139, of which the last counts);
  `Timeouts` has both, for WaitCallback is code for the first.
* CapsuleLib is the library that refuses every capsule (lines 164 and 334).  HandleCapsules is
  written for capsules that succeed, too, and the model has them.

The order of `BootOrder` is left out, and so are the device paths that
BeforeConsole filters; of those it adds to `ConIn` there are three.

### `PlatformStart`

`Phone` is the phone (map, SoC, heap, memory nodes, names its DSDT has) and where its
start is.  `MemoryInit` takes the rows of the map one by one: `hobs` and
`MemoryDescriptor` are the rows that went to HOBs and to the MMU table.  `Smbios`
runs the list of `LogSmbiosData` calls of the driver and of the port, `Script`; `handle` is
the variable `SmbiosHandle` of each of the two functions, `field` the handles copied
into templates so far.  `AcpiUpdate` goes through the names PlatformSetup of
the SoC patches, in order; `dsdt` is whether there is a DSDT, `patched` what was
written into it, `modem` the region the hypervisor was told of.

Addresses are in pages.  The maps are the tables of the source row by row; the
names kept are those something looks up, and a kind (`Free`, `Kept`, `Carved`, ...)
stands for HobOption, ResourceType, MemoryType and ArmAttributes.  Maps that
are equal in the source are defined once.  Of an SMBIOS template are kept the
strings it numbers, its cores, cluster, cache level and kind.

What the tables must be for the properties to hold is written down apart from the code
that goes through them: `TablesSound` (every class's rows are memory a phone can be given),
`TablesKeepModem` (every class has a block for the modem's region and no free memory in it) and
`ScriptsSound` (each record comes before those that name it, and its handle is copied to
them).  `PortTables` in `MCPlatformStart` has TLC evaluate the three for every port, and the
theorems of section 5 start from them.  `NominalSize` is the memory of a phone of a class.

The maps are not all sound, and what is wrong with each is written down by port; the properties
hold but for that, and a further fault of any map, also of one that is listed, would be seen:

| what | ports | definition |
|---|---|---|
| memory is described as free twice or three times: the rows at 0x60000000 (twice), 0x63900000 and 0x67E00000 overlap each other, those at 0x80000000 (twice) and 0xC0000000 (twice) too, and each gets a block of its own | sm6225, sm6375 | `ListedOverlaps` |
| free memory reaches into a region that is kept | sdm660, sm7150, the eight msm8998 phones, and of the sm8250 phones all but apollo and elish | `ListedOverlaps` |
| kept regions overlap and are mapped differently, the later row counts | mata, nx563j | `ListedOverlaps` |
| no block of free memory holds the UEFI heap: the map leaves that memory to RamPartitionDxe | sm7125 | `HeapLeftOut` |
| no block holds the heap: the map has rows for the classes of 6, 8 and 12 GB only | the four sm8150 maps, classes of 4 and 10 GB | `HeapLeftOut` |
| the region of the modem is found by name but has no block: its rows are of the same three classes | nabu (Xiaomi's additions), classes of 4 and 10 GB | `ModemLeftOut` |

`ExceptionsAreReal` in `MCPlatformStart` has TLC check that none of these is idle: each listed pair
does overlap for a phone of every class, and the heap and the modem's region have no block where
they are said to have none.  What the DXE core makes of two blocks for one page is code of EDK2.

## 4. Runs

**BootSlot.**  Small devices: five partitions, a boot pair, a modem pair and one without
slots.  On UFS the boot pair has a LUN of its own and the rest is on the next,
so that a flush has two LUNs to go through and a walk a foreign entry to
pass; on eMMC all are in one table, so that the walk crosses from one pair to the
next.  Devices start new (no attributes), running A with B unbootable, or just
switched to B.  Longer tables repeat these cases: the walk treats entries
alike, and pairs do not interact except through the pointer that
`WalkMismatch` leaves behind, for which two pairs suffice.
The runs that pass are on UFS, whose actions include all of eMMC's; that the safety properties
without a fault hold on eMMC, too, is in section 5, where the device is any.

| run | bound | properties | what it shows |
|---|---|---|---|
| `ufs_crash` | 1 power loss | `TypeOK`, `SwitchComplete`, `NeverWithoutSlot`, `OnlyTheAppSwitches`, `ImplementsSlotSwitch` | at the reset of an undisturbed switch attributes, GUIDs and ACTIVE flags of both copies are on the new slot, and equal to `PtnEntries`; the slot of the next boot; refinement of `SlotSwitch` |
| `ufs_crashes` | 2 power losses | `SomeCopyValid`, `PairsKept`, `SetActiveSlotHolds`, `ResetOnlyWhenSwitched`, `LunAfterAttributes`, `BootCompletes` | the second loss may hit the repair of the first |
| `ufs_faults` | 1 failed lookup, allocation or transfer | `RefreshKeepsSlot`, `ImageEnds` | errors no caller is told of: the driver of this or a later boot changes no slot, and every run ends in the menu, off, or at the key SwitchSlotsApp asks for |
| `both_copies` | eMMC, 1 power loss | `BothCopiesUpdated`: violated | finding 1 |
| `no_slot` | devices that had a slot, 1 failure | `SlotAvailable`: violated | finding 2 |
| `op6t_boots` | 3 handles, phones with and without `boot_a` in its place, 2 power losses, 3 failed calls | `TypeOK`, `ActiveAfterBoot`, `OnlyTargetWritten` | an undisturbed boot after any number of disturbed ones ends active and valid; a flag is written on the disk with `boot_a` only, and nothing on another handle while no call fails and there is such a disk |
| `touch_polls` | clients at `TPL_APPLICATION` and `TPL_CALLBACK`, 3 messages, 1 failed transfer | `TypeOK`, `CriticalSection`, `HandedOutInOrder`, `HandedOutWhole`, `NoTouchForgotten`, `LineServed` | the timer may interrupt the first anywhere; the second gets whole positions and loses none; no call returns a touch an earlier one returned |
| `touch_pointer` | clients at `TPL_CALLBACK`, 4 messages, 1 failed transfer | `ImplementsPointer` | refinement of `AbsolutePointer` |
| `touch_binding` | 2 drivers, 5 page tables, 3 functions a page at most, 3 page numbers, 2 Starts, 3 messages, 2 failures | `TypeOK`, `ClosedAtHandOver`, `PointerAlive`, `StartEnds` | both drivers, a failure anywhere, messages at any moment, tables of every shape |
| `touch_report` | 3 layouts, up to 2 objects of 16 kinds, 10 objects to tell apart | `TypeOK`, `ReportExact`, `InterpretationEnds` | the interpreter against the meaning of the report |
| `boot_manager` | with and without Simple Init, time-outs 0 and 3, 2 ended boots, 8 option numbers, 5 lists of capsules, 2 failed writes or losses of power | `TypeOK`, `AppsOffered`, `KeyOpensShown`, `ResetAfterCapsules`, `BootArrives` | variables and capsules through boots with losses of power and failed writes |
| `platform_start` | all 34 ports, 8 memory configurations, 90 phones, 1 failed call | `TypeOK`, `MapSound`, `RecordsSound`, `PatchedOrGone`, `ModemMemoryReserved` | the start of every port |

Why the bounds differ.  `NeverWithoutSlot`, `OnlyTheAppSwitches` and the
refinement hold with one power loss and fail with two: the first can leave both
copies valid with different GUIDs, after which the backup is no longer updated
properly (finding 1), and a second one that tears the primary makes the
partition driver restore that stale backup.  `SwitchComplete` is about
lives without a power loss, for the same reason; what does hold after one is `SetActiveSlotHolds`.
`ResetOnlyWhenSwitched` is about power losses only: with one failed lookup SwitchSlotsApp may leave
no active slot and reset (finding 2), and with one failed transfer it depends on the layout of
the media (the first of the differences below).  Without failures it holds on every device
(section 5).  What a failure must not do on the device of the run is `RefreshKeepsSlot`: one
failure, in the driver or in an earlier run of the application, and the driver
of every boot after it keeps the slot it finds.  `no_slot` starts from devices that have had a
slot, for on a new one a first boot without a slot is what BootSlotDxe expects.

**Op6tSlot.**  The disk with `boot_a` comes between one of its partitions (a handle
that is filtered out before it) and a disk with a shorter table (after it):
the three cases the filters tell apart; on the other phone no handle has the name
in its place, and the last one looked at is the disk with the shorter table.  Three failed calls are what it takes to
fail the lookup, the flag and a checksum in the boots between two power losses.

**TouchPoll.**  Two messages make a torn position, a third one shows an order; one
failed transfer puts header and payload out of step, and the message after it
shows how the polls find back.  `HandedOutWhole` and `NoTouchForgotten` hold at
`TPL_CALLBACK` only, and say so: at `TPL_APPLICATION`, where the UEFI specification lets a client
be, the timer comes in between the reads of the two axes or before `StateChanged`
is cleared, and what remains is `HandedOutInOrder`: each call of GetState
that returns a position returns newer touches than the call before it.
`touch_pointer` has a fourth message, as one touch may be taken, one replaced, one lost and one
left on offer.

**TouchBinding.**  The five page description tables are F12 on the first page and on
a later one, no entries at all, more functions than the driver looks at, and as many
pages as there are numbers without F12, so that the page number wraps.  A
second Start is allowed and never comes, because neither a failed Start nor Stop
closes the device protocol; three messages are the identify report, an answer, and
one that comes uninvited.  Two failures are one that the driver survives, as a lost
command is, and one it does not.  `CHECK_DEADLOCK FALSE`,
because after ExitBootServices the firmware does nothing more.

**TouchReport.**  `Aligned` has fields within and across bytes, `Crossing` fields of 5, 6
and 13 bits that begin anywhere in a byte, and a frame before the objects, `Table` every
object in its place.  Two objects show the loop and which of them is reported; the
values are the ends of what the fields hold on the panels of this repository.
`CHECK_DEADLOCK FALSE`: the interpretation ends.

**BootManager.**  Two boots that end, by the OS or by a power loss, and the one after
them: the OS of one leaves the capsules of the next.  Two faults are two options that cannot be
written, or an option and its key, so that a number may be left free twice and taken
by others.  With eight numbers the list of options never fills up.
The lists of capsules have none, one, and each order of a good one and a
bad one.  `CHECK_DEADLOCK FALSE`: the number of boots is bounded.

**PlatformStart.**  Each port once with 6 GB and all names in its DSDT; the eight maps
that have rows for memory classes also with seven other sizes, among them phones with two
memory nodes and sizes no class is for, and with DSDTs in which names are
missing.  One call fails anywhere: the stages share nothing but the phone and
its map, so a second failure meets no state the first has changed.
`CHECK_DEADLOCK FALSE`: the start ends with the OS.

Fairness (`FairSpec` of `BootSlot`).  A UEFI image is one thread of control, so an image that
runs takes its next step: weak fairness of `Flush` and of `Image`.  The one thing it waits
for is the key after a failure of SwitchSlotsApp (`WaitAnyKey`); `PressKey` is the user's, and
nothing makes the user press it, run or reboot anything.  `ImageEnds` therefore ends at
that key at the latest.  A powered machine connects its disk: weak fairness of
`Connect`.  Nothing makes a failure happen.

Fairness (`FairSpec` of `TouchPoll`).  A context that runs takes its next step, and
an event that is queued is dispatched: weak fairness of the polls, of `Signal`, of the
client's steps inside a call and of `BeginWait`.  The timer event is periodic and
stays queued while the TPL is too high, so it is dispatched when the TPL drops:
strong fairness of `BeginTimer`.  Neither the panel nor the client has to do
anything.

Fairness of the others.  `TouchBinding`: a Start that is under way goes on (weak
fairness of `StartStep`); its waits are bounded by counters, so nothing is assumed
of the controller.  `TouchReport`: one thread that waits for nothing
(weak fairness of `Next`).  `PlatformStart` has safety properties only and needs none.  `BootManager`: while the power is on, BDS runs up to
its wait (weak fairness of `Boot`); the user, the OS and the capsules are free.

### Findings

1. **Both copies** (`PartitionTableUpdate.c:352`).  Attributes are matched by
   type GUID; on a mismatch the loop `continue`s without advancing the pointer
   into the copy.  After a power loss between primary and backup of a GUID swap
   the backup's GUIDs are not those in memory and its entries get the
   attributes of their siblings, or none.
2. **No slot** (`PartitionTableUpdate.c:242`).  A LUN whose lookup yields no handle is passed
   over in a flush.  When that is the LUN of the boot pair in the GUID flush of a switch from B to A,
   the flush of attributes that follows finds the LUN again, matches the GUIDs of
   memory, which are swapped, with those on the media, which are not, and puts the attributes of
   `boot_b` over those of `boot_a`: no slot is active, the application resets all the same, and the next
   boot is the one "there is no slot available (shouldn't happen though)" is about
   (BootSlotDxe.c:55).  SetActiveSlot refuses there, so that A is not made active either.

Differences between the code and what it says of itself that were met while
modelling and have no run of their own:

* `PartitionTableUpdate.c:322` updates `PtnEntriesBak` while the buffer is changed, before the
  write, and line 217 skips a flush when `PtnEntries` equals it.  TLC finds
  `ResetOnlyWhenSwitched` violated with one failed transfer on devices of two kinds.  Where
  `boot_a` and `boot_b` are the only slotted partitions, a failed write of SetActiveSlot's
  attributes is never repeated; with a further pair MarkPtnActive changes an entry that the
  failed flush did not have, and the next flush writes both.  Where the boot pair comes on the
  last LUN, the write that fails is that of its GUIDs: `PtnEntriesBak` has the new ones
  already, the media do not, so the walk of the next flush of attributes meets GUIDs that
  differ (line 352), its pointer stays behind, and it writes the attributes of `boot_b` into the
  entry of `boot_a`; the last two flushes find nothing to do, and SwitchSlotsApp resets into
  the old slot.
* `PartitionTableUpdate.c:566` swaps whatever GUIDs a pair has, and line 591 writes one
  LUN after the other.  A pair that spans LUNs (xbl on UFS) and loses power in between has
  one GUID on both sides, which later swaps keep while they move the other pairs: with such
  a pair and one power loss TLC finds `ImplementsSlotSwitch` violated.  With `boot_a` and
  `boot_b` on different LUNs it finds `NeverWithoutSlot` violated between the two writes.
* `PartitionTableUpdate.c:572`: the results of GetBootLU and SetBootLU are ignored; a
  failed read leaves 0, which is then set, and SetActiveSlot succeeds.
* `PartitionTableUpdate.c:573` says the boot LUN is changed instead of the GUIDs of
  xbl; the code does both.
* `PartitionTableUpdate.c:81`: SwitchSlotsApp takes the snapshot from before
  BootSlotDxe ran and writes the old attributes of the slot it leaves.
* `PartitionTableUpdate.c:890`: BootSlotDxe wants to make A active when no slot is;
  SetActiveSlot refuses exactly then.
* `slot.c:138`: after the loop the checksums of the disk looked up last are
  computed anew, also if that disk was filtered out: when the write of the flag
  fails and the loop goes on, and in every boot on a phone with `boot_a` nowhere the driver
  looks.  The two checksums are written at fixed offsets of that handle's second block, over
  whatever it holds: a header of a GPT on a disk, data on a partition.
* `SynapticsTCMDxe.c:542`: "need reinit", says the message; `Initialized` is cleared
  and nothing sets it again.
* `SynapticsTCMDxe.c:600` says that `SyncPollCallback` enters a critical section, but the
  RaiseTPL is commented out: with `TPL_NOTIFY` in `ClientTpls` TLC finds
  `CriticalSection` violated, a client that checks WaitForInput in the middle of
  the timer's poll starting a second one.
* `SynapticsTCMDxe.c:899`: the configuration is asked for once and waited for one
  round; whatever response comes then is taken for it.
* `SynapticsRmi4Dxe.c:163`: a page without entries ends the scan without F12, and
  Start succeeds all the same.
* In both drivers a Start that fails does not close the device protocol it opened.
* `PlatformBm.c:528`: the second handle of a list is used without a look at the count.
* `MemoryInitPeiLib.c:115`: the class is a range of sizes, its rows are for the full one.  A
  device tree that names 5.5 GB gets rows of 6 GB, so the property that no more memory is
  handed over than there is (`Fits`) is about the nominal sizes.
* The maps of `MemoryTables` overlap, or lack rows for a class, where the table of section 3 says so.

## 5. Proofs

`BootSlotProofs.tla`, for every table, device, set of initial attributes and
number of power losses, from the assumptions `TableAssumption` and
`BootSlotAssumption` only:

* `TypeCorrect`: `Spec => []TypeOK`.  The lemmas before it give the type of each
  operator of `SlotTable` once; the priority field is the interesting one, two
  bits that every update has to stay in.  `TypeOK` is inductive as it stands.
* `CopySurvives`: `MaxFaults = 0 => (Spec => []SomeCopyValid)`.  `SomeCopyValid`
  is not inductive: a write of a copy is only safe if the other copy is good at that
  moment.  The invariant `CopyInv` adds `ValidWhenOn`: while the machine is on
  and no transfer has failed, every copy of every LUN has right
  checksums (the partition driver repaired them before any image ran, and every
  complete write leaves them right).  A power loss then tears at most one, and
  with the machine off nothing is written.  With failed transfers the theorem
  does not hold by this argument.

`BootSlotSwitchProofs.tla`, for every table and number of power losses.  All four
assume `MaxFaults = 0`: the code tells no caller of a failed lookup or transfer, so that with one
SetActiveSlot is done without having reached the media (finding 2 is such a case).

* `PairsSurvive`: `... /\ PlainNames => (Spec => []PairsKept)`.  `PlainNames` excludes names
  with `_a` or `_b` in their middle, which `StrStr` takes for slotted ones.  `PairInv` says
  the same of `PtnEntries`, of the snapshot and, by `BufGuids`, of the buffer: it has the
  GUIDs of the memory up to `i` and those of the copy from there on, so that it is
  whole again when the walk ends.  `WalkInv` keeps `i` and `PtnEntriesPtr` in step with the
  LUN.
* `SlotIsSet`: `... => (Spec => []SetActiveSlotHolds)`.  UpdatePartitionAttributes compares
  `PtnEntries` with `PtnEntriesBak` to see what it has to write to a third table, the media.
  `SlotInv` is what makes that right: between flushes the tracked fields of `PtnEntriesBak` are
  those of the media (`Rest`), during one they are those of the memory as far as the
  flush has come and of the media from there on (`Flushing`, `Buffer`, `Cursor`), the flush of the new
  attributes is never skipped (`BakBehind`), the snapshot is out of date only in the boot
  attributes (`Remembered`), and the boot LUN is that of the slot once it has been
  looked at (`LunInv`).
* `ResetIsIntoTheSlot`: `... => (Spec => []ResetOnlyWhenSwitched)`, from the same invariant:
  no flush after SetActiveSlot changes the boot attributes the next boot looks at.
* `LunFollows`: `... => (Spec => LunAfterAttributes)`, from the same invariant: the boot LUN is
  set after a flush that has ended.

`SlotSwitchProofs.tla`, what the next boot will read.  `NextBootTable` changes when a
primary is written, and a write that is torn is undone from the backup (`TornIsUndone`).
That puts the old entries back only if the backup has them: `Mirror` says that before the
first power loss the copies are equal but for the field on its way from the one to
the other.  After one they may differ for good (finding 1), which is why the theorems that
allow a power loss allow one.

* `AppSwitches` and `NeverSlotless`:
  `MaxFaults = 0 /\ MaxCrashes <= 1 /\ BootTogether => (Spec => ...)` for
  `OnlyTheAppSwitches` and `NeverWithoutSlot`.  `ActiveInv` says which slot a write carries:
  BootSlotDxe writes the slot the media has, or makes A active on a first boot,
  SwitchSlotsApp its target.
* `SwitchIsComplete`: `MaxFaults = 0 /\ BootTogether /\ PlainNames /\ Paired /\ Delivered =>
  (Spec => []SwitchComplete)`, for pairs that span LUNs, too.  `SideInv` says on which side the
  GUIDs of the media are when no switch is under way, and those of the memory at
  each point of one; `MarkedInv` that the ACTIVE flags follow before the reset.
* `MediaSwitch`: `Spec => Media!Init /\ [][Media!Next]_(Media!vars)`, the safety part of the
  refinement, from `SidedInv`: the GUIDs of each LUN are on one side (`OnSide`), and only
  the application moves them, LUN by LUN, once the boot LUN has been set.

`BootTogether` (the boot pair in one LUN) and `PairsTogether` (every pair) are limits of the
code, as section 4 shows.  `Paired` (a partition of a slot has its sibling), `Delivered` (a new
device has its GUIDs on the side of the slot `GetActiveSlot` finds), and for `MediaSwitch` an idle
GUID that no partition has and a UFS device, are what `Init` and the refinement mapping
need to say which side is live.  Every device of `MCBootSlot` satisfies them.

`Op6tSlotProofs.tla`, for every list of handles, every set of phones and every number of power
losses and failed calls (`Op6tAssumption`):

* `Op6tTypeCorrect`: `Spec => []TypeOK`.  Not inductive by itself: a failed write of the
  flag moves `index` on, which stays in range only because the driver was then on a
  handle.  `OnTarget` (while it reads and writes flags it is on a disk with `boot_a`) adds that.
* `WritesOnlyTarget`: `Spec => OnlyTargetWritten`, without a word on the phone.  `Passed` adds to
  `OnTarget` that no handle the search has left behind in an undisturbed boot has `boot_a`, so
  that a search that came to its end means there is none.
* `BootActivates`: `RightPhones` implies `Spec => []ActiveAfterBoot`.  `RightPhones` says that the driver
  is on a phone it is made for: at most one disk has `boot_a` in its place, and that disk's entries
  fill the three blocks FixGptCRC32 sums.  The invariant is `TypeOK`, `OnTarget` and
  `Undisturbed`, which says for each point of an undisturbed boot how far the target
  is: valid until the flag is written, active from then on, entry checksum
  right once written.  The point of the proof is that an active flag seen at the
  beginning comes with right checksums, because PartitionDxe has replaced
  what a power loss left behind.

`TouchPollProofs.tla`, for every number of messages and failures (`TouchAssumption`).  All but
the first assume `TPL_NOTIFY \notin ClientTpls`; with a client there `CriticalSection` is false,
as section 4 says.

* `TypeCorrect`: `Spec => []TypeOK`.  A payload is only read while there is a message.
* `PollsExclude`: `Spec => []CriticalSection`.  The code has no lock, so the argument is one
  of TPLs: while the timer's poll is active the other is neither active nor queued
  (`Apart`), because only a check of the event queues it and a client up to `TPL_CALLBACK`
  cannot interrupt the timer.
* `GetStateIsWhole`, `NothingForgotten`, `TouchesInOrder`: `HandedOutWhole`, `NoTouchForgotten` and
  `HandedOutInOrder`.  `PositionInv` follows a touch from the queue to the client: nothing is
  queued while a client is in the driver, and one at `TPL_CALLBACK` has it for itself
  (`Alone`); the queue is in order (`Ordered`) and
  behind everything held anywhere (`AllSeen`); an announced position is one touch the client
  has not had unless a poll is changing it (`Position`), and then what has been stored so far
  is the poll's (`Stages`); what the client has read is new and in order, and at
  `TPL_CALLBACK` still what is stored (`Taken`).
* `PointerImplemented`: `ClientTpls = {TPL_CALLBACK} => (Spec => ImplementsPointer)`, the refinement of
  `AbsolutePointer`.  With every client at that TPL no poll runs during a call, and the two
  polls exclude each other, so there is one touch at most that is being stored; `PositionInv`
  says that it is what the abstract place holds until the next call.  The theorem is about all
  behaviours, for `AbsolutePointer` asks for no fairness.

`TouchBindingProofs.tla`, for every controller, page table and number of Starts, messages
and failures (no assumption is needed):

* `BindingTypeCorrect`: `Spec => []TypeOK`: both waits and the search for F12 end at their limits.
* `BusClosed`: `Spec => []ClosedAtHandOver`, and `PolledBusOpen`: `Spec => []PointerAlive`.
  ExitBootServices closes the bus of `gI2CInstance` only, so the invariant says that
  no other is open (`OneBus`) and why: Start happens once, because nothing closes the
  device protocol it opened (`OneStart`).  `Ready` says what each stage of Start
  has behind it: an open bus from `OpenBus` on, a configuration from `ReadResponse` on.
  Closing the device protocol in Stop or after a failure, which would make the driver
  restartable, would need another argument.

`BootManagerProofs.tla`, for every platform, list of capsules, number of options, boots and
faults (`BootManagerAssumption`):

* `TypeCorrect`: `Spec => []TypeOK`; `StageInv` has the types of the variables and says that every
  stage is one of `Route`.
* `FailureCostsOneApp`: `Spec => []AppsOffered`.  An option is written in two steps, either of which
  can fail, so `UnderWay` says that between them its number has no option and no other
  number has its application, `InOrder` that a number that is free brings no old option with it, and
  `OfferInv` that each application whose stage the boot has passed (`Behind`, from `Route`) is
  there once or was lost.
* `UpOpensWhatIsShown`: `Spec => []KeyOpensShown`.  `KeyInv` carries the number from the stage that
  registers the option on the screen to the one that binds the key: it is that option's
  or, when the write failed, no option's until the key has been bound.
* `CapsulesThenReset`: `Spec => []ResetAfterCapsules`.  `CapsuleInv` keeps BDS at the
  capsules, or in the reset, while some were applied and none has failed; that no
  failed write moves it on there needs `UnderWay` again.

`PlatformStartProofs.tla`, for every set of phones, number of failed calls and stray
handle (`PhoneAssumption`, `SocAssumption`):

* `TableOrFault`: `Spec => []PatchedOrGone`.  The property speaks of the end, so `PatchInv`
  counts on the way: of the names dealt with no more are unwritten than calls
  failed (`Paid`), and what is written is what the map says (`Written`).
* `StartTypeCorrect`: `Spec => []TypeOK`: rows, names and steps of the script are read within
  their lists, and handles are stray or numbers of records.
* `SharedIsTold`: `Spec => [](modem # <<>> => ModemToldTruly)`: the part of `ModemMemoryReserved` that
  does not depend on what is in the tables.
* `MemorySound`: `TablesSound => (Spec => []MapSound)`, and `ModemReserved`:
  `TablesKeepModem => (Spec => []ModemMemoryReserved)`.  The tables differ from port to port and are
  TLC's part; that MemoryPeim hands over what they say, for every device tree, is the
  provers'.  `RowsTaken` is the invariant: the blocks and MMU descriptors so far are the rows passed
  of the class selected, in order and once.  At the end they are therefore all of them
  (`AllRows`), and what the tables promise of these rows is true of the hobs: with the exceptions
  the tables themselves have, which are listed by port (section 3), and no other.  `Counted` carries
  the number of rows over to the length of the MMU's table.
* `RecordsTellOneStory`: `ScriptsSound => (Spec => []RecordsSound)`, whichever records are refused
  and whatever is in a variable nobody wrote.  `RecordInv` says that what was copied into
  a field came from the step that logged its record or that the record was refused
  (`Copied`), that the same holds of the fields in records already added (`Meant`), and
  that while none was refused the table is the script so far (`Scripted`), which is what the sum
  of the cores needs.

`TablesSound`, `TablesKeepModem` and `ScriptsSound` are the only hypotheses on the tables.  They speak
of rows and scripts, not of states, and are true of all 34 ports: `PortTables`, evaluated by
the run `platform_start`.  A new port needs that evaluation only, not a new run of the
state machine.

Model-checked only:

* `ReportExact` and the type of `TouchReport`: the interpreter runs over bits by recursion, and
  induction over data is out of the prover's reach.
* `TablesSound`, `TablesKeepModem`, `ScriptsSound`: facts about concrete tables, which TLC evaluates.
* `RefreshKeepsSlot`: what one failure leaves for the boots after it, on the device of the run.
* `BothCopiesUpdated` and `SlotAvailable`, which are false.
* Liveness (`BootCompletes`, `ImageEnds`, `LineServed`, `StartEnds`, `InterpretationEnds`,
  `BootArrives`, the fairness part of `ImplementsSlotSwitch`): its
  proof needs ENABLED, which this prover does not handle.

## 6. Not modelled

* **FrameBufferSerialPortLib**: a text console on the frame buffer; what it keeps is a cursor.
* **KernelErrataPatcher**: replaces instructions of the Windows loader it finds by
  pattern; the states are those of a foreign image.
* **VirtualRealTimeClockLib**: computes a time from the counter and an epoch that is
  a constant of the build.
* **SimpleFbDxe**, **LogoDxe**, **SetCPUFreqDxe**, **Reboot2PayloadApp**,
  **QcomGeniSerialPortLib**: straight-line code with a few protocol calls or
  register accesses, no state of their own.
* **Protocol headers** (`scm_sip_interface.h`, `EFIClock.h`, ...): declarations and
  numbers.  **Build and packaging tools**: scripts of the host.  Device trees, ACPI
  tables and package files: data that other programs interpret.

Left out of the components that are modelled in part:

* **SynapticsRmi4Dxe**: its poll (Start, Stop and ExitBootServices are in
  `TouchBinding`).
* **PlatformBootManagerLib**: GetPlatformOptions, for no package of this repository
  provides the protocol it asks for; the order of `BootOrder`; device paths; the option that
  is there already, which variables in memory never have.
* **DxeAslUpdateLib**: the functions other than UpdateNameAslCode, which nothing calls.
  **MsPlatformDevicesLib**: its list of devices to connect is constant.
* **PrePi**: the processor set-up before and the jump after the HOBs.

---------------------------- MODULE TouchBinding ----------------------------
(***************************************************************************)
(* The drivers of the touch controllers as UEFI drivers: SynapticsTCMDxe   *)
(* and SynapticsRmi4Dxe with their device drivers.  One of the two is      *)
(* built into a platform.  The device driver publishes the wiring, the     *)
(* core connects the driver to it, Start opens the I2C bus, powers the     *)
(* controller and finds out how to read it, the timer polls, Stop ends     *)
(* that, and ExitBootServices takes the bus away.                          *)
(*                                                                         *)
(* Start runs at TPL_CALLBACK, so no poll of the driver interrupts it; the *)
(* controller does what it likes in between.  What a poll does with a      *)
(* touch is the business of TouchPoll, which begins where Start ends.      *)
(***************************************************************************)
EXTENDS Naturals, Sequences

CONSTANTS
  Drivers,        \* drivers a platform may be built with
  Pdts,           \* page description tables of RMI4 controllers: the functions of each page
  MaxFunctions,   \* TOUCH_RMI_MAX_FUNCTIONS
  PageNumbers,    \* number of values of the variable Page, 2^8
  Looks,          \* rounds of the wait for a response: 10000 us in steps of 100000 us
  MaxStarts,      \* bound: Starts in a behaviour
  MaxMessages,    \* bound: messages a TCM controller sends
  MaxFaults       \* bound: failed transfers, allocations and calls

Functions == {"F12", "other"}

ASSUME BindingAssumption ==
  /\ Drivers \subseteq {"tcm", "rmi4"}
  /\ Pdts \subseteq Seq(Seq(Functions))
  /\ MaxFunctions \in Nat \ {0} /\ PageNumbers \in Nat \ {0} /\ Looks \in Nat \ {0}
  /\ MaxStarts \in Nat /\ MaxMessages \in Nat /\ MaxFaults \in Nat

VARIABLES
  driver,        \* the driver of this platform
  pdt,           \* the page description table of its RMI4 controller
  resetPin,      \* PcdTouchCtlrResetPin is configured
  published,     \* the device protocol is on its handle
  byDriver,      \* ... and opened BY_DRIVER
  pc,            \* where Start is
  started,       \* number of Starts; the last one made instance number started
  gInstance,     \* gI2CInstance, 0 for NULL
  bus,           \* instances whose I2C controller is open
  initialized,   \* Initialized
  config,        \* ConfigData: nothing, a report configuration, or something else
  command,       \* CommandStatus
  looked,        \* rounds of the wait for a response
  page, function, entry,  \* Page, Function, and the entry that Address points to
  f12,           \* PageF12 and TouchDataAddress
  timer,         \* the polling timer runs
  installed,     \* the absolute pointer protocol is installed
  atOs,          \* boot services have ended
  queue,         \* messages a TCM controller has ready; its line is low iff any
  asked,         \* it has a command to answer
  sent, faults

board      == <<driver, pdt, resetPin>>
handle     == <<published, byDriver, started>>
instance   == <<initialized, config, command>>
scan       == <<page, function, entry, f12>>
controller == <<queue, asked, sent>>
vars == <<board, handle, pc, gInstance, bus, instance, looked, scan, timer, installed, atOs,
          controller, faults>>

NoF12 == [page |-> 0, entry |-> 0, found |-> FALSE]

Init ==
  /\ driver \in Drivers /\ pdt \in Pdts /\ resetPin \in BOOLEAN
  /\ published = FALSE /\ byDriver = FALSE /\ started = 0
  /\ pc = "idle" /\ gInstance = 0 /\ bus = {}
  /\ initialized = FALSE /\ config = "none" /\ command = "idle" /\ looked = 0
  /\ page = 0 /\ function = 0 /\ entry = 0 /\ f12 = NoF12
  /\ timer = FALSE /\ installed = FALSE /\ atOs = FALSE
  /\ queue = <<>> /\ asked = FALSE /\ sent = 0 /\ faults = 0

-----------------------------------------------------------------------------
(* Faults, and how Start ends *)

Fault == faults < MaxFaults /\ faults' = faults + 1

(* Start goes on to a stage. *)
Goto(stage) == pc' = stage /\ UNCHANGED <<bus, faults>>

(***************************************************************************)
(* exit: the bus is closed for EFI_DEVICE_ERROR only.  Nothing closes the  *)
(* device protocol, stops the timer or frees the instance.                 *)
(***************************************************************************)
ExitStart(status) ==
  /\ pc' = "idle"
  /\ bus' = IF status = "DEVICE_ERROR" THEN bus \ {started} ELSE bus

FailStart(status) == ExitStart(status) /\ UNCHANGED faults

-----------------------------------------------------------------------------
(* The device driver and the connection *)

(* SynaDeviceInitialize: without the I2C or the GPIO protocol it fails, and  *)
(* with it the whole touch screen.                                           *)
Publish ==
  /\ ~published /\ ~atOs
  /\ published' = TRUE
  /\ UNCHANGED <<board, byDriver, started, pc, gInstance, bus, instance, looked, scan, timer,
                 installed, atOs, controller, faults>>

(* Supported opens the device protocol BY_DRIVER to see whether Start could. *)
Supported == published /\ ~byDriver

(* ConnectController: Supported, then the beginning of Start.  The template  *)
(* is copied: the new instance knows nothing.                                *)
Start ==
  /\ pc = "idle" /\ ~atOs /\ started < MaxStarts
  /\ Supported
  /\ byDriver' = TRUE
  /\ started' = started + 1
  /\ initialized' = FALSE /\ config' = "none" /\ command' = "idle"
  /\ f12' = NoF12 /\ page' = 0 /\ function' = 0 /\ entry' = 0
  /\ Goto("open")
  /\ UNCHANGED <<board, published, gInstance, looked, timer, installed, atOs, controller>>

(* Mutant of OpenBus: the instance is not remembered for ExitBootServices. *)
MutOpenBus ==
  /\ pc = "open"
  /\ \/ /\ bus' = bus \union {started} /\ pc' = "power"
        /\ UNCHANGED faults
     \/ Fault /\ pc' = "idle" /\ UNCHANGED bus
  /\ UNCHANGED <<board, handle, gInstance, instance, looked, scan, timer, installed, atOs, controller>>

(* The bus is opened, and remembered for ExitBootServices. *)
OpenBus ==
  /\ pc = "open"
  /\ \/ /\ bus' = bus \union {started} /\ pc' = "power"
        /\ gInstance' = started
        /\ UNCHANGED faults
     \/ Fault /\ pc' = "idle" /\ UNCHANGED <<bus, gInstance>>
  /\ UNCHANGED <<board, handle, instance, looked, scan, timer, installed, atOs, controller>>

(* SynaPowerUpController: a TCM controller that was reset has an identify    *)
(* report to send, at once or later.                                         *)
PowerUp ==
  /\ pc = "power"
  /\ IF resetPin
     THEN /\ Goto(IF driver = "tcm" THEN "id" ELSE "scan")
          /\ \/ driver = "tcm" /\ queue' = <<"identify">>
             \/ queue' = <<>>
          /\ asked' = FALSE
     ELSE FailStart("INVALID_PARAMETER") /\ UNCHANGED <<queue, asked>>
  /\ UNCHANGED <<board, handle, gInstance, instance, looked, scan, timer, installed, atOs, sent>>

-----------------------------------------------------------------------------
(* The TCM controller *)

Messages == {"identify", "touch", "bad", "configuration", "refusal"}

(* What it sends of its own accord. *)
Sends(kind) ==
  /\ driver = "tcm" /\ started > 0 /\ ~atOs
  /\ sent < MaxMessages
  /\ sent' = sent + 1
  /\ queue' = Append(queue, kind)
  /\ UNCHANGED <<board, handle, pc, gInstance, bus, instance, looked, scan, timer, installed,
                 atOs, asked, faults>>

(* The response to the command, or an error status with no payload. *)
Answers(kind) ==
  /\ asked /\ ~atOs
  /\ asked' = FALSE
  /\ queue' = Append(queue, kind)
  /\ UNCHANGED <<board, handle, pc, gInstance, bus, instance, looked, scan, timer, installed,
                 atOs, sent, faults>>

(***************************************************************************)
(* SynaGetTouchData(Instance, _, ResponseData) succeeds with a message.    *)
(* A response is a response to whatever command is under way; one without  *)
(* payload leaves three bytes in the buffer.                               *)
(***************************************************************************)
Receive(withBuffer) ==
  LET kind == Head(queue) IN
  /\ queue # <<>> /\ kind # "bad"
  /\ queue' = Tail(queue)
  /\ initialized' = (initialized /\ kind # "identify")
  /\ command' = IF kind = "identify" /\ command = "busy" THEN "error" ELSE command
  /\ config' = IF withBuffer /\ command = "busy" /\ kind \in {"configuration", "refusal"}
               THEN kind ELSE config
  /\ UNCHANGED <<asked, sent>>

(* It fails: nothing to read, a wrong marker or padding byte. *)
ReceiveFails ==
  /\ queue # <<>> => Head(queue) = "bad"
  /\ queue' = IF queue = <<>> THEN queue ELSE Tail(queue)
  /\ UNCHANGED <<asked, sent, instance>>

(* The I2C transfer fails. *)
TransferFails == Fault /\ UNCHANGED <<controller, instance>>

(* The id packet is read, whatever it is. *)
ReadId ==
  /\ pc = "id"
  /\ \/ Receive(FALSE) /\ Goto("config_buffer")
     \/ ReceiveFails /\ FailStart("DEVICE_ERROR")
     \/ TransferFails /\ ExitStart("DEVICE_ERROR")
  /\ UNCHANGED <<board, handle, gInstance, looked, scan, timer, installed, atOs>>

(* Initialized is set; ConfigData is allocated. *)
AllocateConfig ==
  /\ pc = "config_buffer"
  /\ initialized' = TRUE
  /\ \/ Goto("command")
     \/ Fault /\ ExitStart("OUT_OF_RESOURCES")
  /\ UNCHANGED <<board, handle, gInstance, config, command, looked, scan, timer, installed, atOs,
                 controller>>

(* TcmGetReportConfig: the command is written, whether it arrives or not. *)
WriteCommand ==
  /\ pc = "command"
  /\ command' = "busy" /\ looked' = 0
  /\ \/ asked' = TRUE /\ Goto("line")
     \/ Fault /\ asked' = asked /\ pc' = "line" /\ UNCHANGED bus
  /\ UNCHANGED <<board, handle, gInstance, initialized, config, scan, timer, installed, atOs,
                 queue, sent>>

(* Mutant of LookAtLine: a round that finds the line high is not counted. *)
MutLookAtLine ==
  /\ pc = "line"
  /\ IF queue # <<>>
     THEN Goto("response") /\ looked' = looked + 1
     ELSE Goto("line") /\ UNCHANGED looked
  /\ UNCHANGED <<board, handle, gInstance, instance, scan, timer, installed, atOs, controller>>

(* One round of the wait for the interrupt line: the line is looked at, then *)
(* time passes.                                                              *)
LookAtLine ==
  /\ pc = "line"
  /\ looked' = looked + 1
  /\ IF queue # <<>> THEN Goto("response")
     ELSE IF looked + 1 < Looks THEN Goto("line")
     ELSE FailStart("DEVICE_ERROR")
  /\ UNCHANGED <<board, handle, gInstance, instance, scan, timer, installed, atOs, controller>>

(* Mutant of ReadResponse: Start does not look at DataLength. *)
MutReadResponse ==
  /\ pc = "response"
  /\ \/ Receive(TRUE) /\ Goto("events")
     \/ ReceiveFails /\ FailStart("DEVICE_ERROR")
     \/ TransferFails /\ ExitStart("DEVICE_ERROR")
  /\ UNCHANGED <<board, handle, gInstance, looked, scan, timer, installed, atOs>>

(* Any message is read; without data in ConfigData Start fails. *)
ReadResponse ==
  /\ pc = "response"
  /\ \/ Receive(TRUE) /\ IF config' = "none" THEN FailStart("DEVICE_ERROR") ELSE Goto("events")
     \/ ReceiveFails /\ FailStart("DEVICE_ERROR")
     \/ TransferFails /\ ExitStart("DEVICE_ERROR")
  /\ UNCHANGED <<board, handle, gInstance, looked, scan, timer, installed, atOs>>

-----------------------------------------------------------------------------
(* The RMI4 controller: the search for function F12 *)

(* What InfoData[5] is for an entry of a page; past the last one it is 0. *)
FunctionAt(p, e) ==
  IF p < Len(pdt) /\ e < Len(pdt[p + 1]) THEN pdt[p + 1][e + 1] ELSE "none"

(* F12 is found. *)
ScanFinds ==
  /\ FunctionAt(page, entry) = "F12"
  /\ f12' = [page |-> page, entry |-> entry, found |-> TRUE]
  /\ initialized' = TRUE
  /\ Goto("events")
  /\ UNCHANGED <<page, function, entry>>

(* "Last page.  Go out": the page has no entry, and Start goes on. *)
ScanGoesOut ==
  /\ FunctionAt(page, entry) = "none" /\ entry = 0
  /\ initialized' = TRUE
  /\ Goto("events")
  /\ UNCHANGED scan

(* Mutant of ScanTurnsPage: each page has its own count of functions. *)
MutScanTurnsPage ==
  /\ FunctionAt(page, entry) = "none" /\ entry > 0
  /\ page' = (page + 1) % PageNumbers
  /\ entry' = 0 /\ function' = 0
  /\ \/ Goto("scan")
     \/ Fault /\ ExitStart("DEVICE_ERROR")
  /\ UNCHANGED <<f12, initialized>>

(* The next page, in a Page of 8 bits. *)
ScanTurnsPage ==
  /\ FunctionAt(page, entry) = "none" /\ entry > 0
  /\ page' = (page + 1) % PageNumbers
  /\ entry' = 0
  /\ \/ Goto("scan")
     \/ Fault /\ ExitStart("DEVICE_ERROR")
  /\ UNCHANGED <<function, f12, initialized>>

(* Mutant of ScanGoesOn: the functions are not counted against the limit. *)
MutScanGoesOn ==
  /\ FunctionAt(page, entry) = "other"
  /\ function' = function + 1
  /\ entry' = entry + 1
  /\ Goto("scan")
  /\ UNCHANGED <<page, f12, initialized>>

(* The next entry.  Address stays above 0: MaxFunctions entries of 6 bytes   *)
(* fit below TOUCH_RMI_PAGE_INFO_ADDRESS.                                    *)
ScanGoesOn ==
  /\ FunctionAt(page, entry) = "other"
  /\ function' = function + 1
  /\ entry' = entry + 1
  /\ IF function + 1 < MaxFunctions THEN Goto("scan") ELSE FailStart("DEVICE_ERROR")
  /\ UNCHANGED <<page, f12, initialized>>

ScanReadFails == Fault /\ ExitStart("DEVICE_ERROR") /\ UNCHANGED <<scan, initialized>>

Scan ==
  /\ pc = "scan"
  /\ ScanFinds \/ ScanGoesOut \/ ScanTurnsPage \/ ScanGoesOn \/ ScanReadFails
  /\ UNCHANGED <<board, handle, gInstance, config, command, looked, timer, installed, atOs,
                 controller>>

-----------------------------------------------------------------------------
(* The end of Start, and what comes after it *)

(* AbsStartPolling *)
StartPolling ==
  /\ pc = "events"
  /\ timer' = TRUE
  /\ Goto("install")
  /\ UNCHANGED <<board, handle, gInstance, instance, looked, scan, installed, atOs, controller>>

(* The protocol is installed; a failure is Start's. *)
Install ==
  /\ pc = "install"
  /\ \/ installed' = TRUE /\ Goto("idle")
     \/ Fault /\ ExitStart("OUT_OF_RESOURCES") /\ UNCHANGED installed
  /\ UNCHANGED <<board, handle, gInstance, instance, looked, scan, timer, atOs, controller>>

(* SyncPollCallback on a TCM controller: one message. *)
Poll ==
  /\ timer /\ pc = "idle" /\ ~atOs
  /\ driver = "tcm" /\ queue # <<>> /\ initialized
  /\ \/ Receive(FALSE) /\ UNCHANGED faults
     \/ ReceiveFails /\ UNCHANGED faults
     \/ TransferFails
  /\ UNCHANGED <<board, handle, pc, gInstance, bus, looked, scan, timer, installed, atOs>>

(* Mutant of Stop: the events are closed before the uninstallation is tried. *)
MutStop ==
  /\ pc = "idle" /\ installed /\ ~atOs
  /\ timer' = FALSE
  /\ \/ installed' = FALSE /\ bus' = bus \ {started}
     \/ UNCHANGED <<installed, bus>>
  /\ UNCHANGED <<board, handle, pc, gInstance, instance, looked, scan, atOs, controller, faults>>

(* Stop: a consumer of the pointer that does not let go keeps all as it is.  *)
(* The second OpenProtocol finds the device protocol open already.           *)
Stop ==
  /\ pc = "idle" /\ installed /\ ~atOs
  /\ \/ installed' = FALSE /\ timer' = FALSE /\ bus' = bus \ {started}
     \/ UNCHANGED <<installed, timer, bus>>
  /\ UNCHANGED <<board, handle, pc, gInstance, instance, looked, scan, atOs, controller, faults>>

(* ExitBootServices: the core stops the timers, the handler closes the bus. *)
ExitBootServices ==
  /\ pc = "idle" /\ ~atOs
  /\ atOs' = TRUE /\ timer' = FALSE
  /\ bus' = bus \ {gInstance}
  /\ UNCHANGED <<board, handle, pc, gInstance, instance, looked, scan, installed, controller, faults>>

-----------------------------------------------------------------------------
StartStep ==
  \/ OpenBus \/ PowerUp
  \/ ReadId \/ AllocateConfig \/ WriteCommand \/ LookAtLine \/ ReadResponse
  \/ Scan
  \/ StartPolling \/ Install

Next ==
  \/ Publish \/ Start \/ StartStep
  \/ \E kind \in {"identify", "touch", "bad"} : Sends(kind)
  \/ \E kind \in {"configuration", "refusal"} : Answers(kind)
  \/ Poll \/ Stop \/ ExitBootServices

Spec == Init /\ [][Next]_vars

(* A Start that was entered goes on; it waits for nobody. *)
FairSpec == Spec /\ WF_vars(StartStep)

-----------------------------------------------------------------------------
(* Properties *)

Stages == {"idle", "open", "power", "id", "config_buffer", "command", "line", "response",
           "scan", "events", "install"}

(* Every variable has its type. *)
TypeOK ==
  /\ driver \in Drivers /\ pdt \in Pdts /\ resetPin \in BOOLEAN
  /\ published \in BOOLEAN /\ byDriver \in BOOLEAN /\ started \in 0 .. MaxStarts
  /\ pc \in Stages /\ gInstance \in 0 .. MaxStarts /\ bus \in SUBSET (1 .. MaxStarts)
  /\ initialized \in BOOLEAN /\ config \in {"none", "configuration", "refusal"}
  /\ command \in {"idle", "busy", "error"} /\ looked \in 0 .. Looks
  /\ page \in 0 .. PageNumbers - 1 /\ function \in 0 .. MaxFunctions /\ entry \in Nat
  /\ f12 \in [page : 0 .. PageNumbers - 1, entry : Nat, found : BOOLEAN]
  /\ timer \in BOOLEAN /\ installed \in BOOLEAN /\ atOs \in BOOLEAN
  /\ queue \in Seq(Messages) /\ asked \in BOOLEAN
  /\ sent \in 0 .. MaxMessages /\ faults \in 0 .. MaxFaults

(* Whatever has failed and in whatever order Start, Stop and the polls came, *)
(* no I2C controller is left open for the operating system: the handler of   *)
(* ExitBootServices knows one instance only.                                 *)
ClosedAtHandOver == atOs => bus = {}

PollsOpenBus ==
  timer => /\ started \in bus
           /\ driver = "tcm" => config # "none"

OfferedWhilePolled == installed /\ ~atOs => timer

(* As long as the timer runs, the bus it polls is open, and a TCM controller *)
(* has left something in ConfigData: failures of Start that come after the   *)
(* start of the timer must not close the bus.  And a pointer is offered to   *)
(* clients only while its timer runs: a Stop that cannot uninstall it leaves *)
(* it alive.                                                                 *)
PointerAlive == PollsOpenBus /\ OfferedWhilePolled

(* Every Start ends: the wait for the response and the search for F12 do,    *)
(* whatever the controller sends and however many pages it has.              *)
StartEnds == (pc # "idle") ~> (pc = "idle")

=============================================================================

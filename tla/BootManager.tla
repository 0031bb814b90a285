----------------------------- MODULE BootManager -----------------------------
(***************************************************************************)
(* PlatformBootManagerLib: what the platform does before and after the     *)
(* consoles are connected.  It registers the applications built into the   *)
(* firmware volume as boot options and a hot key for one of them, applies  *)
(* the capsules the OS left, and waits.                                    *)
(*                                                                         *)
(* Boot options, the boot order, the key and ConIn are variables, written  *)
(* one at a time; any write can fail, and the library goes on.  The builds *)
(* emulate non-volatile variables in memory (PcdEmuVariableNvModeEnable,   *)
(* QcomCommonDsc.inc:92), so that they are empty at every start and        *)
(* nothing is found among the options that this boot did not put there.    *)
(*                                                                         *)
(* UefiBootManagerLib, BdsDxe and CapsuleLib are outside the repository:   *)
(* what they do is modelled from how PlatformBm.c uses them.  The builds   *)
(* take the CapsuleLib that supports no capsule; the model has those that  *)
(* succeed too, which HandleCapsules is written for.                       *)
(***************************************************************************)
EXTENDS Naturals, FiniteSets, Sequences

CONSTANTS
  SimpleInits,   \* values of ENABLE_SIMPLE_INIT of the platforms looked at
  Timeouts,      \* values of PcdPlatformBootTimeOut
  MaxNumber,     \* bound: option numbers are 0 .. MaxNumber
  Capsules,      \* lists of capsules an OS may leave, each capsule good or bad
  MaxBoots,      \* bound: boots that end in an OS or in a loss of power
  MaxFaults      \* bound: failed writes of variables and losses of power

Numbers  == 0 .. MaxNumber
None     == "none"                 \* no option under this number
NoNumber == MaxNumber + 1         \* no option is being written
NoKey    == [number |-> 0, content |-> None]

ASSUME BootManagerAssumption ==
  /\ SimpleInits \subseteq BOOLEAN
  /\ Timeouts \subseteq Nat /\ MaxNumber \in Nat /\ MaxBoots \in Nat /\ MaxFaults \in Nat
  /\ Capsules \subseteq Seq({"good", "bad"})

\* The applications of the firmware volume, and what else an option can start.
Apps     == {"menu", "simple", "shell", "storage", "switch"}
Contents == Apps \cup {"device"}

VARIABLES
  simpleInit,   \* ENABLE_SIMPLE_INIT
  timeout,      \* PcdPlatformBootTimeOut
  features,     \* ENABLE_LINUX_SIMPLE_MASS_STORAGE ("storage"), AB_SLOTS_SUPPORT ("switch")
  option,       \* Boot####
  order,        \* the numbers in BootOrder; nothing here depends on their order
  key,          \* Key####, the hot key of UP: number and checksum of its option
  pc,           \* where BDS is
  number,       \* OptionNumber the registering code holds
  adding,       \* option number in BootOrder whose Boot#### is being written
  attached,     \* a bootable device is there
  inputs,       \* number of handles with SimpleTextInputEx, 1 for none or one
  conIn,        \* ConIn
  capsules,     \* capsules of the HOB list not yet processed
  applied,      \* NeedReset: capsules processed in this boot
  bad,          \* a capsule failed in this boot
  remaining,    \* TimeoutRemain
  lost,         \* the options, and "key", that could not be written in this boot
  boots, faults

build == <<simpleInit, timeout, features>>
nv    == <<option, order, key, conIn>>
board == <<attached, inputs>>
boot  == <<number, adding, capsules, applied, bad, remaining, lost>>
vars  == <<build, nv, pc, board, boot, boots, faults>>

Init ==
  /\ simpleInit \in SimpleInits /\ timeout \in Timeouts
  /\ features \in SUBSET {"storage", "switch"}
  /\ option = [n \in Numbers |-> None] /\ order = {} /\ key = NoKey /\ conIn = {}
  /\ pc = "off" /\ number = 0 /\ adding = NoNumber
  /\ attached \in BOOLEAN /\ inputs \in 1 .. 2
  /\ capsules = <<>> /\ applied = 0 /\ bad = FALSE /\ remaining = 0 /\ lost = {}
  /\ boots = 0 /\ faults = 0

-----------------------------------------------------------------------------
(* Boot options and keys (UefiBootManagerLib) *)

\* What #ifdef leaves of the boot: the stages that are built in, ...
Included(stage) ==
  CASE stage = "simple" -> simpleInit
    [] stage \in {"storage", "switch"} -> stage \in features
    [] OTHER -> TRUE

\* ... and all of them in the order of the code.
Route == <<"consoles", "menu", "simple", "key", "capsules", "refresh", "shell", "storage",
           "switch", "setup", "wait">>

Position(stage) == CHOOSE i \in DOMAIN Route : Route[i] = stage

After(stage) ==
  Route[CHOOSE i \in DOMAIN Route :
          /\ Position(stage) < i /\ Included(Route[i])
          /\ \A j \in Position(stage) + 1 .. i - 1 : ~Included(Route[j])]

\* EfiBootManagerGetLoadOptions sees the options of BootOrder that exist.
With(content) == {n \in order : option[n] = content}

\* A new option gets the lowest number that is not in BootOrder.
IsLowestFree(n) == n \notin order /\ \A m \in Numbers \ order : n <= m

Fault == faults < MaxFaults /\ faults' = faults + 1

-----------------------------------------------------------------------------
(* Registering a boot option *)

\* What is registered: the application of the stage, or a device that was found.
Registers(content) == pc = content \/ (pc = "refresh" /\ content = "device" /\ attached)

(* Mutant of AddToOrder: OptionNumber is taken before the option is added, unassigned, cut to 0. *)
MutAddToOrder(content) ==
  /\ Registers(content)
  /\ adding = NoNumber /\ With(content) = {}
  /\ \E n \in Numbers : /\ IsLowestFree(n)
                        /\ order' = order \cup {n} /\ adding' = n /\ number' = 0
  /\ UNCHANGED <<build, option, key, conIn, pc, board, capsules, applied, bad, remaining, lost,
                 boots, faults>>

\* EfiBootManagerAddLoadOptionVariable, first half: the new number joins BootOrder.
AddToOrder(content) ==
  /\ Registers(content)
  /\ adding = NoNumber /\ With(content) = {}
  /\ \E n \in Numbers : /\ IsLowestFree(n)
                        /\ order' = order \cup {n} /\ adding' = n /\ number' = n
  /\ UNCHANGED <<build, option, key, conIn, pc, board, capsules, applied, bad, remaining, lost,
                 boots, faults>>

\* ... and second half: its Boot#### is written.
AddOption(content) ==
  /\ Registers(content)
  /\ adding # NoNumber
  /\ option' = [option EXCEPT ![adding] = content]
  /\ adding' = NoNumber
  /\ pc' = IF pc = "refresh" THEN pc ELSE After(pc)
  /\ UNCHANGED <<build, order, key, conIn, board, number, capsules, applied, bad, remaining, lost,
                 boots, faults>>

Registered == IF pc = "refresh" THEN "device" ELSE pc

(* Mutant of AddFails: nothing more is registered after an option could not be written. *)
MutAddFails ==
  /\ pc # "off" /\ adding # NoNumber /\ Fault
  /\ order' = order \ {adding}
  /\ adding' = NoNumber /\ lost' = lost \cup {Registered}
  /\ pc' = "setup"
  /\ UNCHANGED <<build, option, key, conIn, board, number, capsules, applied, bad, remaining,
                 boots>>

\* The write fails: the number leaves BootOrder again, but not OptionNumber, and the caller's
\* assertion only prints.
AddFails ==
  /\ pc # "off" /\ adding # NoNumber /\ Fault
  /\ order' = order \ {adding}
  /\ adding' = NoNumber /\ lost' = lost \cup {Registered}
  /\ pc' = After(pc)
  /\ UNCHANGED <<build, option, key, conIn, board, number, capsules, applied, bad, remaining,
                 boots>>

\* EfiBootManagerAddKeyOptionVariable: not for a missing option.
AddKey ==
  /\ pc = "key"
  /\ \/ /\ key' = IF option[number] = None THEN key
                  ELSE [number |-> number, content |-> option[number]]
        /\ UNCHANGED <<lost, faults>>
     \/ Fault /\ lost' = lost \cup {"key"} /\ UNCHANGED key
  /\ pc' = After(pc)
  /\ UNCHANGED <<build, option, order, conIn, board, number, adding, capsules, applied, bad,
                 remaining, boots>>

-----------------------------------------------------------------------------
(* The boot *)

\* The variables of the boot before were in its memory.
PowerOn ==
  /\ pc = "off"
  /\ pc' = "consoles"
  /\ option' = [n \in Numbers |-> None] /\ order' = {} /\ key' = NoKey /\ conIn' = {}
  /\ number' = 0 /\ adding' = NoNumber
  /\ applied' = 0 /\ bad' = FALSE /\ remaining' = 0 /\ lost' = {}
  /\ attached' \in BOOLEAN
  /\ UNCHANGED <<build, inputs, capsules, boots, faults>>

\* PlatformBootManagerBeforeConsole takes the second handle with text input for the buttons of
\* the device, however many handles there are: past the end of the buffer is anything.
SecondInput == IF inputs < 2 THEN "stray" ELSE "buttons"

BeforeConsole ==
  /\ pc = "consoles"
  /\ conIn' = conIn \cup {"usb keyboard", SecondInput, "serial"}
  /\ pc' = After(pc)
  /\ UNCHANGED <<build, option, order, key, board, boot, boots, faults>>

\* HandleCapsules: one capsule after the other.  The first that fails ends it, ...
ProcessCapsule ==
  /\ pc = "capsules" /\ capsules # <<>>
  /\ capsules' = Tail(capsules)
  /\ IF Head(capsules) = "good" THEN applied' = applied + 1 /\ UNCHANGED <<bad, pc>>
                                ELSE bad' = TRUE /\ pc' = After(pc) /\ UNCHANGED applied
  /\ UNCHANGED <<build, nv, board, number, adding, remaining, lost, boots, faults>>

(* Mutant of NeedReset: a capsule that was applied needs no reset. *)
MutNeedReset == FALSE

(* Mutant of NeedReset: every pass over the capsules ends in a reset. *)
MutNeedResetAlways == TRUE

NeedReset == applied > 0

\* ... and when all are processed a cold reset follows, after which the HOB list has none.
CapsulesDone ==
  /\ pc = "capsules" /\ capsules = <<>>
  /\ pc' = IF NeedReset THEN "off" ELSE After(pc)
  /\ UNCHANGED <<build, nv, board, boot, boots, faults>>

\* EfiBootManagerRefreshAllBootOption has added the options of devices (AddToOrder).
Refreshed ==
  /\ pc = "refresh" /\ adding = NoNumber
  /\ attached <=> With("device") # {}
  /\ pc' = After(pc)
  /\ UNCHANGED <<build, nv, board, boot, boots, faults>>

\* PlatformSetup (AslUpdate) touches none of this state; then BdsDxe waits.
Setup ==
  /\ pc = "setup"
  /\ pc' = After(pc) /\ remaining' = timeout
  /\ UNCHANGED <<build, nv, board, number, adding, capsules, applied, bad, lost, boots, faults>>

(* Mutant of Progress: what remains is added, not taken off. *)
MutProgress(remain) == ((timeout + remain) * 100) \div timeout

\* PlatformBootManagerWaitCallback draws the progress, in percent; at the end it clears the
\* screen.  BdsDxe does not call it when the time-out is 0.
Progress(remain) == ((timeout - remain) * 100) \div timeout

WaitCallback ==
  /\ pc = "wait" /\ remaining > 0
  /\ remaining' = remaining - 1
  /\ UNCHANGED <<build, nv, pc, board, number, adding, capsules, applied, bad, lost, boots, faults>>

-----------------------------------------------------------------------------
(* What ends a boot *)

Ends == pc' = "off" /\ boots < MaxBoots /\ boots' = boots + 1

\* An OS starts, and may leave capsules for the next boot.
OsBoots ==
  /\ pc = "wait" /\ remaining = 0 /\ Ends
  /\ capsules' \in Capsules
  /\ UNCHANGED <<build, nv, board, number, adding, applied, bad, remaining, lost, faults>>

\* Power is lost; the capsules of the HOB list are in memory and gone with it.
PowerLoss ==
  /\ pc # "off" /\ Ends /\ Fault
  /\ capsules' = <<>>
  /\ UNCHANGED <<build, nv, board, number, adding, applied, bad, remaining, lost>>

Boot ==
  \/ PowerOn \/ BeforeConsole
  \/ \E content \in Contents : AddToOrder(content) \/ AddOption(content)
  \/ AddKey
  \/ ProcessCapsule \/ CapsulesDone
  \/ Refreshed \/ Setup \/ WaitCallback

Next == Boot \/ AddFails \/ OsBoots \/ PowerLoss

\* BDS runs to the end of its wait unless power is lost.
Fairness == WF_vars(Boot)

Spec == Init /\ [][Next]_vars /\ Fairness

-----------------------------------------------------------------------------
(* Properties *)

\* Every variable keeps its type: an option number is one there is, and the progress is a
\* percentage (PlatformBm.c:332, 731).
TypeOK ==
  /\ option \in [Numbers -> Contents \cup {None}] /\ order \subseteq Numbers
  /\ key.number \in Numbers /\ key.content \in Contents \cup {None}
  /\ conIn \subseteq {"usb keyboard", "buttons", "stray", "serial"}
  /\ pc = "off" \/ \E i \in DOMAIN Route : pc = Route[i] /\ Included(pc)
  /\ number \in Numbers /\ adding \in Numbers \cup {NoNumber}
  /\ attached \in BOOLEAN /\ inputs \in 1 .. 2
  /\ applied \in Nat /\ bad \in BOOLEAN /\ lost \subseteq Contents \cup {"key"}
  /\ remaining \in 0 .. timeout
  /\ pc = "wait" /\ timeout # 0 => Progress(remaining) \in 0 .. 100

Options(app) == {n \in order : option[n] = app}

Expected == {"menu", "shell"} \cup features \cup IF simpleInit THEN {"simple"} ELSE {}

\* When the user can choose, each application that is built in can be chosen, once, whatever
\* failed, but for the one whose own option could not be written; the number that one leaves
\* free goes to the next and takes nothing with it (PlatformBm.c:325-329, 449, 456, 678-694).
AppsOffered ==
  pc = "wait" =>
    \A app \in Apps :
      Cardinality(Options(app)) = IF app \in Expected \ lost THEN 1 ELSE 0

UpOpens(app) == key # NoKey /\ key.content = app /\ option[key.number] = app

\* The name on the screen.
Shown == IF simpleInit THEN "simple" ELSE "menu"

\* Whenever the user is asked to press it, UP opens what the screen names (PlatformBm.c:634,
\* 636, 727, 729): not the menu for Simple Init, and not what was later registered under the
\* number of an option that could not be written.  Without the option or the key, it is no key.
KeyOpensShown ==
  pc = "wait" =>
    IF {Shown, "key"} \cap lost = {} THEN UpOpens(Shown) ELSE key = NoKey

\* The platform offers to boot with freshly applied capsules only when a later capsule failed:
\* otherwise the reset comes first (PlatformBm.c:581, 592).
ResetAfterCapsules == pc = "wait" /\ applied > 0 => bad

\* Every boot gets to the wait for the user or loses power: capsules cannot make the platform
\* reset over and over (PlatformBm.c:592, 615).
BootArrives == pc = "off" ~> pc = "wait"

=============================================================================

------------------------- MODULE BootManagerProofs -------------------------
(***************************************************************************)
(* What PlatformBootManagerLib does to the boot options and with capsules, *)
(* for every platform, time-out, list of capsules, number of options,      *)
(* boots, failed writes and losses of power.                               *)
(*                                                                         *)
(* An option is written in two steps, and either can fail.  While one is   *)
(* under way its number is in BootOrder and has no option yet (UnderWay),  *)
(* and no number outside BootOrder has one (InOrder), so that the number a *)
(* failed write leaves brings no old option with it.                       *)
(*                                                                         *)
(* What is offered (OfferInv) and what the hot key opens (KeyInv) are said *)
(* of where the boot is: of the applications it has passed so far, and of  *)
(* the number that the stage of the option on the screen leaves to the     *)
(* stage of the key.  What comes behind a stage is Behind, from Route.     *)
(***************************************************************************)
EXTENDS BootManager, FiniteSetTheorems, TLAPS

InOrder == \A n \in Numbers : option[n] # None => n \in order

Once ==
  \A app \in Apps : \A m, n \in Numbers :
    option[m] = app /\ option[n] = app => m = n

UnderWay ==
  adding # NoNumber /\ pc # "off" =>
    /\ pc \in Contents \cup {"refresh"}
    /\ adding \in order /\ option[adding] = None
    /\ pc = "refresh" => attached
    /\ \A n \in order : option[n] # pc

OptionInv ==
  /\ option \in [Numbers -> Contents \cup {None}] /\ order \subseteq Numbers
  /\ adding \in Numbers \cup {NoNumber} /\ attached \in BOOLEAN
  /\ InOrder /\ Once /\ UnderWay

(* Capsules that were applied and none that failed: BDS is still at them, or *)
(* has reset the platform.                                                   *)
CapsuleInv ==
  /\ applied \in Nat /\ bad \in BOOLEAN
  /\ applied > 0 /\ ~bad => pc \in {"capsules", "off"}

-----------------------------------------------------------------------------
(* Numbers, and what an option is. *)
LEMMA NumberFacts ==
  /\ NoNumber \notin Numbers
  /\ None \notin Contents /\ "device" \notin Apps
  /\ "refresh" \notin Contents /\ "off" \notin Contents
  /\ Apps \subseteq Contents
  BY BootManagerAssumption DEF NoNumber, Numbers, None, Contents, Apps

-----------------------------------------------------------------------------
(* Boot options. *)

(* A step that leaves the variables alone, or moves on while no option is    *)
(* being written.                                                            *)
LEMMA OptionsKept ==
  ASSUME OptionInv, UNCHANGED <<option, order>>, attached' \in BOOLEAN,
         \/ adding = NoNumber /\ adding' = NoNumber
         \/ adding' = NoNumber
         \/ UNCHANGED <<pc, adding, attached>>
         \/ pc' = "off" /\ adding' = adding
  PROVE  OptionInv'
  BY DEF OptionInv, InOrder, Once, UnderWay

(* An option is being written in the stages that register one only.          *)
LEMMA NothingUnderWay ==
  ASSUME OptionInv, pc \notin Contents \cup {"refresh", "off"}
  PROVE  adding = NoNumber
  BY DEF OptionInv, UnderWay

LEMMA AddToOrderKeeps ==
  ASSUME OptionInv, NEW content \in Contents, AddToOrder(content)
  PROVE  OptionInv'
<1>1. PICK free \in Numbers : IsLowestFree(free) /\ order' = order \cup {free} /\ adding' = free
  BY DEF AddToOrder
<1>2. free \notin order /\ option[free] = None
  BY <1>1 DEF IsLowestFree, OptionInv, InOrder
<1>3. /\ UNCHANGED <<option, pc, attached>>
      /\ \A n \in order : option[n] # content
  BY DEF AddToOrder, With, board
<1>4. pc = content \/ (pc = "refresh" /\ attached = TRUE)
  BY DEF AddToOrder, Registers, OptionInv
<1>5. UnderWay'
  <2>1. CASE pc = content
    <3>1. pc \notin {"refresh", None}
      BY <2>1, NumberFacts
    <3>2. \A n \in order' : option[n] # pc
      BY <1>1, <1>2, <1>3, <2>1, <3>1
    <3>3. QED
      BY <1>1, <1>2, <1>3, <2>1, <3>1, <3>2 DEF UnderWay
  <2>2. CASE pc = "refresh" /\ attached = TRUE
    <3>1. \A n \in Numbers : option[n] # "refresh"
      BY NumberFacts DEF OptionInv, None
    <3>2. QED
      BY <1>1, <1>2, <1>3, <2>2, <3>1 DEF UnderWay, OptionInv
  <2>3. QED
    BY <1>4, <2>1, <2>2
<1>6. QED
  BY <1>1, <1>3, <1>5 DEF OptionInv, InOrder, Once

(* The option is the only one with its content: no other had it when its     *)
(* number joined BootOrder, and none was written since.                      *)
LEMMA AddOptionKeeps ==
  ASSUME OptionInv, NEW content \in Contents, AddOption(content)
  PROVE  OptionInv'
<1>1. /\ adding \in Numbers /\ adding' = NoNumber
      /\ option' = [option EXCEPT ![adding] = content]
      /\ UNCHANGED <<order, attached>>
  BY DEF AddOption, OptionInv, board
<1>2. /\ pc # "off" /\ adding # NoNumber
      /\ pc = content \/ content = "device"
  BY NumberFacts DEF AddOption, Registers
<1>3. adding \in order /\ \A n \in order : option[n] # pc
  BY <1>2 DEF OptionInv, UnderWay
<1>4. InOrder'
  BY <1>1, <1>3 DEF OptionInv, InOrder
<1>5. Once'
  <2>1. CASE content \in Apps
    <3>1. \A n \in Numbers : option[n] # content
      BY <1>2, <1>3, <2>1, NumberFacts DEF OptionInv, InOrder
    <3>2. QED
      BY <1>1, <3>1 DEF OptionInv, Once
  <2>2. CASE content \notin Apps
    BY <1>1, <2>2 DEF OptionInv, Once
  <2>3. QED
    BY <2>1, <2>2
<1>6. QED
  BY <1>1, <1>4, <1>5 DEF OptionInv, UnderWay

LEMMA AddFailsKeeps ==
  ASSUME OptionInv, AddFails
  PROVE  OptionInv'
<1>1. /\ order' = order \ {adding} /\ adding' = NoNumber /\ option[adding] = None
      /\ UNCHANGED <<option, attached>>
  BY DEF AddFails, OptionInv, UnderWay, board
<1>2. QED
  BY <1>1 DEF OptionInv, InOrder, Once, UnderWay

LEMMA OptionStep ==
  ASSUME OptionInv, [Next]_vars
  PROVE  OptionInv'
<1> USE DEF board, boot, nv
<1>1. ASSUME NEW content \in Contents, AddToOrder(content) \/ AddOption(content)
      PROVE  OptionInv'
  BY <1>1, AddToOrderKeeps, AddOptionKeeps
<1>2. CASE PowerOn
  <2>1. /\ option' = [n \in Numbers |-> None] /\ order' = {} /\ adding' = NoNumber
        /\ attached' \in BOOLEAN
    BY <1>2 DEF PowerOn
  <2>2. QED
    BY <2>1 DEF OptionInv, InOrder, Once, UnderWay, None, Apps
<1>3. CASE BeforeConsole
  <2>1. adding = NoNumber
    BY <1>3, NothingUnderWay DEF BeforeConsole, Contents, Apps
  <2>2. QED
    BY <1>3, <2>1, OptionsKept DEF BeforeConsole, OptionInv
<1>5. CASE AddKey
  <2>1. adding = NoNumber
    BY <1>5, NothingUnderWay DEF AddKey, Contents, Apps
  <2>2. QED
    BY <1>5, <2>1, OptionsKept DEF AddKey, OptionInv
<1>6. CASE ProcessCapsule \/ CapsulesDone
  <2>1. adding = NoNumber
    BY <1>6, NothingUnderWay DEF ProcessCapsule, CapsulesDone, Contents, Apps
  <2>2. QED
    BY <1>6, <2>1, OptionsKept DEF ProcessCapsule, CapsulesDone, OptionInv
<1>8. CASE Refreshed
  BY <1>8, OptionsKept DEF Refreshed, OptionInv
<1>9. CASE Setup \/ WaitCallback
  <2>1. adding = NoNumber
    BY <1>9, NothingUnderWay DEF Setup, WaitCallback, Contents, Apps
  <2>2. QED
    BY <1>9, <2>1, OptionsKept DEF Setup, WaitCallback, OptionInv
<1>10. CASE AddFails
  BY <1>10, AddFailsKeeps
<1>11. CASE OsBoots
  BY <1>11, OptionsKept DEF OsBoots, Ends, OptionInv
<1>13. CASE PowerLoss
  BY <1>13, OptionsKept DEF PowerLoss, Ends, OptionInv
<1>14. CASE UNCHANGED vars
  BY <1>14, OptionsKept DEF vars, OptionInv
<1>15. QED
  BY <1>1, <1>2, <1>3, <1>5, <1>6, <1>8, <1>9, <1>10, <1>11, <1>13, <1>14
     DEF Next, Boot

LEMMA InitOptions ==
  ASSUME Init
  PROVE  OptionInv
  BY DEF Init, OptionInv, InOrder, Once, UnderWay, None, Apps, NoNumber

(* No application is among the boot options twice. *)
LEMMA OneOption ==
  ASSUME OptionInv, NEW app \in Apps
  PROVE  Cardinality(Options(app)) = IF \E n \in order : option[n] = app THEN 1 ELSE 0
<1>1. \A m, n \in Options(app) : m = n
  BY DEF OptionInv, Once, Options
<1>2. CASE Options(app) = {}
  BY <1>2, FS_EmptySet DEF Options
<1>3. CASE Options(app) # {}
  <2>1. PICK n \in Options(app) : TRUE
    BY <1>3
  <2>2. Options(app) = {n}
    BY <1>1, <2>1
  <2>3. QED
    BY <2>1, <2>2, FS_Singleton DEF Options
<1>4. QED
  BY <1>2, <1>3

-----------------------------------------------------------------------------
(* Capsules. *)

(* Applied capsules keep BDS from going on, up to the reset. *)
LEMMA CapsuleStep ==
  ASSUME OptionInv, CapsuleInv, [Next]_vars
  PROVE  CapsuleInv'
<1> USE DEF CapsuleInv, boot
<1>1. ASSUME NEW content \in Contents, AddToOrder(content)
      PROVE  CapsuleInv'
  BY <1>1 DEF AddToOrder
<1>2. CASE PowerOn
  <2>1. applied' = 0 /\ bad' \in BOOLEAN
    BY <1>2 DEF PowerOn
  <2>2. QED
    BY <2>1
<1>3. CASE BeforeConsole \/ AddKey
  BY <1>3 DEF BeforeConsole, AddKey
<1>4. CASE ProcessCapsule
  <2>1. CASE applied' = applied + 1 /\ UNCHANGED <<bad, pc>>
    BY <1>4, <2>1 DEF ProcessCapsule
  <2>2. CASE bad' = TRUE /\ UNCHANGED applied
    <3>1. bad' \in BOOLEAN /\ bad'
      BY <2>2
    <3>2. QED
      BY <2>2, <3>1
  <2>3. QED
    BY <1>4, <2>1, <2>2 DEF ProcessCapsule
<1>5. CASE CapsulesDone
  BY <1>5 DEF CapsulesDone, NeedReset
<1>6. CASE Refreshed \/ Setup \/ WaitCallback
  BY <1>6 DEF Refreshed, Setup, WaitCallback
<1>7. CASE AddFails
  <2>1. pc # "capsules"
    BY <1>7, NothingUnderWay DEF AddFails, Contents, Apps
  <2>2. QED
    BY <1>7, <2>1 DEF AddFails
<1>8. CASE OsBoots \/ PowerLoss
  BY <1>8 DEF OsBoots, PowerLoss, Ends
<1>9. ASSUME NEW content \in Contents, AddOption(content)
      PROVE  CapsuleInv'
  BY <1>9 DEF AddOption, Registers, Contents, Apps
<1>11. CASE UNCHANGED vars
  BY <1>11 DEF vars
<1>12. QED
  BY <1>1, <1>2, <1>3, <1>4, <1>5, <1>6, <1>7, <1>8, <1>9, <1>11 DEF Next, Boot

(* The platform waits for the user with freshly applied capsules only when a *)
(* later capsule failed: otherwise the reset comes first (HandleCapsules).   *)
THEOREM CapsulesThenReset == Spec => []ResetAfterCapsules
<1>1. Init => OptionInv /\ CapsuleInv
  <2>1. Init => applied = 0 /\ pc = "off" /\ bad \in BOOLEAN
    BY DEF Init
  <2>2. QED
    BY <2>1, InitOptions DEF CapsuleInv
<1>2. CapsuleInv => ResetAfterCapsules
  BY DEF CapsuleInv, ResetAfterCapsules
<1>3. QED
  BY <1>1, <1>2, OptionStep, CapsuleStep, PTL DEF Spec

-----------------------------------------------------------------------------
(* The order of the stages. *)

StageNames == {"consoles", "menu", "simple", "key", "capsules", "refresh", "shell", "storage",
               "switch", "setup", "wait"}

(* Where a boot is: in a stage that is built in. *)
StageInv ==
  /\ simpleInit \in BOOLEAN /\ timeout \in Nat /\ features \subseteq {"storage", "switch"}
  /\ pc = "off" \/ (pc \in StageNames /\ Included(pc))

LEMMA RouteFacts ==
  /\ DOMAIN Route = 1 .. 11
  /\ Route[1] = "consoles" /\ Route[2] = "menu" /\ Route[3] = "simple" /\ Route[4] = "key"
  /\ Route[5] = "capsules" /\ Route[6] = "refresh" /\ Route[7] = "shell" /\ Route[8] = "storage"
  /\ Route[9] = "switch" /\ Route[10] = "setup" /\ Route[11] = "wait"
  BY DEF Route

LEMMA PositionIs ==
  ASSUME NEW i \in 1 .. 11
  PROVE  Position(Route[i]) = i
<1>1. \A j \in 1 .. 11 : Route[j] = Route[i] => j = i
  BY RouteFacts
<1>2. QED
  BY <1>1, RouteFacts DEF Position

LEMMA AfterIs ==
  ASSUME NEW i \in 1 .. 11, NEW k \in 1 .. 11, i < k, Included(Route[k]),
         \A j \in i + 1 .. k - 1 : ~Included(Route[j])
  PROVE  After(Route[i]) = Route[k]
<1>1. \A l \in 1 .. 11 :
        (i < l /\ Included(Route[l]) /\ \A j \in i + 1 .. l - 1 : ~Included(Route[j])) => l = k
  OBVIOUS
<1>2. QED
  BY <1>1, PositionIs, RouteFacts DEF After

(* What follows each stage. *)
LEMMA Order ==
  ASSUME simpleInit \in BOOLEAN
  PROVE  /\ After("consoles") = "menu"
         /\ After("menu") = IF simpleInit THEN "simple" ELSE "key"
         /\ After("simple") = "key" /\ After("key") = "capsules" /\ After("capsules") = "refresh"
         /\ After("refresh") = "shell"
         /\ After("shell") = IF "storage" \in features THEN "storage"
                             ELSE IF "switch" \in features THEN "switch" ELSE "setup"
         /\ After("storage") = IF "switch" \in features THEN "switch" ELSE "setup"
         /\ After("switch") = "setup" /\ After("setup") = "wait"
<1>1. \A i \in {1, 3, 4, 5, 6, 9, 10} :
        i \in 1 .. 11 /\ i + 1 \in 1 .. 11 /\ i < i + 1 /\ i + 1 .. i + 1 - 1 = {}
  OBVIOUS
<1>2. \A i \in {2, 4, 5, 6, 7, 10, 11} : Included(Route[i])
  BY RouteFacts DEF Included
<1>3. \A i \in {1, 3, 4, 5, 6, 9, 10} : After(Route[i]) = Route[i + 1]
  BY <1>1, <1>2, AfterIs
<1>4. After(Route[2]) = IF simpleInit THEN Route[3] ELSE Route[4]
  <2>1. CASE simpleInit
    BY <2>1, AfterIs, RouteFacts DEF Included
  <2>2. CASE ~simpleInit
    BY <2>2, AfterIs, RouteFacts DEF Included
  <2>3. QED
    BY <2>1, <2>2
<1>5. After(Route[7]) = IF "storage" \in features THEN Route[8]
                        ELSE IF "switch" \in features THEN Route[9] ELSE Route[10]
  <2>1. CASE "storage" \in features
    BY <2>1, AfterIs, RouteFacts DEF Included
  <2>2. CASE "storage" \notin features /\ "switch" \in features
    BY <2>2, AfterIs, RouteFacts DEF Included
  <2>3. CASE "storage" \notin features /\ "switch" \notin features
    BY <2>3, AfterIs, RouteFacts DEF Included
  <2>4. QED
    BY <2>1, <2>2, <2>3
<1>6. After(Route[8]) = IF "switch" \in features THEN Route[9] ELSE Route[10]
  <2>1. CASE "switch" \in features
    BY <2>1, AfterIs, RouteFacts DEF Included
  <2>2. CASE "switch" \notin features
    BY <2>2, AfterIs, RouteFacts DEF Included
  <2>3. QED
    BY <2>1, <2>2
<1>7. QED
  BY <1>3, <1>4, <1>5, <1>6, RouteFacts

LEMMA AfterStage ==
  ASSUME StageInv, pc \in StageNames \ {"wait"}
  PROVE  After(pc) \in StageNames /\ Included(After(pc))
  BY Order DEF StageInv, StageNames, Included

(* What is built in does not change. *)
LEMMA SameBuild ==
  ASSUME [Next]_vars
  PROVE  UNCHANGED build
  BY DEF build, Next, Boot, vars, AddToOrder, AddOption, PowerOn, BeforeConsole, AddKey,
         ProcessCapsule, CapsulesDone, Refreshed, Setup, WaitCallback, AddFails, OsBoots, PowerLoss

LEMMA StageStep ==
  ASSUME OptionInv, StageInv, [Next]_vars
  PROVE  StageInv'
<1> USE DEF nv, boot, build
<1>1. UNCHANGED <<simpleInit, timeout, features>>
  BY SameBuild DEF build
<1>2. \A stage : Included(stage) => Included(stage)'
  BY <1>1 DEF Included
<1>3. \/ UNCHANGED pc \/ pc' \in {"off", "consoles"}
      \/ pc \in StageNames \ {"wait"} /\ pc' = After(pc)
  <2>1. ASSUME NEW content \in Contents, AddToOrder(content) \/ AddOption(content)
        PROVE  UNCHANGED pc \/ (pc \in StageNames \ {"wait"} /\ pc' = After(pc))
    BY <2>1 DEF AddToOrder, AddOption, Registers, StageInv, StageNames, Contents, Apps
  <2>2. CASE AddFails
    BY <2>2, NothingUnderWay DEF AddFails, StageInv, StageNames, Contents, Apps
  <2>3. CASE PowerOn \/ OsBoots \/ PowerLoss
    BY <2>3 DEF PowerOn, OsBoots, PowerLoss, Ends
  <2>4. CASE BeforeConsole \/ AddKey \/ ProcessCapsule \/ CapsulesDone
             \/ Refreshed \/ Setup \/ WaitCallback \/ UNCHANGED vars
    BY <2>4 DEF BeforeConsole, AddKey, ProcessCapsule, CapsulesDone,
                Refreshed, Setup, WaitCallback, vars, StageNames, Apps
  <2>5. QED
    BY <2>1, <2>2, <2>3, <2>4 DEF Next, Boot
<1>4. QED
  BY <1>1, <1>2, <1>3, AfterStage DEF StageInv, StageNames, Included

-----------------------------------------------------------------------------
(* Types. *)

VariableTypes ==
  /\ key \in [number : Numbers, content : Contents \cup {None}]
  /\ conIn \subseteq {"usb keyboard", "buttons", "stray", "serial"}
  /\ number \in Numbers /\ inputs \in 1 .. 2
  /\ lost \subseteq Contents \cup {"key"} /\ remaining \in 0 .. timeout

LEMMA TypeStep ==
  ASSUME OptionInv, StageInv, VariableTypes, [Next]_vars
  PROVE  VariableTypes'
<1> USE DEF nv, boot, board, build
<1>1. /\ option \in [Numbers -> Contents \cup {None}] /\ order \subseteq Numbers
      /\ 0 \in Numbers /\ timeout \in Nat /\ timeout' = timeout
  BY BootManagerAssumption, SameBuild DEF OptionInv, StageInv, Numbers
<1>2. ASSUME NEW content \in Contents, AddToOrder(content)
      PROVE  VariableTypes'
  <2>1. number' \in Numbers /\ UNCHANGED <<key, conIn, inputs, lost, remaining>>
    BY <1>2 DEF AddToOrder
  <2>2. QED
    BY <1>1, <2>1 DEF VariableTypes
<1>3. ASSUME NEW content \in Contents, AddOption(content)
      PROVE  VariableTypes'
  BY <1>1, <1>3 DEF AddOption, VariableTypes
<1>4. CASE PowerOn
  <2>1. /\ number' = 0 /\ remaining' = 0 /\ lost' = {} /\ key' = NoKey /\ conIn' = {}
        /\ UNCHANGED inputs
    BY <1>4 DEF PowerOn
  <2>2. remaining' \in 0 .. timeout
    BY <1>1, <2>1
  <2>3. key' \in [number : Numbers, content : Contents \cup {None}]
    BY <1>1, <2>1 DEF NoKey
  <2>4. QED
    BY <1>1, <2>1, <2>2, <2>3 DEF VariableTypes
<1>5. CASE BeforeConsole
  <2>1. conIn' = conIn \cup {"usb keyboard", SecondInput, "serial"}
        /\ UNCHANGED <<key, number, inputs, lost, remaining>>
    BY <1>5 DEF BeforeConsole
  <2>2. QED
    BY <1>1, <2>1 DEF VariableTypes, SecondInput
<1>7. CASE AddKey
  <2>1. /\ key' \in {key, [number |-> number, content |-> option[number]]}
        /\ lost' = lost \/ lost' = lost \cup {"key"}
        /\ UNCHANGED <<conIn, number, inputs, remaining>>
    BY <1>7 DEF AddKey
  <2>2. [number |-> number, content |-> option[number]]
          \in [number : Numbers, content : Contents \cup {None}]
    BY <1>1 DEF VariableTypes
  <2>3. lost' \subseteq Contents \cup {"key"}
    BY <2>1 DEF VariableTypes
  <2>4. QED
    BY <1>1, <2>1, <2>2, <2>3 DEF VariableTypes
<1>8. CASE ProcessCapsule \/ CapsulesDone \/ Refreshed \/ OsBoots \/ PowerLoss
  BY <1>1, <1>8 DEF ProcessCapsule, CapsulesDone, Refreshed, OsBoots, PowerLoss, VariableTypes
<1>9. CASE Setup \/ WaitCallback
  <2>1. /\ remaining' = timeout \/ (remaining > 0 /\ remaining' = remaining - 1)
        /\ UNCHANGED <<key, conIn, number, inputs, lost>>
    BY <1>9 DEF Setup, WaitCallback
  <2>2. remaining' \in 0 .. timeout
    <3>1. remaining \in 0 .. timeout /\ timeout \in Nat
      BY <1>1 DEF VariableTypes
    <3>2. QED
      BY <2>1, <3>1
  <2>3. QED
    BY <1>1, <2>1, <2>2 DEF VariableTypes
<1>10. CASE AddFails
  <2>1. /\ lost' = lost \cup {Registered}
        /\ UNCHANGED <<key, conIn, number, inputs, remaining>>
    BY <1>10 DEF AddFails
  <2>2. Registered \in Contents
    BY <1>10 DEF AddFails, Registered, OptionInv, UnderWay, Contents
  <2>3. QED
    BY <1>1, <2>1, <2>2 DEF VariableTypes
<1>11. CASE UNCHANGED vars
  BY <1>11 DEF vars, VariableTypes
<1>12. QED
  BY <1>2, <1>3, <1>4, <1>5, <1>7, <1>8, <1>9, <1>10, <1>11 DEF Next, Boot

LEMMA InitTypes ==
  ASSUME Init
  PROVE  StageInv /\ VariableTypes /\ CapsuleInv
<1>1. 0 \in Numbers /\ timeout \in Nat /\ 0 \in 0 .. timeout
  BY BootManagerAssumption DEF Init, Numbers
<1>2. simpleInit \in BOOLEAN /\ lost \subseteq Contents \cup {"key"} /\ bad \in BOOLEAN
  BY BootManagerAssumption DEF Init
<1>3. key \in [number : Numbers, content : Contents \cup {None}]
  BY <1>1 DEF Init, NoKey
<1>4. QED
  BY <1>1, <1>2, <1>3 DEF Init, StageInv, VariableTypes, CapsuleInv

(* The bar of the countdown. *)
LEMMA Percentage ==
  ASSUME NEW part \in Nat, NEW whole \in Nat \ {0}, part <= whole
  PROVE  (part * 100) \div whole \in 0 .. 100
  OBVIOUS

LEMMA BootInvariance == Spec => [](OptionInv /\ StageInv /\ CapsuleInv /\ VariableTypes)
<1>1. Init => OptionInv /\ StageInv /\ CapsuleInv /\ VariableTypes
  BY InitOptions, InitTypes
<1>2. QED
  BY <1>1, OptionStep, StageStep, CapsuleStep, TypeStep, PTL DEF Spec

(* Every variable of the boot manager keeps its type: an option number fits  *)
(* OptionNumber, and the progress is a percentage for every time-out         *)
(* (PlatformRegisterFvBootOption, PlatformBootManagerWaitCallback).          *)
THEOREM TypeCorrect == Spec => []TypeOK
<1>1. ASSUME OptionInv, StageInv, CapsuleInv, VariableTypes
      PROVE  TypeOK
  <2>1. timeout # 0 => Progress(remaining) \in 0 .. 100
    <3>1. timeout \in Nat /\ remaining \in 0 .. timeout
      BY <1>1 DEF StageInv, VariableTypes
    <3>2. timeout # 0 => /\ timeout - remaining \in Nat /\ timeout - remaining <= timeout
                         /\ timeout \in Nat \ {0}
      BY <3>1
    <3>3. QED
      BY <3>2, Percentage DEF Progress
  <2>2. pc = "off" \/ \E i \in DOMAIN Route : pc = Route[i] /\ Included(pc)
    BY <1>1, RouteFacts DEF StageInv, StageNames
  <2>3. key.number \in Numbers /\ key.content \in Contents \cup {None}
    BY <1>1 DEF VariableTypes
  <2>4. QED
    BY <1>1, <2>1, <2>2, <2>3 DEF TypeOK, OptionInv, CapsuleInv, VariableTypes
<1>2. QED
  BY <1>1, BootInvariance, PTL

-----------------------------------------------------------------------------
(* The applications are offered. *)

(* The stages behind that of an application. *)
Behind ==
  [shell   |-> {"storage", "switch", "setup", "wait"},
   storage |-> {"switch", "setup", "wait"},
   switch  |-> {"setup", "wait"},
   simple  |-> StageNames \ {"consoles", "menu", "simple"},
   menu    |-> StageNames \ {"consoles", "menu"}]

HasOption(app) == \E n \in order : option[n] = app

(* What a boot has passed is an option, unless its option could not be       *)
(* written, and nothing else is.                                             *)
OfferInv ==
  pc # "off" =>
    /\ \A app \in Apps : HasOption(app) <=> app \in Expected \ lost /\ pc \in Behind[app]
    /\ \A app \in Apps \cap lost : pc \in Behind[app]

LEMMA BehindFacts ==
  /\ Behind["shell"] = {"storage", "switch", "setup", "wait"}
  /\ Behind["storage"] = {"switch", "setup", "wait"}
  /\ Behind["switch"] = {"setup", "wait"}
  /\ Behind["simple"] = {"key", "capsules", "refresh", "shell", "storage", "switch", "setup", "wait"}
  /\ Behind["menu"] = {"simple", "key", "capsules", "refresh", "shell", "storage", "switch", "setup",
                       "wait"}
  BY DEF Behind, StageNames

(* No application is passed but by its stage, if that is built in, and a     *)
(* stage does not lie behind itself.                                         *)
LEMMA Passing ==
  ASSUME StageInv, pc \in StageNames \ {"wait"}, NEW app \in Apps
  PROVE  /\ app \in Expected => (After(pc) \in Behind[app] <=> pc \in Behind[app] \/ pc = app)
         /\ pc \in Behind[app] => After(pc) \in Behind[app]
         /\ pc = app => app \in Expected /\ pc \notin Behind[app] /\ After(pc) \in Behind[app]
<1>1. /\ app = "simple" => (app \in Expected <=> simpleInit)
      /\ app = "storage" => (app \in Expected <=> "storage" \in features)
      /\ app = "switch" => (app \in Expected <=> "switch" \in features)
      /\ app \in {"menu", "shell"} => app \in Expected
  BY DEF Expected, StageInv
<1>2. app \in {"menu", "simple", "shell", "storage", "switch"}
  BY DEF Apps
<1>3. pc \in {"consoles", "menu", "simple", "key", "capsules", "refresh", "shell", "storage",
              "switch", "setup"}
  BY DEF StageNames
<1>4. /\ simpleInit \in BOOLEAN
      /\ pc = "simple" => simpleInit
      /\ pc = "storage" => "storage" \in features
      /\ pc = "switch" => "switch" \in features
  BY <1>3 DEF StageInv, Included
<1>5. QED
  BY <1>1, <1>2, <1>3, <1>4, Order, BehindFacts

LEMMA OfferStep ==
  ASSUME OptionInv, StageInv, OfferInv, [Next]_vars
  PROVE  OfferInv'
<1> USE DEF nv, boot, board, build
<1>1. Expected \subseteq Apps /\ Expected' = Expected
  BY SameBuild DEF Expected, Apps, StageInv
\* The options of applications stay, and so does the boot, or it leaves a stage that is none.
<1>2. ASSUME UNCHANGED pc \/ (pc \in StageNames \ (Apps \cup {"wait"}) /\ pc' = After(pc)),
             lost' \cap Apps = lost \cap Apps, pc # "off",
             \A app \in Apps : HasOption(app)' <=> HasOption(app)
      PROVE  OfferInv'
  <2>1. CASE UNCHANGED pc
    BY <1>1, <1>2, <2>1 DEF OfferInv
  <2>2. CASE pc \in StageNames \ (Apps \cup {"wait"}) /\ pc' = After(pc)
    <3>1. \A app \in Apps : /\ app \in Expected => (pc' \in Behind[app] <=> pc \in Behind[app])
                            /\ pc \in Behind[app] => pc' \in Behind[app]
      BY <2>2, Passing
    <3>2. QED
      BY <1>1, <1>2, <3>1 DEF OfferInv
  <2>3. QED
    BY <1>2, <2>1, <2>2
\* The boot leaves the stage of an application, which has an option now or is lost.
<1>3. ASSUME NEW stage \in Apps, pc = stage, pc' = After(pc),
             \/ lost' = lost /\ HasOption(stage)'
             \/ lost' = lost \cup {stage} /\ ~HasOption(stage)',
             \A app \in Apps \ {stage} : HasOption(app)' <=> HasOption(app)
      PROVE  OfferInv'
  <2>1. pc \in StageNames \ {"wait"} /\ pc # "off"
    BY <1>3 DEF Apps, StageNames
  <2>2. /\ stage \in Expected /\ pc \notin Behind[stage] /\ pc' \in Behind[stage]
        /\ stage \notin lost
    BY <1>3, <2>1, Passing DEF OfferInv
  <2>3. \A app \in Apps \ {stage} :
          /\ app \in Expected => (pc' \in Behind[app] <=> pc \in Behind[app])
          /\ pc \in Behind[app] => pc' \in Behind[app]
          /\ app \in lost' <=> app \in lost
    BY <1>3, <2>1, Passing
  <2>4. HasOption(stage)' <=> stage \notin lost'
    BY <1>3, <2>2
  <2>5. \A app \in Apps : HasOption(app)' <=> app \in Expected \ lost' /\ pc' \in Behind[app]
    BY <1>3, <2>1, <2>2, <2>3, <2>4 DEF OfferInv
  <2>6. \A app \in Apps \cap lost' : pc' \in Behind[app]
    BY <1>3, <2>1, <2>2, <2>3 DEF OfferInv
  <2>7. QED
    BY <1>1, <2>5, <2>6 DEF OfferInv
<1>4. ASSUME NEW content \in Contents, AddToOrder(content)
      PROVE  OfferInv'
  <2>1. PICK free \in Numbers : IsLowestFree(free) /\ order' = order \cup {free}
    BY <1>4 DEF AddToOrder
  <2>2. option[free] = None /\ option' = option /\ pc # "off" /\ UNCHANGED <<pc, lost>>
    BY <1>4, <2>1, NumberFacts
    DEF AddToOrder, Registers, IsLowestFree, OptionInv, InOrder
  <2>3. \A app \in Apps : HasOption(app)' <=> HasOption(app)
    BY <2>1, <2>2, NumberFacts DEF HasOption
  <2>4. QED
    BY <1>2, <2>2, <2>3
<1>5. ASSUME NEW content \in Contents, AddOption(content)
      PROVE  OfferInv'
  <2>1. /\ adding \in order /\ option[adding] = None /\ order \subseteq Numbers
        /\ option' = [option EXCEPT ![adding] = content]
        /\ UNCHANGED <<order, lost>> /\ pc # "off"
        /\ pc = content \/ (pc = "refresh" /\ content = "device")
        /\ pc' = IF pc = "refresh" THEN pc ELSE After(pc)
    BY <1>5, NumberFacts DEF AddOption, Registers, OptionInv, UnderWay
  <2>2. option'[adding] = content /\ \A n \in order \ {adding} : option'[n] = option[n]
    BY <2>1 DEF OptionInv
  <2>3. \A app \in Contents \ {content} : HasOption(app)' <=> HasOption(app)
    BY <2>1, <2>2, NumberFacts DEF HasOption
  <2>4. HasOption(content)'
    BY <2>1, <2>2 DEF HasOption
  <2>5. CASE pc = "refresh"
    <3>1. content \notin Apps /\ pc' = pc
      BY <2>1, <2>5, NumberFacts
    <3>2. QED
      BY <1>2, <2>1, <2>3, <3>1, NumberFacts
  <2>6. CASE pc # "refresh"
    <3>1. pc = content /\ content \in Apps
      BY <2>1, <2>6 DEF StageInv, StageNames, Contents, Apps
    <3>2. QED
      BY <1>3, <2>1, <2>3, <2>4, <2>6, <3>1, NumberFacts
  <2>7. QED
    BY <2>5, <2>6
<1>6. CASE AddFails
  <2>1. /\ order' = order \ {adding} /\ option' = option /\ option[adding] = None /\ pc # "off"
        /\ pc' = After(pc) /\ lost' = lost \cup {Registered}
        /\ pc \in Contents \cup {"refresh"}
        /\ \A n \in order : option[n] # pc
    BY <1>6 DEF AddFails, OptionInv, UnderWay
  <2>2. \A app \in Apps : HasOption(app)' <=> HasOption(app)
    BY <2>1, NumberFacts DEF HasOption
  <2>3. CASE pc = "refresh"
    <3>1. lost' \cap Apps = lost \cap Apps /\ pc \in StageNames \ (Apps \cup {"wait"})
      BY <2>1, <2>3 DEF Registered, StageNames, Apps
    <3>2. QED
      BY <1>2, <2>1, <2>2, <3>1
  <2>4. CASE pc # "refresh"
    <3>1. PICK stage \in Apps : pc = stage /\ lost' = lost \cup {stage}
      BY <2>1, <2>4 DEF Registered, StageInv, StageNames, Contents, Apps
    <3>2. ~HasOption(stage)'
      BY <2>1, <3>1 DEF HasOption
    <3>3. QED
      BY <1>3, <2>1, <2>2, <3>1, <3>2
  <2>5. QED
    BY <2>3, <2>4
<1>7. CASE PowerOn
  <2>1. pc' = "consoles" /\ option' = [n \in Numbers |-> None] /\ order' = {} /\ lost' = {}
    BY <1>7 DEF PowerOn
  <2>2. \A app \in Apps : "consoles" \notin Behind[app]
    BY BehindFacts DEF Apps
  <2>3. QED
    BY <2>1, <2>2 DEF OfferInv, HasOption
<1>8. CASE OsBoots \/ PowerLoss
  BY <1>8 DEF OsBoots, PowerLoss, Ends, OfferInv
<1>9. CASE BeforeConsole \/ AddKey \/ ProcessCapsule \/ Refreshed \/ Setup \/ WaitCallback
  <2>1. /\ UNCHANGED <<option, order>> /\ pc # "off"
        /\ lost' = lost \/ lost' = lost \cup {"key"}
        /\ UNCHANGED pc \/ (pc \in StageNames \ (Apps \cup {"wait"}) /\ pc' = After(pc))
    BY <1>9 DEF BeforeConsole, AddKey, ProcessCapsule, Refreshed, Setup, WaitCallback,
                StageNames, Apps
  <2>2. lost' \cap Apps = lost \cap Apps
    BY <2>1 DEF Apps
  <2>3. QED
    BY <1>2, <2>1, <2>2 DEF HasOption
<1>10. CASE CapsulesDone
  <2>1. CASE pc' = "off"
    BY <2>1 DEF OfferInv
  <2>2. CASE pc' = After(pc)
    BY <1>2, <1>10, <2>2 DEF CapsulesDone, HasOption, StageNames, Apps
  <2>3. QED
    BY <1>10, <2>1, <2>2 DEF CapsulesDone
<1>11. CASE UNCHANGED vars
  BY <1>1, <1>11 DEF vars, OfferInv, HasOption
<1>12. QED
  BY <1>4, <1>5, <1>6, <1>7, <1>8, <1>9, <1>10, <1>11 DEF Next, Boot

LEMMA OfferInvariance == Spec => [](OptionInv /\ StageInv /\ VariableTypes /\ OfferInv)
<1>1. Init => OptionInv /\ StageInv /\ VariableTypes /\ OfferInv
  <2>1. Init => pc = "off"
    BY DEF Init
  <2>2. QED
    BY <2>1, InitOptions, InitTypes DEF OfferInv
<1>2. QED
  BY <1>1, OptionStep, StageStep, TypeStep, OfferStep, PTL DEF Spec

(* When the user can choose, an application is among the options once if it   *)
(* is built in and its own option could be written, and not at all otherwise, *)
(* whichever of the other writes failed (PlatformRegisterFvBootOption,        *)
(* PlatformRegisterOptionsAndKeys, PlatformBootManagerAfterConsole).          *)
THEOREM FailureCostsOneApp == Spec => []AppsOffered
<1>1. ASSUME OptionInv, StageInv, OfferInv
      PROVE  AppsOffered
  <2> SUFFICES ASSUME pc = "wait", NEW app \in Apps
               PROVE  Cardinality(Options(app)) = IF app \in Expected \ lost THEN 1 ELSE 0
    BY DEF AppsOffered
  <2>1. pc \in Behind[app]
    BY BehindFacts DEF Apps
  <2>2. HasOption(app) <=> app \in Expected \ lost
    BY <1>1, <2>1 DEF OfferInv
  <2>3. QED
    BY <1>1, <2>2, OneOption DEF HasOption
<1>2. QED
  BY <1>1, OfferInvariance, PTL

-----------------------------------------------------------------------------
(* The hot key. *)

(* The key is given the number of the option on the screen: the one that was *)
(* just registered; a failed write leaves a number without an option, for    *)
(* which no key is made.                                                     *)
ShownNumber ==
  /\ pc = Shown /\ adding # NoNumber => number = adding
  /\ pc = "key" => option[number] = IF Shown \in lost THEN None ELSE Shown

BeforeKey == {"consoles", "menu", "simple", "key"}

KeyInv ==
  pc # "off" =>
    /\ ShownNumber
    /\ pc \in BeforeKey => key = NoKey /\ "key" \notin lost
    /\ pc \notin BeforeKey =>
         IF {Shown, "key"} \cap lost = {} THEN UpOpens(Shown) ELSE key = NoKey

(* Behind the stage of the key, what is added takes nothing away.            *)
LEMMA KeyKept ==
  ASSUME KeyInv, pc \notin BeforeKey \cup {"off"}, pc' \notin BeforeKey, simpleInit \in BOOLEAN,
         Shown' = Shown, key' = key, {Shown, "key"} \cap lost' = {Shown, "key"} \cap lost,
         option[key.number] = Shown => option'[key.number] = Shown
  PROVE  KeyInv'
  BY DEF KeyInv, ShownNumber, Shown, BeforeKey, UpOpens

LEMMA KeyStep ==
  ASSUME OptionInv, StageInv, VariableTypes, OfferInv, KeyInv, [Next]_vars
  PROVE  KeyInv'
<1> USE DEF nv, boot, board, build
<1>1. /\ simpleInit \in BOOLEAN /\ Shown' = Shown /\ Shown \in {"menu", "simple"}
      /\ option \in [Numbers -> Contents \cup {None}]
      /\ number \in Numbers /\ key.number \in Numbers
  <2>1. simpleInit' = simpleInit
    BY SameBuild
  <2>2. Shown' = Shown /\ Shown \in {"menu", "simple"}
    BY <2>1 DEF Shown
  <2>3. QED
    BY <2>2 DEF StageInv, OptionInv, VariableTypes
<1>2. /\ pc = "simple" => simpleInit
      /\ pc = "off" \/ pc \in StageNames
  BY DEF StageInv, Included
<1>3. ASSUME NEW content \in Contents, AddToOrder(content)
      PROVE  KeyInv'
  <2>1. /\ pc # "key" /\ pc # "off" /\ UNCHANGED <<pc, key, option, lost>> /\ number' = adding'
    BY <1>3 DEF AddToOrder, Registers, Contents, Apps
  <2>2. QED
    BY <1>1, <2>1 DEF KeyInv, ShownNumber, UpOpens, BeforeKey
<1>4. ASSUME NEW content \in Contents, AddOption(content)
      PROVE  KeyInv'
  <2>1. /\ UNCHANGED <<key, number, lost>> /\ adding \in Numbers /\ adding # NoNumber
        /\ option' = [option EXCEPT ![adding] = content] /\ adding' = NoNumber
        /\ pc = content \/ (pc = "refresh" /\ content = "device")
        /\ pc' = IF pc = "refresh" THEN pc ELSE After(pc)
        /\ pc # "off" /\ option[adding] = None
    BY <1>4, NumberFacts DEF AddOption, Registers, OptionInv, UnderWay
  <2>2. pc \in {"menu", "simple", "refresh", "shell", "storage", "switch"}
    BY <1>2, <2>1 DEF Contents, Apps, StageNames
  <2>3. CASE pc = Shown
    <3>1. pc' = "key" /\ number = adding /\ option'[number] = Shown
      BY <1>1, <2>1, <2>3, Order DEF KeyInv, ShownNumber, Shown
    <3>2. Shown \notin lost
      BY <1>1, <2>1, <2>3, BehindFacts DEF OfferInv, Apps
    <3>3. key' = NoKey /\ "key" \notin lost'
      BY <1>1, <2>1, <2>3 DEF KeyInv, BeforeKey
    <3>4. QED
      BY <1>1, <2>1, <3>1, <3>2, <3>3 DEF KeyInv, ShownNumber, BeforeKey
  <2>4. CASE pc = "menu" /\ pc # Shown
    <3>1. pc' = "simple" /\ key' = NoKey /\ "key" \notin lost'
      BY <1>1, <2>1, <2>4, Order DEF KeyInv, BeforeKey, Shown
    <3>2. QED
      BY <1>1, <2>1, <3>1 DEF KeyInv, ShownNumber, BeforeKey
  <2>5. CASE pc \in {"refresh", "shell", "storage", "switch"}
    <3>1. pc' \notin BeforeKey
      BY <1>1, <2>1, <2>5, Order DEF BeforeKey
    <3>2. option[key.number] = Shown => option'[key.number] = Shown
      BY <1>1, <2>1 DEF None
    <3>3. QED
      BY <1>1, <2>1, <2>5, <3>1, <3>2, KeyKept DEF BeforeKey
  <2>6. QED
    BY <1>1, <1>2, <2>2, <2>3, <2>4, <2>5 DEF Shown
<1>5. CASE AddFails
  <2>1. /\ UNCHANGED <<key, number, option>> /\ pc' = After(pc) /\ pc # "off"
        /\ lost' = lost \cup {Registered}
        /\ adding # NoNumber /\ adding' = NoNumber /\ option[adding] = None
        /\ pc \in Contents \cup {"refresh"}
    BY <1>5 DEF AddFails, OptionInv, UnderWay
  <2>2. pc \in {"menu", "simple", "refresh", "shell", "storage", "switch"}
    BY <1>2, <2>1 DEF Contents, Apps, StageNames
  <2>3. CASE pc = Shown
    <3>1. pc' = "key" /\ option'[number'] = None /\ Shown \in lost'
      BY <1>1, <2>1, <2>3, Order DEF KeyInv, ShownNumber, Shown, Registered
    <3>2. key' = NoKey /\ "key" \notin lost'
      BY <1>1, <2>1, <2>3 DEF KeyInv, BeforeKey, Registered
    <3>3. QED
      BY <1>1, <2>1, <3>1, <3>2 DEF KeyInv, ShownNumber, BeforeKey
  <2>4. CASE pc = "menu" /\ pc # Shown
    <3>1. pc' = "simple" /\ key' = NoKey /\ "key" \notin lost'
      BY <1>1, <2>1, <2>4, Order DEF KeyInv, BeforeKey, Shown, Registered
    <3>2. QED
      BY <1>1, <2>1, <3>1 DEF KeyInv, ShownNumber, BeforeKey
  <2>5. CASE pc \in {"refresh", "shell", "storage", "switch"}
    <3>1. pc' \notin BeforeKey
      BY <1>1, <2>1, <2>5, Order DEF BeforeKey
    <3>2. {Shown, "key"} \cap lost' = {Shown, "key"} \cap lost
      BY <1>1, <2>1, <2>5 DEF Registered
    <3>3. QED
      BY <1>1, <2>1, <2>5, <3>1, <3>2, KeyKept DEF BeforeKey
  <2>6. QED
    BY <1>1, <1>2, <2>2, <2>3, <2>4, <2>5 DEF Shown
<1>6. CASE PowerOn
  <2>1. pc' = "consoles" /\ adding' = NoNumber /\ key' = NoKey /\ lost' = {}
    BY <1>6 DEF PowerOn
  <2>2. QED
    BY <1>1, <2>1 DEF KeyInv, ShownNumber, BeforeKey
<1>7. CASE OsBoots \/ PowerLoss
  BY <1>7 DEF OsBoots, PowerLoss, Ends, KeyInv
<1>8. CASE BeforeConsole
  <2>1. pc = "consoles" /\ pc' = "menu" /\ adding = NoNumber /\ UNCHANGED <<adding, key, lost>>
    BY <1>1, <1>8, Order, NothingUnderWay DEF BeforeConsole, Contents, Apps
  <2>2. QED
    BY <1>1, <2>1 DEF KeyInv, ShownNumber, BeforeKey
<1>9. CASE AddKey
  <2>1. pc' = "capsules" /\ UNCHANGED <<option, number>> /\ pc = "key"
    BY <1>1, <1>9, Order DEF AddKey
  <2>2. /\ key = NoKey /\ "key" \notin lost
        /\ option[number] = IF Shown \in lost THEN None ELSE Shown
    BY <2>1 DEF KeyInv, ShownNumber, BeforeKey
  <2>3. CASE key' = (IF option[number] = None THEN key
                     ELSE [number |-> number, content |-> option[number]]) /\ lost' = lost
    <3>1. CASE Shown \in lost
      BY <1>1, <2>1, <2>2, <2>3, <3>1 DEF KeyInv, ShownNumber, BeforeKey
    <3>2. CASE Shown \notin lost
      <4>1. key' = [number |-> number, content |-> Shown] /\ option'[number] = Shown
        BY <1>1, <2>1, <2>2, <2>3, <3>2 DEF None
      <4>2. UpOpens(Shown)'
        BY <1>1, <4>1 DEF UpOpens, NoKey, None
      <4>3. QED
        BY <1>1, <2>1, <2>2, <2>3, <3>2, <4>2 DEF KeyInv, ShownNumber, BeforeKey
    <3>3. QED
      BY <3>1, <3>2
  <2>4. CASE lost' = lost \cup {"key"} /\ key' = key
    BY <1>1, <2>1, <2>2, <2>4 DEF KeyInv, ShownNumber, BeforeKey
  <2>5. QED
    BY <1>9, <2>3, <2>4 DEF AddKey
<1>10. CASE ProcessCapsule \/ CapsulesDone \/ Refreshed \/ Setup \/ WaitCallback
  <2>1. /\ UNCHANGED <<key, option, lost>>
        /\ pc \in {"capsules", "refresh", "setup", "wait"}
        /\ UNCHANGED pc \/ pc' = "off" \/ (pc # "wait" /\ pc' = After(pc))
    BY <1>10 DEF ProcessCapsule, CapsulesDone, Refreshed, Setup, WaitCallback
  <2>2. pc' \notin BeforeKey
    BY <1>1, <2>1, Order DEF BeforeKey
  <2>3. QED
    BY <1>1, <2>1, <2>2, KeyKept DEF BeforeKey
<1>11. CASE UNCHANGED vars
  BY <1>1, <1>11 DEF vars, KeyInv, ShownNumber, UpOpens
<1>12. QED
  BY <1>3, <1>4, <1>5, <1>6, <1>7, <1>8, <1>9, <1>10, <1>11 DEF Next, Boot

(* Whenever the user is asked to press it, UP opens what the screen names: the *)
(* number is handed from the option to the key, and no later option takes it.  *)
(* Where the option or the key could not be written it opens nothing           *)
(* (PlatformRegisterOptionsAndKeys).                                           *)
THEOREM UpOpensWhatIsShown == Spec => []KeyOpensShown
<1>1. Init => KeyInv
  BY DEF Init, KeyInv
<1>2. ASSUME KeyInv
      PROVE  KeyOpensShown
  BY <1>2 DEF KeyInv, KeyOpensShown, BeforeKey
<1>3. QED
  BY <1>1, <1>2, KeyStep, OfferInvariance, PTL DEF Spec

=============================================================================

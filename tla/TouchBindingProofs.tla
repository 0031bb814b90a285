------------------------- MODULE TouchBindingProofs -------------------------
(***************************************************************************)
(* The bus of the touch drivers, for every controller, number of Starts,   *)
(* messages and failures: it is closed when the OS takes over, and open    *)
(* while it is polled.                                                     *)
(*                                                                         *)
(* Neither property is inductive.  ExitBootServices closes the bus of      *)
(* gI2CInstance only, so it matters that no other was ever opened: there   *)
(* is one Start, because nothing closes the device protocol that Start     *)
(* opened (OneStart), and from OpenBus on gI2CInstance is its instance     *)
(* (OneBus).  Ready says what each stage of Start has behind it.           *)
(***************************************************************************)
EXTENDS TouchBinding, TLAPS

OpenStages == {"power", "id", "config_buffer", "command", "line", "response",
               "scan", "events", "install"}

OneStart ==
  ~byDriver => bus = {} /\ ~timer /\ ~installed

OneBus ==
  /\ bus \subseteq {gInstance}
  /\ pc = "open" => bus = {}
  /\ atOs => pc = "idle" /\ bus = {} /\ ~timer

Ready ==
  /\ pc \in Stages
  /\ byDriver \in BOOLEAN /\ timer \in BOOLEAN /\ installed \in BOOLEAN /\ atOs \in BOOLEAN
  /\ pc \in OpenStages => started \in bus
  /\ pc = "scan" => driver # "tcm"
  /\ pc \in {"events", "install"} => (driver = "tcm" => config # "none")
  /\ pc \notin {"install", "idle"} => ~timer
  /\ pc # "idle" => ~installed /\ byDriver
  /\ pc = "install" => timer

Inv == OneStart /\ OneBus /\ Ready /\ PointerAlive

-----------------------------------------------------------------------------
(* Initially nothing is open. *)
LEMMA InitInv ==
  ASSUME Init
  PROVE  Inv
  BY DEF Init, Inv, OneStart, OneBus, Ready, PointerAlive, PollsOpenBus, OfferedWhilePolled,
         Stages, OpenStages

(* What the steps have in common. *)
LEMMA Step ==
  ASSUME Inv, [Next]_vars
  PROVE  Inv'
<1> USE DEF Inv, OneStart, OneBus, Ready, PointerAlive, PollsOpenBus, OfferedWhilePolled,
            Stages, OpenStages, board, handle, instance, scan, controller
<1>1. CASE Publish
  BY <1>1 DEF Publish
<1>2. CASE Start
  BY <1>2 DEF Start, Supported, Goto
<1>3. CASE OpenBus
  BY <1>3 DEF OpenBus, Fault
<1>4. CASE PowerUp
  BY <1>4 DEF PowerUp, Goto, ExitStart, FailStart
<1>5. CASE ReadId
  BY <1>5 DEF ReadId, Receive, ReceiveFails, TransferFails, Fault, Goto, ExitStart, FailStart
<1>6. CASE AllocateConfig
  BY <1>6 DEF AllocateConfig, Fault, Goto, ExitStart
<1>7. CASE WriteCommand
  BY <1>7 DEF WriteCommand, Fault, Goto
<1>8. CASE LookAtLine
  BY <1>8 DEF LookAtLine, Goto, ExitStart, FailStart
<1>9. CASE ReadResponse
  BY <1>9 DEF ReadResponse, Receive, ReceiveFails, TransferFails, Fault, Goto, ExitStart,
              FailStart
<1>10. CASE Scan
  BY <1>10 DEF Scan, ScanFinds, ScanGoesOut, ScanTurnsPage, ScanGoesOn, ScanReadFails, Fault,
               Goto, ExitStart, FailStart
<1>11. CASE StartPolling
  BY <1>11 DEF StartPolling, Goto
<1>12. CASE Install
  BY <1>12 DEF Install, Fault, Goto, ExitStart
<1>13. CASE \E kind \in {"identify", "touch", "bad"} : Sends(kind)
  BY <1>13 DEF Sends
<1>14. CASE \E kind \in {"configuration", "refusal"} : Answers(kind)
  BY <1>14 DEF Answers
<1>15. CASE Poll
  BY <1>15 DEF Poll, Receive, ReceiveFails, TransferFails, Fault
<1>16. CASE Stop
  <2>1. CASE UNCHANGED <<installed, timer, bus>>
    BY <1>16, <2>1 DEF Stop
  <2>2. CASE installed' = FALSE /\ timer' = FALSE /\ bus' = bus \ {started}
    <3>1. byDriver /\ pc = "idle" /\ ~atOs
      BY <1>16 DEF Stop
    <3>2. UNCHANGED <<byDriver, pc, gInstance, atOs>>
      BY <1>16 DEF Stop
    <3>3. OneStart'
      BY <3>1, <3>2
    <3>4. OneBus'
      BY <2>2, <3>1, <3>2
    <3>5. Ready'
      BY <2>2, <3>1, <3>2
    <3>6. QED
      BY <2>2, <3>3, <3>4, <3>5
  <2>3. QED
    BY <1>16, <2>1, <2>2 DEF Stop
<1>17. CASE ExitBootServices
  BY <1>17 DEF ExitBootServices
<1>18. CASE UNCHANGED vars
  BY <1>18 DEF vars
<1>19. QED
  BY <1>1, <1>2, <1>3, <1>4, <1>5, <1>6, <1>7, <1>8, <1>9, <1>10, <1>11, <1>12, <1>13, <1>14,
     <1>15, <1>16, <1>17, <1>18 DEF Next, StartStep

-----------------------------------------------------------------------------
(* Whatever fails and in whatever order the calls come, no I2C controller is *)
(* left open for the operating system (ExitBootServices, OpenBus).           *)
THEOREM BusClosed == Spec => []ClosedAtHandOver
<1>1. Inv => ClosedAtHandOver
  BY DEF Inv, OneBus, ClosedAtHandOver
<1>2. QED
  BY <1>1, InitInv, Step, PTL DEF Spec

(* The timer never polls a bus that Start or Stop has closed, nor without    *)
(* something in ConfigData, and no pointer is offered that is not polled.    *)
THEOREM PolledBusOpen == Spec => []PointerAlive
<1>1. Inv => PointerAlive
  BY DEF Inv
<1>2. QED
  BY <1>1, InitInv, Step, PTL DEF Spec

-----------------------------------------------------------------------------
(* Types *)

(* The counters of the two loops of Start are below their limits as long as  *)
(* the loops go on.                                                          *)
Limits ==
  /\ pc = "line" => looked < Looks
  /\ pc \in {"open", "power", "scan"} => function < MaxFunctions
  /\ pc # "idle" => started > 0

TypeInv == TypeOK /\ Limits

LEMMA SomeMessage ==
  ASSUME NEW q \in Seq(Messages), q # <<>>
  PROVE  Head(q) \in Messages /\ Tail(q) \in Seq(Messages)
  OBVIOUS

LEMMA OneMore ==
  ASSUME NEW q \in Seq(Messages), NEW kind \in Messages
  PROVE  Append(q, kind) \in Seq(Messages) /\ <<kind>> \in Seq(Messages)
  OBVIOUS

(* A transfer, whatever it brings. *)
LEMMA Transferred ==
  ASSUME TypeInv, NEW withBuffer \in BOOLEAN,
         \/ Receive(withBuffer) /\ UNCHANGED faults
         \/ ReceiveFails /\ UNCHANGED faults
         \/ TransferFails
  PROVE  /\ initialized' \in BOOLEAN /\ config' \in {"none", "configuration", "refusal"}
         /\ command' \in {"idle", "busy", "error"} /\ queue' \in Seq(Messages)
         /\ asked' \in BOOLEAN /\ sent' = sent /\ faults' \in 0 .. MaxFaults
<1>1. /\ initialized \in BOOLEAN /\ config \in {"none", "configuration", "refusal"}
      /\ command \in {"idle", "busy", "error"} /\ queue \in Seq(Messages)
      /\ asked \in BOOLEAN /\ faults \in 0 .. MaxFaults /\ MaxFaults \in Nat
  BY BindingAssumption DEF TypeInv, TypeOK
<1>2. CASE Receive(withBuffer) /\ UNCHANGED faults
  <2>1. queue' \in Seq(Messages) /\ UNCHANGED <<asked, sent, faults>>
    BY <1>1, <1>2, SomeMessage DEF Receive
  <2>2. command' \in {"idle", "busy", "error"} /\ config' \in {"none", "configuration", "refusal"}
    BY <1>1, <1>2 DEF Receive
  <2>3. initialized' \in BOOLEAN
    BY <1>2 DEF Receive
  <2>4. QED
    BY <1>1, <2>1, <2>2, <2>3
<1>3. CASE ReceiveFails /\ UNCHANGED faults
  BY <1>1, <1>3, SomeMessage DEF ReceiveFails, instance
<1>4. CASE TransferFails
  BY <1>1, <1>4 DEF TransferFails, Fault, controller, instance
<1>5. QED
  BY <1>2, <1>3, <1>4

LEMMA InitTypes ==
  ASSUME Init
  PROVE  TypeInv
<1>1. /\ 0 \in 0 .. MaxStarts /\ 0 \in 0 .. Looks /\ 0 \in 0 .. PageNumbers - 1
      /\ 0 \in 0 .. MaxFunctions /\ 0 \in 0 .. MaxMessages /\ 0 \in 0 .. MaxFaults
      /\ 0 \in Nat /\ <<>> \in Seq(Messages)
  BY BindingAssumption
<1>2. NoF12 \in [page : 0 .. PageNumbers - 1, entry : Nat, found : BOOLEAN]
  BY <1>1 DEF NoF12
<1>3. QED
  BY <1>1, <1>2 DEF Init, TypeInv, TypeOK, Limits, Stages

LEMMA TypeStep ==
  ASSUME TypeInv, [Next]_vars
  PROVE  TypeInv'
<1> USE DEF board, handle, instance, scan, controller
<1>1. /\ driver \in Drivers /\ pdt \in Pdts /\ resetPin \in BOOLEAN
      /\ published \in BOOLEAN /\ byDriver \in BOOLEAN /\ started \in 0 .. MaxStarts
      /\ pc \in Stages /\ gInstance \in 0 .. MaxStarts /\ bus \in SUBSET (1 .. MaxStarts)
      /\ initialized \in BOOLEAN /\ config \in {"none", "configuration", "refusal"}
      /\ command \in {"idle", "busy", "error"} /\ looked \in 0 .. Looks
      /\ page \in 0 .. PageNumbers - 1 /\ function \in 0 .. MaxFunctions /\ entry \in Nat
      /\ f12 \in [page : 0 .. PageNumbers - 1, entry : Nat, found : BOOLEAN]
      /\ timer \in BOOLEAN /\ installed \in BOOLEAN /\ atOs \in BOOLEAN
      /\ queue \in Seq(Messages) /\ asked \in BOOLEAN
      /\ sent \in 0 .. MaxMessages /\ faults \in 0 .. MaxFaults
  BY DEF TypeInv, TypeOK
<1>2. Limits
  BY DEF TypeInv
<1>3. ASSUME Fault \/ UNCHANGED faults
      PROVE  faults' \in 0 .. MaxFaults
  BY <1>1, <1>3, BindingAssumption DEF Fault
<1>4. ASSUME NEW status, ExitStart(status)
      PROVE  pc' = "idle" /\ bus' \in SUBSET (1 .. MaxStarts)
  BY <1>1, <1>4 DEF ExitStart
<1>5. CASE Publish
  <2>1. published' \in BOOLEAN
    BY <1>5 DEF Publish
  <2>2. QED
    BY <1>1, <1>2, <1>5, <2>1 DEF TypeInv, TypeOK, Limits, Publish
<1>6. CASE Start
  <2>1. /\ started' \in 0 .. MaxStarts /\ started' > 0 /\ 0 < MaxFunctions /\ 0 \in Nat
        /\ 0 \in 0 .. PageNumbers - 1 /\ 0 \in 0 .. MaxFunctions
    BY <1>1, <1>6, BindingAssumption DEF Start
  <2>2. NoF12 \in [page : 0 .. PageNumbers - 1, entry : Nat, found : BOOLEAN]
    BY <2>1 DEF NoF12
  <2>3. byDriver' \in BOOLEAN /\ initialized' \in BOOLEAN
    BY <1>6 DEF Start
  <2>4. QED
    BY <1>1, <1>6, <2>1, <2>2, <2>3 DEF TypeInv, TypeOK, Limits, Start, Goto, Stages
<1>7. CASE OpenBus
  <2>1. pc = "open" /\ started \in 1 .. MaxStarts
    BY <1>1, <1>2, <1>7 DEF OpenBus, Limits
  <2>2. /\ bus' \in SUBSET (1 .. MaxStarts) /\ gInstance' \in 0 .. MaxStarts
        /\ pc' \in {"power", "idle"} /\ (Fault \/ UNCHANGED faults)
    BY <1>1, <1>7, <2>1 DEF OpenBus
  <2>3. QED
    BY <1>1, <1>2, <1>3, <1>7, <2>1, <2>2 DEF TypeInv, TypeOK, Limits, OpenBus, Stages
<1>8. CASE PowerUp
  <2>1. queue' \in Seq(Messages) /\ asked' \in BOOLEAN
    <3>1. "identify" \in Messages /\ <<>> \in Seq(Messages)
      BY DEF Messages
    <3>2. queue' \in {<<>>, <<"identify">>, queue} /\ asked' \in {FALSE, asked}
      BY <1>8 DEF PowerUp
    <3>3. <<"identify">> \in Seq(Messages)
      BY <1>1, <3>1, OneMore
    <3>4. asked' \in BOOLEAN
      BY <1>1, <3>2
    <3>5. QED
      BY <1>1, <3>1, <3>2, <3>3, <3>4
  <2>2. /\ pc' \in {"id", "scan", "idle"} /\ bus' \in SUBSET (1 .. MaxStarts) /\ faults' = faults
    BY <1>1, <1>4, <1>8 DEF PowerUp, Goto, FailStart
  <2>3. QED
    BY <1>1, <1>2, <1>8, <2>1, <2>2 DEF TypeInv, TypeOK, Limits, PowerUp, Stages
<1>9. CASE ReadId
  <2>1. /\ initialized' \in BOOLEAN /\ config' \in {"none", "configuration", "refusal"}
        /\ command' \in {"idle", "busy", "error"} /\ queue' \in Seq(Messages)
        /\ asked' \in BOOLEAN /\ sent' = sent /\ faults' \in 0 .. MaxFaults
    <3>1. \/ Receive(FALSE) /\ UNCHANGED faults
          \/ ReceiveFails /\ UNCHANGED faults
          \/ TransferFails
      BY <1>9 DEF ReadId, Goto, FailStart
    <3>2. QED
      BY <3>1, Transferred
  <2>2. pc' \in {"config_buffer", "idle"} /\ bus' \in SUBSET (1 .. MaxStarts)
    BY <1>1, <1>4, <1>9 DEF ReadId, Goto, FailStart
  <2>3. QED
    BY <1>1, <1>2, <1>9, <2>1, <2>2 DEF TypeInv, TypeOK, Limits, ReadId, Stages
<1>10. CASE AllocateConfig
  <2>1. initialized' \in BOOLEAN
    BY <1>10 DEF AllocateConfig
  <2>2. /\ pc' \in {"command", "idle"} /\ bus' \in SUBSET (1 .. MaxStarts)
        /\ Fault \/ UNCHANGED faults
    BY <1>1, <1>4, <1>10 DEF AllocateConfig, Goto
  <2>3. QED
    BY <1>1, <1>2, <1>3, <1>10, <2>1, <2>2 DEF TypeInv, TypeOK, Limits, AllocateConfig, Stages
<1>11. CASE WriteCommand
  <2>1. /\ pc' = "line" /\ bus' = bus /\ looked' = 0 /\ command' = "busy"
        /\ Fault \/ UNCHANGED faults
    BY <1>11 DEF WriteCommand, Goto
  <2>2. asked' \in BOOLEAN
    BY <1>1, <1>11 DEF WriteCommand
  <2>3. 0 < Looks /\ 0 \in 0 .. Looks
    BY BindingAssumption
  <2>4. QED
    BY <1>1, <1>2, <1>3, <1>11, <2>1, <2>2, <2>3 DEF TypeInv, TypeOK, Limits, WriteCommand, Stages
<1>12. CASE LookAtLine
  <2>1. looked' = looked + 1 /\ looked < Looks /\ looked + 1 \in 0 .. Looks
    BY <1>1, <1>2, <1>12, BindingAssumption DEF LookAtLine, Limits
  <2>2. /\ pc' \in {"response", "line", "idle"} /\ bus' \in SUBSET (1 .. MaxStarts)
        /\ faults' = faults /\ (pc' = "line" => looked' < Looks)
    BY <1>1, <1>4, <1>12, <2>1 DEF LookAtLine, Goto, FailStart
  <2>3. QED
    BY <1>1, <1>2, <1>12, <2>1, <2>2 DEF TypeInv, TypeOK, Limits, LookAtLine, Stages
<1>13. CASE ReadResponse
  <2>1. /\ initialized' \in BOOLEAN /\ config' \in {"none", "configuration", "refusal"}
        /\ command' \in {"idle", "busy", "error"} /\ queue' \in Seq(Messages)
        /\ asked' \in BOOLEAN /\ sent' = sent /\ faults' \in 0 .. MaxFaults
    <3>1. \/ Receive(TRUE) /\ UNCHANGED faults
          \/ ReceiveFails /\ UNCHANGED faults
          \/ TransferFails
      BY <1>13 DEF ReadResponse, Goto, FailStart
    <3>2. QED
      BY <3>1, Transferred
  <2>2. pc' \in {"events", "idle"} /\ bus' \in SUBSET (1 .. MaxStarts)
    BY <1>1, <1>4, <1>13 DEF ReadResponse, Goto, FailStart
  <2>3. QED
    BY <1>1, <1>2, <1>13, <2>1, <2>2 DEF TypeInv, TypeOK, Limits, ReadResponse, Stages
<1>14. CASE Scan
  <2>1. pc = "scan" /\ function < MaxFunctions /\ started > 0
    BY <1>2, <1>14 DEF Scan, Limits
  <2>2. /\ pc' \in {"events", "scan", "idle"} /\ bus' \in SUBSET (1 .. MaxStarts)
        /\ Fault \/ UNCHANGED faults
    BY <1>1, <1>4, <1>14 DEF Scan, ScanFinds, ScanGoesOut, ScanTurnsPage, ScanGoesOn, ScanReadFails,
                             Goto, FailStart
  <2>3. initialized' \in BOOLEAN
    BY <1>1, <1>14 DEF Scan, ScanFinds, ScanGoesOut, ScanTurnsPage, ScanGoesOn, ScanReadFails
  <2>4. function' \in 0 .. MaxFunctions /\ (pc' = "scan" => function' < MaxFunctions)
    <3>1. CASE ScanGoesOn
      BY <1>1, <2>1, <3>1, <1>4, BindingAssumption DEF ScanGoesOn, Goto, FailStart
    <3>2. CASE ~ScanGoesOn
      BY <1>1, <1>14, <2>1, <3>2 DEF Scan, ScanFinds, ScanGoesOut, ScanTurnsPage, ScanReadFails
    <3>3. QED
      BY <3>1, <3>2
  <2>5. page' \in 0 .. PageNumbers - 1 /\ entry' \in Nat
    <3>1. (page + 1) % PageNumbers \in 0 .. PageNumbers - 1
      BY <1>1, BindingAssumption
    <3>2. page' \in {page, (page + 1) % PageNumbers} /\ entry' \in {entry, entry + 1, 0}
      BY <1>14 DEF Scan, ScanFinds, ScanGoesOut, ScanTurnsPage, ScanGoesOn, ScanReadFails
    <3>3. entry + 1 \in Nat /\ 0 \in Nat
      BY <1>1
    <3>4. QED
      BY <1>1, <3>1, <3>2, <3>3
  <2>6. f12' \in [page : 0 .. PageNumbers - 1, entry : Nat, found : BOOLEAN]
    <3>1. f12' = f12 \/ f12' = [page |-> page, entry |-> entry, found |-> TRUE]
      BY <1>14 DEF Scan, ScanFinds, ScanGoesOut, ScanTurnsPage, ScanGoesOn, ScanReadFails
    <3>2. [page |-> page, entry |-> entry, found |-> TRUE]
            \in [page : 0 .. PageNumbers - 1, entry : Nat, found : BOOLEAN]
      BY <1>1
    <3>3. QED
      BY <1>1, <3>1, <3>2
  <2>7. QED
    BY <1>1, <1>3, <1>14, <2>1, <2>2, <2>3, <2>4, <2>5, <2>6 DEF TypeInv, TypeOK, Limits, Scan,
       Stages
<1>15. CASE StartPolling
  <2>1. timer' \in BOOLEAN
    BY <1>15 DEF StartPolling
  <2>2. QED
    BY <1>1, <1>2, <1>15, <2>1 DEF TypeInv, TypeOK, Limits, StartPolling, Goto, Stages
<1>16. CASE Install
  <2>1. installed' \in BOOLEAN
    BY <1>1, <1>16 DEF Install
  <2>2. pc' = "idle" /\ bus' \in SUBSET (1 .. MaxStarts) /\ (Fault \/ UNCHANGED faults)
    BY <1>1, <1>4, <1>16 DEF Install, Goto
  <2>3. QED
    BY <1>1, <1>3, <1>16, <2>1, <2>2 DEF TypeInv, TypeOK, Limits, Install, Stages
<1>17. ASSUME NEW kind \in Messages, Sends(kind) \/ Answers(kind)
       PROVE  TypeInv'
  <2>1. queue' \in Seq(Messages) /\ sent' \in 0 .. MaxMessages /\ asked' \in BOOLEAN
    <3>1. queue' = Append(queue, kind) /\ asked' \in {asked, FALSE}
      BY <1>17 DEF Sends, Answers
    <3>2. sent' = sent \/ (sent < MaxMessages /\ sent' = sent + 1)
      BY <1>17 DEF Sends, Answers
    <3>3. sent' \in 0 .. MaxMessages
      BY <1>1, <3>2, BindingAssumption
    <3>4. asked' \in BOOLEAN
      BY <1>1, <3>1
    <3>5. QED
      BY <1>1, <1>17, <3>1, <3>3, <3>4, OneMore
  <2>2. UNCHANGED <<board, handle, pc, gInstance, bus, instance, looked, scan, timer, installed,
                    atOs, faults>>
    BY <1>17 DEF Sends, Answers
  <2>3. QED
    BY <1>1, <1>2, <2>1, <2>2 DEF TypeInv, TypeOK, Limits
<1>18. CASE Poll
  <2>1. /\ initialized' \in BOOLEAN /\ config' \in {"none", "configuration", "refusal"}
        /\ command' \in {"idle", "busy", "error"} /\ queue' \in Seq(Messages)
        /\ asked' \in BOOLEAN /\ sent' = sent /\ faults' \in 0 .. MaxFaults
    BY <1>18, Transferred DEF Poll
  <2>2. QED
    BY <1>1, <1>2, <1>18, <2>1 DEF TypeInv, TypeOK, Limits, Poll
<1>19. CASE Stop \/ ExitBootServices
  <2>1. timer' \in BOOLEAN /\ installed' \in BOOLEAN /\ atOs' \in BOOLEAN
    BY <1>1, <1>19 DEF Stop, ExitBootServices
  <2>2. bus' \in SUBSET (1 .. MaxStarts)
    BY <1>1, <1>19 DEF Stop, ExitBootServices
  <2>3. QED
    BY <1>1, <1>2, <1>19, <2>1, <2>2 DEF TypeInv, TypeOK, Limits, Stop, ExitBootServices
<1>20. CASE UNCHANGED vars
  BY <1>1, <1>2, <1>20 DEF TypeInv, TypeOK, Limits, vars
<1>21. {"identify", "touch", "bad", "configuration", "refusal"} \subseteq Messages
  BY DEF Messages
<1>22. QED
  BY <1>5, <1>6, <1>7, <1>8, <1>9, <1>10, <1>11, <1>12, <1>13, <1>14, <1>15, <1>16, <1>17, <1>18,
     <1>19, <1>20, <1>21 DEF Next, StartStep

(* Every variable keeps its type: for every controller the wait for the      *)
(* response looks at the line no more often than it may, and the search for  *)
(* F12 stays below TOUCH_RMI_MAX_FUNCTIONS over all pages together           *)
(* (TcmGetReportConfig, SynaInitialize).                                     *)
THEOREM BindingTypeCorrect == Spec => []TypeOK
<1>1. TypeInv => TypeOK
  BY DEF TypeInv
<1>2. QED
  BY <1>1, InitTypes, TypeStep, PTL DEF Spec

=============================================================================

-------------------------- MODULE TouchPollProofs --------------------------
(***************************************************************************)
(* SynapticsTCMDxe has no lock: its polls and its clients share an         *)
(* instance, and what keeps them from disturbing each other is the TPLs.   *)
(* The theorems hold whatever the panel sends and however many transfers   *)
(* fail; all but TypeCorrect assume that no client is above TPL_CALLBACK.  *)
(*                                                                         *)
(* CriticalSection is not inductive.  Apart says what keeps the polls      *)
(* apart: while the timer's poll is active, the other one is not, and is   *)
(* not queued either, because only the client queues it and the client     *)
(* cannot interrupt the timer.                                             *)
(*                                                                         *)
(* What AbsPGetState hands out depends on more: on what a poll has stored  *)
(* so far (Stages), on what the client has read so far (Taken), on the     *)
(* queue being in the order of the touches (Ordered), and on every touch   *)
(* held anywhere being older than those still queued (AllSeen).            *)
(*                                                                         *)
(* With clients at TPL_CALLBACK only, nothing can come between the reads   *)
(* of a call, and the same invariants make every step one of               *)
(* AbsolutePointer or one a client cannot tell (PointerImplemented).       *)
(***************************************************************************)
EXTENDS TouchPoll, TLAPS

Apart == Active("timer") => ~Active("wait") /\ ~waitQueued

Inv == pc \in [Contexts -> Labels] /\ Apart

-----------------------------------------------------------------------------
(* The clients' TPLs are not above the timer's. *)
LEMMA Levels ==
  ASSUME TPL_NOTIFY \notin ClientTpls, NEW t \in ClientTpls
  PROVE  t \in {4, 8}
  BY TouchAssumption DEF TPL_APPLICATION, TPL_CALLBACK, TPL_NOTIFY

(* A step that moves one running context, or none, and neither begins a poll *)
(* nor queues one.                                                           *)
LEMMA OnlyRunning ==
  ASSUME Inv, NEW c \in Contexts, Active(c), NEW label \in Labels,
         Goto(c, label), waitQueued' = waitQueued
  PROVE  Inv'
  BY DEF Inv, Apart, Active, Goto, Contexts

(* The client starts nothing the polls depend on. *)
LEMMA ClientBegins ==
  ASSUME Inv, NEW label \in Labels,
         Goto("client", label), waitQueued' = waitQueued
  PROVE  Inv'
  BY DEF Inv, Apart, Active, Goto, Contexts

(* Nothing happens to the contexts. *)
LEMMA NothingMoves ==
  ASSUME Inv, UNCHANGED <<pc, waitQueued>>
  PROVE  Inv'
  BY DEF Inv, Apart, Active

(* Initially no poll is active. *)
LEMMA InitInv ==
  ASSUME Init
  PROVE  Inv
  BY DEF Init, Inv, Apart, Active, Contexts, Labels, PollLabels

(* The steps of a poll. *)
LEMMA PollKeeps ==
  ASSUME Inv, NEW c \in Polls, Poll(c) \/ TransferFails(c)
  PROVE  Inv'
<1> USE DEF events, At, Runs
<1>1. c \in Contexts
  BY DEF Polls, Contexts
<1>2. ASSUME NEW label \in Labels, Active(c), Goto(c, label), waitQueued' = waitQueued
      PROVE  Inv'
  BY <1>1, <1>2, OnlyRunning
<1>3. {"idle", "signal", "header", "payload", "store_x", "store_y", "announce", "turn_x",
       "turn_y"} \subseteq Labels
  BY DEF Labels, PollLabels
<1>4. ASSUME Active(c), Return(c), waitQueued' = waitQueued
      PROVE  Inv'
  BY <1>2, <1>3, <1>4 DEF Return
<1>5. CASE CheckLine(c)
  BY <1>2, <1>3, <1>4, <1>5 DEF CheckLine
<1>6. CASE ReadHeader(c)
  BY <1>2, <1>3, <1>4, <1>6 DEF ReadHeader
<1>7. CASE PayloadOutOfSync(c)
  BY <1>4, <1>7 DEF PayloadOutOfSync
<1>8. CASE TouchReport(c)
  BY <1>2, <1>3, <1>8 DEF TouchReport, Payload
<1>9. CASE NoTouch(c)
  BY <1>4, <1>9 DEF NoTouch, Payload
<1>10. CASE OtherReport(c)
  BY <1>2, <1>3, <1>4, <1>10 DEF OtherReport, StackContents, Payload
<1>11. CASE IdentifyReport(c)
  BY <1>2, <1>3, <1>4, <1>11 DEF IdentifyReport, StackContents, Payload
<1>12. CASE StoreX(c)
  BY <1>2, <1>3, <1>12 DEF StoreX
<1>13. CASE StoreY(c)
  BY <1>2, <1>3, <1>13 DEF StoreY
<1>14. CASE Announce(c)
  BY <1>2, <1>3, <1>14 DEF Announce
<1>15. CASE TurnX(c)
  BY <1>2, <1>3, <1>15 DEF TurnX
<1>16. CASE TurnY(c)
  BY <1>4, <1>16 DEF TurnY
<1>17. CASE TransferFails(c)
  BY <1>4, <1>17 DEF TransferFails
<1> QED
  BY <1>5, <1>6, <1>7, <1>8, <1>9, <1>10, <1>11, <1>12, <1>13, <1>14, <1>15, <1>16, <1>17
  DEF Poll

(* The client's own steps. *)
LEMMA ClientKeeps ==
  ASSUME Inv, ClientStep \/ GetState \/ Reset
  PROVE  Inv'
<1> USE DEF events
<1>1. {"idle", "get_x", "get_y", "hand", "reset_x", "reset_y", "reset_changed"} \subseteq Labels
  BY DEF Labels, ClientLabels
<1>2. PICK label \in Labels : Goto("client", label) /\ waitQueued' = waitQueued
  BY <1>1 DEF ClientStep, GetX, GetY, HandOut, ResetX, ResetY, ResetChanged, GetState, Reset,
                Call
<1> QED
  BY <1>2, ClientBegins

(* Every step keeps the invariant. *)
LEMMA StepInv ==
  ASSUME TPL_NOTIFY \notin ClientTpls, Inv, [Next]_vars
  PROVE  Inv'
<1>1. CASE PanelResets \/ \E kind \in Kinds : Send(kind)
  BY <1>1, NothingMoves DEF PanelResets, Send, events
<1>2. CASE BeginTimer
  <2>1. "timer" \in Contexts /\ "wait" \in Contexts /\ "line" \in Labels
    BY DEF Contexts, Labels, PollLabels
  <2>2. ~Active("wait") /\ ~waitQueued
    BY <1>2, <2>1 DEF BeginTimer, MayPoll, Below, Tpl, TPL_NOTIFY, TPL_CALLBACK
  <2> QED
    BY <1>2, <2>1, <2>2 DEF BeginTimer, Goto, Inv, Apart, Active, events
<1>3. CASE BeginWait
  <2>1. "wait" \in Contexts /\ "line" \in Labels
    BY DEF Contexts, Labels, PollLabels
  <2>2. ~Active("timer")
    BY <1>3 DEF BeginWait, Inv, Apart
  <2> QED
    BY <1>3, <2>1, <2>2 DEF BeginWait, Goto, Inv, Apart, Active
<1>4. CASE \E c \in Polls : Poll(c) \/ TransferFails(c)
  BY <1>4, PollKeeps
<1>5. CASE Signal
  <2>1. "wait" \in Contexts /\ "idle" \in Labels
    BY DEF Contexts, Labels, PollLabels
  <2> QED
    BY <1>5, <2>1, OnlyRunning DEF Signal, At, Runs
<1>6. CASE CheckEvent
  <2>1. ~Active("timer")
    <3>1. PICK t \in ClientTpls : Below(t)
      BY <1>6 DEF CheckEvent, MayCall
    <3> QED
      BY <3>1, Levels DEF Below, Contexts, Tpl, TPL_CALLBACK
  <2> QED
    BY <1>6, <2>1 DEF CheckEvent, Inv, Apart, Active
<1>7. CASE ClientStep \/ GetState \/ Reset
  BY <1>7, ClientKeeps
<1>8. CASE UNCHANGED vars
  BY <1>8, NothingMoves DEF vars, events
<1> QED
  BY <1>1, <1>2, <1>3, <1>4, <1>5, <1>6, <1>7, <1>8 DEF Next

(* With the polls apart they are not both in the section. *)
LEMMA InvSection ==
  ASSUME Inv
  PROVE  CriticalSection
  BY DEF Inv, Apart, Active, CriticalSection, InSection

(* "Enter critical section": for clients up to TPL_CALLBACK the transfers and  *)
(* updates of AbsPWaitForInput's poll and of the timer's never overlap.        *)
THEOREM PollsExclude == TPL_NOTIFY \notin ClientTpls => (Spec => []CriticalSection)
<1>1. SUFFICES ASSUME TPL_NOTIFY \notin ClientTpls
              PROVE  Spec => []CriticalSection
  OBVIOUS
<1>2. Init => Inv
  BY InitInv
<1>3. Inv /\ [Next]_vars => Inv'
  BY <1>1, StepInv
<1>4. Inv => CriticalSection
  BY InvSection
<1> QED
  BY <1>2, <1>3, <1>4, PTL DEF Spec

-----------------------------------------------------------------------------
(* Types *)

Messages == [kind : Kinds, id : 1 .. MaxMessages]

PcOK ==
  /\ pc \in [Contexts -> Labels]
  /\ pc["client"] \in ClientLabels /\ pc["timer"] \in PollLabels
  /\ pc["wait"] \in PollLabels \union {"signal"}

(* The panel is in a message only if it has one. *)
TypeInv ==
  /\ queue \in Seq(Messages) /\ reading \in BOOLEAN /\ (reading => queue # <<>>)
  /\ sent \in 0 .. MaxMessages
  /\ initialized \in BOOLEAN /\ changed \in BOOLEAN
  /\ lastX \in Axis /\ lastY \in Axis /\ gotX \in Axis /\ gotY \in Axis
  /\ PcOK /\ touch \in [Polls -> 0 .. MaxMessages]
  /\ clientTpl \in ClientTpls /\ handed \in [x : Axis, y : Axis]
  /\ waitQueued \in BOOLEAN /\ signalled \in BOOLEAN /\ faults \in 0 .. MaxFaults

LEMMA TailOfQueue ==
  ASSUME NEW S, NEW q \in Seq(S), q # <<>>
  PROVE  /\ Len(q) \in Nat \ {0} /\ Head(q) \in S /\ Head(q) = q[1]
         /\ Tail(q) \in Seq(S) /\ Len(Tail(q)) = Len(q) - 1
         /\ \A k \in 1 .. Len(Tail(q)) : Tail(q)[k] = q[k + 1]
  OBVIOUS

LEMMA AppendToQueue ==
  ASSUME NEW S, NEW q \in Seq(S), NEW e \in S
  PROVE  /\ Append(q, e) \in Seq(S) /\ Append(q, e) # <<>>
         /\ Len(q) \in Nat /\ Len(Append(q, e)) = Len(q) + 1
         /\ \A k \in 1 .. Len(q) : Append(q, e)[k] = q[k]
         /\ Append(q, e)[Len(q) + 1] = e
  OBVIOUS

LEMMA OneMessage ==
  ASSUME NEW S, NEW e \in S
  PROVE  <<e>> \in Seq(S) /\ <<e>> # <<>> /\ Len(<<e>>) = 1 /\ <<e>>[1] = e
  OBVIOUS

LEMMA PollGoto ==
  ASSUME PcOK, NEW c \in Polls, NEW label \in PollLabels, Goto(c, label) \/ Return(c)
  PROVE  PcOK'
<1>1. c \in {"timer", "wait"} /\ c \in Contexts
  BY DEF Polls, Contexts
<1>2. PICK l \in PollLabels \union {"signal"} :
        Goto(c, l) /\ (c = "timer" => l \in PollLabels)
  BY <1>1 DEF Return, PollLabels
<1>3. QED
  BY <1>1, <1>2 DEF PcOK, Goto, Labels, Contexts

LEMMA ClientGoto ==
  ASSUME PcOK, NEW label \in ClientLabels, Goto("client", label)
  PROVE  PcOK'
  BY DEF PcOK, Goto, Labels, Contexts

LEMMA InitTypes == Init => TypeInv
<1> SUFFICES ASSUME Init PROVE TypeInv
  OBVIOUS
<1>1. NoPosition \in Axis /\ <<>> \in Seq(Messages) /\ 0 \in 0 .. MaxMessages /\ 0 \in 0 .. MaxFaults
  BY TouchAssumption DEF NoPosition, Axis
<1>2. PcOK
  BY DEF Init, PcOK, Contexts, Labels, PollLabels, ClientLabels
<1>3. QED
  BY <1>1, <1>2 DEF TypeInv, Init

LEMMA MessageEndsType ==
  ASSUME TypeInv, MessageEnds
  PROVE  queue' \in Seq(Messages) /\ reading' = FALSE /\ sent' = sent
<1>1. queue \in Seq(Messages)
  BY DEF TypeInv
<1>2. QED
  BY <1>1, TailOfQueue DEF MessageEnds

(* The steps of a poll. *)
LEMMA PollTypes ==
  ASSUME TypeInv, NEW c \in Polls, Poll(c) \/ TransferFails(c)
  PROVE  TypeInv'
<1> USE DEF panel, instance, client, events
<1>1. /\ queue \in Seq(Messages) /\ reading \in BOOLEAN /\ (reading => queue # <<>>)
      /\ sent \in 0 .. MaxMessages
      /\ initialized \in BOOLEAN /\ changed \in BOOLEAN
      /\ lastX \in Axis /\ lastY \in Axis /\ gotX \in Axis /\ gotY \in Axis
      /\ PcOK /\ touch \in [Polls -> 0 .. MaxMessages]
      /\ clientTpl \in ClientTpls /\ handed \in [x : Axis, y : Axis]
      /\ waitQueued \in BOOLEAN /\ signalled \in BOOLEAN /\ faults \in 0 .. MaxFaults
  BY DEF TypeInv
<1>2. {"header", "payload", "store_x", "store_y", "announce", "turn_x", "turn_y"} \subseteq PollLabels
  BY DEF PollLabels
<1>3. ASSUME Return(c)
      PROVE  PcOK'
  BY <1>1, <1>2, <1>3, PollGoto
<1>4. ASSUME NEW label \in {"header", "payload", "store_x", "store_y", "announce", "turn_x", "turn_y"},
             Goto(c, label)
      PROVE  PcOK'
  BY <1>1, <1>2, <1>4, PollGoto
<1>5. touch[c] \in 0 .. MaxMessages
  BY <1>1
<1>6. \A n \in 0 .. MaxMessages : /\ [touch EXCEPT ![c] = n] \in [Polls -> 0 .. MaxMessages]
                                  /\ [touch |-> n, turned |-> FALSE] \in Axis
  BY <1>1 DEF Axis
<1>7. 0 \in 0 .. MaxMessages
  BY TouchAssumption
<1>8. CASE CheckLine(c) \/ PayloadOutOfSync(c)
  <2>1. PcOK'
    BY <1>3, <1>4, <1>8 DEF CheckLine, PayloadOutOfSync
  <2>2. QED
    <3>1. UNCHANGED <<queue, sent, instance, touch, client, events, faults>>
      BY <1>8 DEF CheckLine, PayloadOutOfSync
    <3>2. reading' \in BOOLEAN /\ (reading' => queue # <<>>)
      <4>1. CASE CheckLine(c)
        BY <1>1, <4>1 DEF CheckLine
      <4>2. CASE PayloadOutOfSync(c)
        <5>1. reading' = (queue # <<>>)
          BY <4>2 DEF PayloadOutOfSync
        <5>2. QED
          BY <5>1, Zenon
      <4>3. QED
        BY <1>8, <4>1, <4>2
    <3>3. QED
      BY <1>1, <2>1, <3>1, <3>2 DEF TypeInv
<1>9. CASE ReadHeader(c)
  <2>1. PcOK'
    BY <1>3, <1>4, <1>9 DEF ReadHeader
  <2>2. queue' \in Seq(Messages) /\ reading' \in BOOLEAN /\ (reading' => queue' # <<>>) /\ sent' = sent
    BY <1>1, <1>9, MessageEndsType DEF ReadHeader
  <2>3. QED
    <3>1. UNCHANGED <<instance, touch, client, events, faults>>
      BY <1>9 DEF ReadHeader
    <3>2. QED
      BY <1>1, <2>1, <2>2, <3>1 DEF TypeInv
<1>10. CASE TouchReport(c) \/ NoTouch(c) \/ OtherReport(c) \/ IdentifyReport(c)
  <2>1. MessageEnds /\ reading
    BY <1>10 DEF TouchReport, NoTouch, OtherReport, IdentifyReport, Payload
  <2>2. queue' \in Seq(Messages) /\ reading' = FALSE /\ sent' = sent
    BY <2>1, MessageEndsType
  <2>3. Head(queue).id \in 0 .. MaxMessages
    <3>1. Head(queue) \in Messages
      BY <1>1, <2>1, TailOfQueue
    <3>2. QED
      BY <3>1, TouchAssumption DEF Messages
  <2>4. PcOK'
    BY <1>3, <1>4, <1>10 DEF TouchReport, NoTouch, OtherReport, IdentifyReport, StackContents
  <2>5. touch' \in [Polls -> 0 .. MaxMessages]
    BY <1>1, <1>6, <1>7, <1>10, <2>3
       DEF TouchReport, NoTouch, OtherReport, IdentifyReport, StackContents
  <2>6. QED
    BY <1>1, <1>10, <2>2, <2>4, <2>5 DEF TypeInv, TouchReport, NoTouch, OtherReport, IdentifyReport
<1>11. CASE StoreX(c) \/ StoreY(c) \/ Announce(c)
  <2>1. PcOK'
    BY <1>4, <1>11 DEF StoreX, StoreY, Announce
  <2>2. lastX' \in Axis /\ lastY' \in Axis /\ changed' \in BOOLEAN
    BY <1>1, <1>5, <1>6, <1>11 DEF StoreX, StoreY, Announce
  <2>3. QED
    BY <1>1, <1>11, <2>1, <2>2 DEF TypeInv, StoreX, StoreY, Announce
<1>12. CASE TurnX(c) \/ TurnY(c)
  <2>1. PcOK'
    BY <1>3, <1>4, <1>12 DEF TurnX, TurnY
  <2>2. lastX' \in Axis /\ lastY' \in Axis
    BY <1>1, <1>12, TouchAssumption DEF TurnX, TurnY, Axis
  <2>3. QED
    BY <1>1, <1>12, <2>1, <2>2 DEF TypeInv, TurnX, TurnY
<1>13. CASE TransferFails(c)
  <2>1. PcOK'
    BY <1>3, <1>13 DEF TransferFails
  <2>2. faults' \in 0 .. MaxFaults
    BY <1>1, <1>13, TouchAssumption DEF TransferFails
  <2>3. QED
    BY <1>1, <1>13, <2>1, <2>2 DEF TypeInv, TransferFails
<1>14. QED
  BY <1>8, <1>9, <1>10, <1>11, <1>12, <1>13 DEF Poll

(* The panel, the dispatcher and the client. *)
LEMMA OtherTypes ==
  ASSUME TypeInv,
         \/ \E kind \in Kinds : Send(kind)
         \/ PanelResets \/ BeginTimer \/ BeginWait \/ Signal
         \/ CheckEvent \/ GetState \/ Reset \/ ClientStep
  PROVE  TypeInv'
<1> USE DEF panel, instance, client, events
<1>1. /\ queue \in Seq(Messages) /\ reading \in BOOLEAN /\ (reading => queue # <<>>)
      /\ sent \in 0 .. MaxMessages
      /\ initialized \in BOOLEAN /\ changed \in BOOLEAN
      /\ lastX \in Axis /\ lastY \in Axis /\ gotX \in Axis /\ gotY \in Axis
      /\ PcOK /\ touch \in [Polls -> 0 .. MaxMessages]
      /\ clientTpl \in ClientTpls /\ handed \in [x : Axis, y : Axis]
      /\ waitQueued \in BOOLEAN /\ signalled \in BOOLEAN /\ faults \in 0 .. MaxFaults
  BY DEF TypeInv
<1>2. ASSUME NEW kind \in Kinds, sent < MaxMessages
      PROVE  Message(kind) \in Messages /\ sent + 1 \in 0 .. MaxMessages
  BY <1>1, <1>2, TouchAssumption DEF Message, Messages
<1>3. ASSUME NEW kind \in Kinds, Send(kind)
      PROVE  TypeInv'
  <2>1. /\ queue' \in Seq(Messages) /\ queue' # <<>> /\ sent' \in 0 .. MaxMessages
    BY <1>1, <1>2, <1>3, AppendToQueue DEF Send
  <2>2. PcOK'
    BY <1>1, <1>3 DEF Send, PcOK
  <2>3. QED
    BY <1>1, <1>3, <2>1, <2>2 DEF TypeInv, Send
<1>4. CASE PanelResets
  <2>1. /\ queue' \in Seq(Messages) /\ queue' # <<>> /\ sent' \in 0 .. MaxMessages
    BY <1>1, <1>2, <1>4, OneMessage DEF PanelResets
  <2>2. PcOK'
    BY <1>1, <1>4 DEF PanelResets, PcOK
  <2>3. QED
    BY <1>1, <1>4, <2>1, <2>2 DEF TypeInv, PanelResets
<1>5. CASE BeginTimer \/ BeginWait \/ Signal
  <2>1. "line" \in PollLabels /\ "idle" \in PollLabels /\ "timer" \in Polls /\ "wait" \in Polls
    BY DEF PollLabels, Polls
  <2>2. PcOK'
    BY <1>1, <1>5, <2>1, PollGoto DEF BeginTimer, BeginWait, Signal
  <2>3. QED
    <3>1. /\ UNCHANGED <<panel, instance, touch, client, faults>>
          /\ waitQueued' \in BOOLEAN /\ signalled' \in BOOLEAN
      BY <1>1, <1>5 DEF BeginTimer, BeginWait, Signal
    <3>2. QED
      BY <1>1, <2>2, <3>1 DEF TypeInv
<1>6. CASE CheckEvent
  <2>1. PcOK'
    BY <1>1, <1>6 DEF CheckEvent, PcOK
  <2>2. QED
    BY <1>1, <1>6, <2>1 DEF TypeInv, CheckEvent
<1>7. CASE GetState \/ Reset
  <2>1. PcOK' /\ clientTpl' \in ClientTpls
    BY <1>1, <1>7, ClientGoto DEF GetState, Reset, Call, ClientLabels
  <2>2. QED
    BY <1>1, <1>7, <2>1 DEF TypeInv, GetState, Reset
<1>8. CASE ClientStep
  <2>1. PcOK'
    BY <1>1, <1>8, ClientGoto
       DEF ClientStep, GetX, GetY, HandOut, ResetX, ResetY, ResetChanged, ClientLabels
  <2>2. NoPosition \in Axis
    BY TouchAssumption DEF NoPosition, Axis
  <2>3. /\ lastX' \in Axis /\ lastY' \in Axis /\ gotX' \in Axis /\ gotY' \in Axis
        /\ handed' \in [x : Axis, y : Axis] /\ changed' \in BOOLEAN
    <3>1. CASE HandOut
      <4>1. [x |-> gotX, y |-> gotY] \in [x : Axis, y : Axis]
        BY <1>1
      <4>2. QED
        BY <1>1, <3>1, <4>1 DEF HandOut
    <3>2. CASE GetX \/ GetY \/ ResetX \/ ResetY \/ ResetChanged
      BY <1>1, <2>2, <3>2 DEF GetX, GetY, ResetX, ResetY, ResetChanged
    <3>3. QED
      BY <1>8, <3>1, <3>2 DEF ClientStep
  <2>4. QED
    BY <1>1, <1>8, <2>1, <2>3 DEF TypeInv, ClientStep, GetX, GetY, HandOut, ResetX, ResetY,
       ResetChanged
<1>9. QED
  BY <1>3, <1>4, <1>5, <1>6, <1>7, <1>8

LEMMA TypeInvariance == Spec => []TypeInv
<1>1. Init => TypeInv
  BY InitTypes
<1>2. TypeInv /\ [Next]_vars => TypeInv'
  <2> SUFFICES ASSUME TypeInv, [Next]_vars PROVE TypeInv'
    OBVIOUS
  <2>1. CASE UNCHANGED vars
    BY <2>1 DEF vars, panel, instance, client, events, TypeInv, PcOK
  <2>2. QED
    BY <2>1, PollTypes, OtherTypes DEF Next
<1>3. QED
  BY <1>1, <1>2, PTL DEF Spec

(* Every variable of the touch driver keeps its type, whatever TPLs clients  *)
(* have: a payload is only read from a message that is there.                *)
THEOREM TypeCorrect == Spec => []TypeOK
<1>1. TypeInv => TypeOK
  BY DEF TypeInv, TypeOK, PcOK, Messages
<1>2. QED
  BY <1>1, TypeInvariance, PTL

-----------------------------------------------------------------------------
(* What a client gets *)

(* AbsPReset has taken a part of the position away. *)
Resetting == pc["client"] \in {"reset_y", "reset_changed"}

NoPoll == ~Active("timer") /\ ~Active("wait")

(* Nothing is queued while a client is in the driver; a client at            *)
(* TPL_CALLBACK has the driver for itself.                                   *)
Alone ==
  /\ Active("client") => ~waitQueued
  /\ Active("client") /\ clientTpl = TPL_CALLBACK => NoPoll

(* A message this old has been read or forgotten, if it was ever sent. *)
Seen(n) == n <= sent /\ \A k \in 1 .. Len(queue) : n < queue[k].id

(* The panel's messages come in their order. *)
Ordered ==
  /\ \A k \in 1 .. Len(queue) : queue[k].id <= sent
  /\ \A j, k \in 1 .. Len(queue) : j < k => queue[j].id < queue[k].id

(* The touches the driver and its client hold. *)
Touches ==
  {lastX.touch, lastY.touch, gotX.touch, gotY.touch, handed.y.touch} \union {touch[c] : c \in Polls}

AllSeen == \A n \in Touches : Seen(n)

(* A touch the client has not had. *)
IsNew(n) == n = 0 \/ handed.y.touch < n

(* n is not older than m. *)
NotBefore(n, m) == n = 0 \/ m <= n

(* An announced position, when no poll is about to change it, is one touch,  *)
(* the right way round.                                                      *)
Position ==
  (changed /\ ~Resetting /\ \A c \in Polls : pc[c] \notin Storing \ {"store_x"}) =>
    /\ lastX.touch = lastY.touch
    /\ lastX.touch # 0 => lastX.turned = XInverted /\ lastY.turned = YInverted
    /\ IsNew(lastX.touch)

(* ... and while a poll changes it. *)
Stage(c) ==
  /\ pc[c] \in Storing => IsNew(touch[c]) /\ NotBefore(touch[c], gotX.touch)
  /\ pc[c] \in {"store_y", "announce", "turn_x"} => lastX = [touch |-> touch[c], turned |-> FALSE]
  /\ pc[c] \in {"announce", "turn_x", "turn_y"} => lastY = [touch |-> touch[c], turned |-> FALSE]
  /\ pc[c] = "turn_y" => lastX = [touch |-> touch[c], turned |-> XInverted]
  /\ pc[c] \in {"turn_x", "turn_y"} => changed

Stages == \A c \in Polls : Stage(c)

(* What AbsPGetState has of it. *)
Taken ==
  /\ pc["client"] \in {"get_x", "get_y", "hand"} => changed
  /\ pc["client"] = "get_y" => IsNew(gotX.touch) /\ NotBefore(lastY.touch, gotX.touch)
  /\ pc["client"] = "hand" => IsNew(gotX.touch) /\ NotBefore(gotY.touch, gotX.touch)
  /\ clientTpl = TPL_CALLBACK /\ pc["client"] \in {"get_y", "hand"} => gotX = lastX
  /\ clientTpl = TPL_CALLBACK /\ pc["client"] = "hand" => gotY = lastY

PositionInv == Alone /\ Ordered /\ AllSeen /\ Position /\ Stages /\ Taken

-----------------------------------------------------------------------------
(* Who runs *)

LEMMA ClientRuns ==
  ASSUME TPL_NOTIFY \notin ClientTpls, TypeInv, Runs("client")
  PROVE  NoPoll /\ ~waitQueued
<1>1. clientTpl \in {4, 8}
  BY Levels DEF TypeInv
<1>2. "timer" \in Contexts \ {"client"} /\ "wait" \in Contexts \ {"client"}
  BY DEF Contexts
<1>3. QED
  BY <1>1, <1>2 DEF Runs, Tpl, NoPoll, TPL_CALLBACK, TPL_NOTIFY

LEMMA ClientCalls ==
  ASSUME TPL_NOTIFY \notin ClientTpls, NEW t \in ClientTpls, MayCall(t)
  PROVE  NoPoll /\ ~waitQueued /\ ~Active("client")
<1>1. t \in {4, 8}
  BY Levels
<1>2. "timer" \in Contexts /\ "wait" \in Contexts
  BY DEF Contexts
<1>3. QED
  BY <1>1, <1>2 DEF MayCall, Below, Tpl, NoPoll, TPL_CALLBACK, TPL_NOTIFY

(* While one poll is active, the other is idle, and no client at TPL_CALLBACK *)
(* is in the driver.                                                          *)
LEMMA PollRuns ==
  ASSUME TypeInv, Apart, Alone, NEW c \in Polls, Active(c)
  PROVE  /\ \A d \in Polls \ {c} : pc[d] = "idle"
         /\ clientTpl = TPL_CALLBACK => pc["client"] = "idle"
  BY DEF Apart, Alone, NoPoll, Active, Polls

-----------------------------------------------------------------------------
(* Touches in their order *)

LEMMA TouchTypes ==
  ASSUME TypeInv
  PROVE  /\ Touches \subseteq Nat /\ sent \in Nat /\ Len(queue) \in Nat
         /\ \A k \in 1 .. Len(queue) : queue[k].id \in Nat \ {0}
<1>1. \A k \in 1 .. Len(queue) : queue[k] \in Messages
  BY DEF TypeInv
<1>2. QED
  BY <1>1, TouchAssumption DEF TypeInv, Touches, Axis, Messages

LEMMA ZeroSeen ==
  ASSUME TypeInv
  PROVE  Seen(0)
  BY TouchTypes DEF Seen

(* Messages leave at the front. *)
LEMMA QueueShrinks ==
  ASSUME TypeInv, Ordered, queue' = queue \/ MessageEnds, sent' = sent
  PROVE  Ordered' /\ \A n \in Nat : Seen(n) => Seen(n)'
<1>1. CASE queue' = queue
  BY <1>1 DEF Ordered, Seen
<1>2. CASE queue # <<>> /\ queue' = Tail(queue)
  <2>1. /\ Len(queue) \in Nat \ {0} /\ Len(queue') = Len(queue) - 1
        /\ \A k \in 1 .. Len(queue') : queue'[k] = queue[k + 1]
    BY <1>2, TailOfQueue DEF TypeInv
  <2>2. \A k \in 1 .. Len(queue') : k \in Nat /\ k + 1 \in 1 .. Len(queue)
    BY <2>1
  <2>3. Ordered'
    <3>1. \A k \in 1 .. Len(queue') : queue'[k].id <= sent'
      BY <2>1, <2>2 DEF Ordered
    <3>2. ASSUME NEW j \in 1 .. Len(queue'), NEW k \in 1 .. Len(queue'), j < k
          PROVE  queue'[j].id < queue'[k].id
      <4>1. j + 1 \in 1 .. Len(queue) /\ k + 1 \in 1 .. Len(queue) /\ j + 1 < k + 1
        BY <2>2, <3>2
      <4>2. queue[j + 1].id < queue[k + 1].id
        BY <4>1 DEF Ordered
      <4>3. QED
        BY <2>1, <4>2
    <3>3. QED
      BY <3>1, <3>2 DEF Ordered
  <2>4. ASSUME NEW n \in Nat, Seen(n)
        PROVE  Seen(n)'
    <3>1. \A k \in 1 .. Len(queue') : n < queue'[k].id
      BY <2>1, <2>2, <2>4 DEF Seen
    <3>2. QED
      BY <2>4, <3>1 DEF Seen
  <2>5. QED
    BY <2>3, <2>4
<1>3. QED
  BY <1>1, <1>2 DEF MessageEnds

(* The first message is newer than what is held, and is seen when it leaves. *)
LEMMA FirstMessage ==
  ASSUME TypeInv, Ordered, AllSeen, queue # <<>>, MessageEnds
  PROVE  \E id \in Nat \ {0} :
           id = Head(queue).id /\ Seen(id)' /\ \A n \in Touches : n < id
<1>1. /\ Len(queue) \in Nat \ {0} /\ Head(queue) = queue[1]
      /\ Len(queue') = Len(queue) - 1
      /\ \A k \in 1 .. Len(queue') : queue'[k] = queue[k + 1]
  BY TailOfQueue DEF TypeInv, MessageEnds
<1>2. 1 \in 1 .. Len(queue) /\ \A k \in 1 .. Len(queue') : k \in Nat /\ k + 1 \in 1 .. Len(queue)
  BY <1>1
<1>3. Head(queue).id \in Nat \ {0} /\ \A n \in Touches : n < Head(queue).id
  BY <1>1, <1>2, TouchTypes DEF AllSeen, Seen
<1>4. Head(queue).id <= sent /\ sent' = sent
  BY <1>1, <1>2 DEF Ordered, MessageEnds
<1>5. ASSUME NEW k \in 1 .. Len(queue')
      PROVE  Head(queue).id < queue'[k].id
  <2>1. k + 1 \in 1 .. Len(queue) /\ 1 < k + 1
    BY <1>2
  <2>2. queue[1].id < queue[k + 1].id
    BY <1>2, <2>1 DEF Ordered
  <2>3. QED
    BY <1>1, <2>2
<1>6. PICK id \in Nat \ {0} : id = Head(queue).id
  BY <1>3
<1>7. Seen(id)'
  BY <1>4, <1>5, <1>6 DEF Seen
<1>8. QED
  BY <1>3, <1>6, <1>7

(* Nothing new is held but what has been seen. *)
LEMMA StillSeen ==
  ASSUME TypeInv, Ordered, AllSeen, queue' = queue \/ MessageEnds, sent' = sent,
         \A n \in Touches' : n \in Touches \/ n = 0 \/ Seen(n)'
  PROVE  Ordered' /\ AllSeen'
<1>1. Ordered' /\ \A n \in Nat : Seen(n) => Seen(n)'
  BY QueueShrinks
<1>2. \A n \in Touches \union {0} : n \in Nat /\ Seen(n)
  BY TouchTypes, ZeroSeen DEF AllSeen
<1>3. QED
  BY <1>1, <1>2 DEF AllSeen

(* A message joins, or the controller forgets the others. *)
LEMMA QueueGrows ==
  ASSUME TypeInv, Ordered, AllSeen, Touches' = Touches,
         PanelResets \/ \E kind \in Kinds : Send(kind)
  PROVE  Ordered' /\ AllSeen'
<1>1. /\ queue \in Seq(Messages) /\ sent \in Nat /\ sent + 1 \in Nat /\ sent' = sent + 1
      /\ sent + 1 \in 1 .. MaxMessages
  BY TouchAssumption DEF TypeInv, PanelResets, Send
<1>2. PICK kind \in Kinds : \/ queue' = Append(queue, Message(kind))
                            \/ queue' = <<Message(kind)>>
  BY DEF PanelResets, Send
<1>3. Message(kind) \in Messages /\ Message(kind).id = sent + 1
  BY <1>1 DEF Message, Messages
<1>4. /\ Len(queue') \in Nat \ {0} /\ queue'[Len(queue')].id = sent + 1
      /\ \A k \in 1 .. Len(queue') : k # Len(queue') => k \in 1 .. Len(queue) /\ queue'[k] = queue[k]
  <2>1. CASE queue' = Append(queue, Message(kind))
    BY <1>1, <1>3, <2>1, AppendToQueue
  <2>2. CASE queue' = <<Message(kind)>>
    BY <1>3, <2>2, OneMessage
  <2>3. QED
    BY <1>2, <2>1, <2>2
<1>5. \A k \in 1 .. Len(queue) : queue[k].id \in Nat /\ queue[k].id <= sent
  BY TouchTypes DEF Ordered
<1>6. Ordered'
  <2>1. \A k \in 1 .. Len(queue') : queue'[k].id <= sent'
    BY <1>1, <1>4, <1>5
  <2>2. ASSUME NEW j \in 1 .. Len(queue'), NEW k \in 1 .. Len(queue'), j < k
        PROVE  queue'[j].id < queue'[k].id
    <3>1. j # Len(queue') /\ j \in 1 .. Len(queue) /\ queue'[j] = queue[j]
      BY <1>4, <2>2
    <3>2. CASE k = Len(queue')
      BY <1>1, <1>4, <1>5, <3>1, <3>2
    <3>3. CASE k # Len(queue')
      BY <1>4, <2>2, <3>1, <3>3 DEF Ordered
    <3>4. QED
      BY <3>2, <3>3
  <2>3. QED
    BY <2>1, <2>2 DEF Ordered
<1>7. ASSUME NEW n \in Touches
      PROVE  Seen(n)'
  <2>1. n \in Nat /\ n <= sent /\ \A k \in 1 .. Len(queue) : n < queue[k].id
    BY <1>7, TouchTypes DEF AllSeen, Seen
  <2>2. \A k \in 1 .. Len(queue') : n < queue'[k].id
    BY <1>1, <1>4, <2>1
  <2>3. QED
    BY <1>1, <2>1, <2>2 DEF Seen
<1>8. QED
  BY <1>6, <1>7 DEF AllSeen

-----------------------------------------------------------------------------
(* The invariant is kept *)

LEMMA InitPosition ==
  ASSUME Init
  PROVE  PositionInv
<1>1. /\ queue = <<>> /\ Len(queue) = 0 /\ sent = 0 /\ changed = FALSE /\ waitQueued = FALSE
      /\ \A c \in Contexts : pc[c] = "idle"
      /\ \A c \in Polls : touch[c] = 0
      /\ lastX.touch = 0 /\ lastY.touch = 0 /\ gotX.touch = 0 /\ gotY.touch = 0
      /\ handed.y.touch = 0
  BY DEF Init, NoPosition
<1>2. Alone /\ Taken /\ Stages
  BY <1>1 DEF Alone, Taken, Stages, Stage, Active, Contexts, Polls, Storing
<1>3. Ordered /\ Position
  BY <1>1 DEF Ordered, Position
<1>4. Touches \subseteq {0}
  BY <1>1 DEF Touches
<1>5. AllSeen
  BY <1>1, <1>4 DEF AllSeen, Seen
<1>6. QED
  BY <1>2, <1>3, <1>5 DEF PositionInv

(* A poll that goes on leaves the client as alone as it was. *)
LEMMA StillAlone ==
  ASSUME TypeInv, Apart, Alone, NEW c \in Polls, Active(c),
         NEW label, Goto(c, label), UNCHANGED <<waitQueued, clientTpl>>
  PROVE  /\ Alone'
         /\ \A d \in Polls \ {c} : pc[d] = "idle" /\ pc'[d] = "idle"
         /\ pc'[c] = label /\ pc'["client"] = pc["client"]
         /\ clientTpl = TPL_CALLBACK => pc["client"] = "idle"
<1>1. /\ \A d \in Polls \ {c} : pc[d] = "idle"
      /\ clientTpl = TPL_CALLBACK => pc["client"] = "idle"
  BY PollRuns
<1>2. /\ \A d \in Polls \ {c} : pc'[d] = pc[d]
      /\ pc'[c] = label /\ pc'["client"] = pc["client"]
  BY DEF TypeInv, PcOK, Goto, Polls, Contexts
<1>3. Alone'
  BY <1>1, <1>2 DEF Alone, Active
<1>4. QED
  BY <1>1, <1>2, <1>3

(* A poll that has nothing to store yet, or finds nothing to store. *)
LEMMA QuietStep ==
  ASSUME TypeInv, Apart, PositionInv, NEW c \in Polls, Active(c),
         pc[c] \notin Storing \ {"store_x"},
         NEW label \in {"idle", "signal", "header", "payload"}, Goto(c, label),
         UNCHANGED <<lastX, lastY, changed, touch, client, waitQueued, sent>>,
         queue' = queue \/ MessageEnds
  PROVE  PositionInv'
<1> USE DEF PositionInv, client
<1>1. /\ Alone'
      /\ \A d \in Polls \ {c} : pc[d] = "idle" /\ pc'[d] = "idle"
      /\ pc'[c] = label /\ pc'["client"] = pc["client"]
  BY StillAlone
<1>2. Touches' = Touches
  BY DEF Touches
<1>3. Ordered' /\ AllSeen'
  BY <1>2, StillSeen
<1>4. \A d \in Polls : pc[d] \notin Storing \ {"store_x"} /\ pc'[d] \notin Storing
  BY <1>1 DEF Storing
<1>5. Position'
  BY <1>1, <1>4 DEF Position, Resetting, IsNew
<1>6. Stages'
  BY <1>4 DEF Stages, Stage, Storing
<1>7. Taken'
  BY <1>1 DEF Taken, IsNew, NotBefore
<1>8. QED
  BY <1>1, <1>3, <1>5, <1>6, <1>7

(* A poll that has a touch to store, newer than all there are, or the stack's. *)
LEMMA FoundStep ==
  ASSUME TypeInv, Apart, PositionInv, NEW c \in Polls, Active(c),
         pc[c] \notin Storing \ {"store_x"}, Goto(c, "store_x"), MessageEnds,
         UNCHANGED <<lastX, lastY, changed, client, waitQueued>>,
         NEW n \in Nat, touch' = [touch EXCEPT ![c] = n],
         n = 0 \/ (Seen(n)' /\ \A m \in Touches : m < n)
  PROVE  PositionInv'
<1> USE DEF PositionInv, client
<1>1. /\ Alone'
      /\ \A d \in Polls \ {c} : pc[d] = "idle" /\ pc'[d] = "idle"
      /\ pc'[c] = "store_x" /\ pc'["client"] = pc["client"]
  BY StillAlone
<1>2. touch'[c] = n /\ \A d \in Polls \ {c} : touch'[d] = touch[d]
  BY DEF TypeInv
<1>3. Touches' \subseteq Touches \union {n}
  BY <1>2 DEF Touches
<1>4. Ordered' /\ AllSeen'
  BY <1>3, StillSeen DEF MessageEnds
<1>5. \A d \in Polls : pc[d] \notin Storing \ {"store_x"} /\ pc'[d] \notin Storing \ {"store_x"}
  BY <1>1 DEF Storing
<1>6. Position'
  BY <1>1, <1>5 DEF Position, Resetting, IsNew
<1>7. IsNew(n) /\ NotBefore(n, gotX.touch)
  <2>1. {handed.y.touch, gotX.touch} \subseteq Touches
    BY DEF Touches
  <2>2. handed.y.touch \in Nat /\ gotX.touch \in Nat
    BY <2>1, TouchTypes
  <2>3. QED
    BY <2>1, <2>2 DEF IsNew, NotBefore
<1>8. Stages'
  BY <1>1, <1>2, <1>7 DEF Stages, Stage, Storing, IsNew, NotBefore
<1>9. Taken'
  BY <1>1 DEF Taken, IsNew, NotBefore
<1>10. QED
  BY <1>1, <1>4, <1>6, <1>8, <1>9

LEMMA TurnedRound ==
  ASSUME NEW n, NEW inverted \in BOOLEAN, NEW axis, axis = [touch |-> n, turned |-> FALSE]
  PROVE  [axis EXCEPT !.turned = IF inverted THEN ~@ ELSE @] = [touch |-> n, turned |-> inverted]
<1>1. ASSUME NEW b
      PROVE  [axis EXCEPT !.turned = b] = [touch |-> n, turned |-> b]
  OBVIOUS
<1>2. axis.turned = FALSE
  OBVIOUS
<1>3. (IF inverted THEN ~axis.turned ELSE axis.turned) = inverted
  BY <1>2, Zenon
<1>4. QED
  BY <1>1, <1>3, Zenon

(* A poll stores the touch, announces it and turns it round. *)
LEMMA StoreStep ==
  ASSUME TypeInv, Apart, PositionInv, NEW c \in Polls,
         StoreX(c) \/ StoreY(c) \/ Announce(c) \/ TurnX(c) \/ TurnY(c)
  PROVE  PositionInv'
<1> USE DEF PositionInv, client, panel, instance, events
<1>1. Active(c) /\ pc[c] \in Storing
  BY DEF StoreX, StoreY, Announce, TurnX, TurnY, At, Runs, Storing
<1>2. PICK label : Goto(c, label) /\ label \in {"store_y", "announce", "turn_x", "turn_y", "idle", "signal"}
  BY DEF StoreX, StoreY, Announce, TurnX, TurnY, Return
<1>3. UNCHANGED <<panel, touch, client, events>>
  BY DEF StoreX, StoreY, Announce, TurnX, TurnY
<1>4. /\ Alone'
      /\ \A d \in Polls \ {c} : pc[d] = "idle" /\ pc'[d] = "idle"
      /\ pc'[c] = label /\ pc'["client"] = pc["client"]
      /\ clientTpl = TPL_CALLBACK => pc["client"] = "idle"
  BY <1>1, <1>2, <1>3, StillAlone
<1>5. Stage(c) /\ IsNew(touch[c]) /\ NotBefore(touch[c], gotX.touch) /\ touch[c] \in Touches
  BY <1>1 DEF Stages, Stage, Touches
<1>6. lastX \in Axis /\ lastY \in Axis
  BY DEF TypeInv
<1>7. CASE StoreX(c)
  <2>1. /\ lastX' = [touch |-> touch[c], turned |-> FALSE] /\ lastY' = lastY /\ changed' = changed
        /\ pc'[c] = "store_y"
    BY <1>2, <1>4, <1>7 DEF StoreX, Goto, TypeInv, PcOK, Contexts, Polls
  <2>2. Touches' \subseteq Touches
    BY <1>3, <1>5, <2>1 DEF Touches
  <2>3. Ordered' /\ AllSeen'
    BY <1>3, <2>2, StillSeen
  <2>4. Position'
    BY <2>1 DEF Position, Storing
  <2>5. Stages'
    BY <1>3, <1>4, <1>5, <2>1 DEF Stages, Stage, Storing, IsNew, NotBefore
  <2>6. Taken'
    BY <1>3, <1>4, <2>1 DEF Taken, IsNew, NotBefore
  <2>7. QED
    BY <1>4, <2>3, <2>4, <2>5, <2>6
<1>8. CASE StoreY(c)
  <2>1. /\ lastY' = [touch |-> touch[c], turned |-> FALSE] /\ lastX' = lastX /\ changed' = changed
        /\ pc[c] = "store_y" /\ pc'[c] = "announce"
    BY <1>2, <1>4, <1>8 DEF StoreY, Goto, TypeInv, PcOK, Contexts, Polls, At
  <2>2. Touches' \subseteq Touches
    BY <1>3, <1>5, <2>1 DEF Touches
  <2>3. Ordered' /\ AllSeen'
    BY <1>3, <2>2, StillSeen
  <2>4. Position'
    BY <2>1 DEF Position, Storing
  <2>5. Stages'
    BY <1>3, <1>4, <1>5, <2>1 DEF Stages, Stage, Storing, IsNew, NotBefore
  <2>6. Taken'
    BY <1>3, <1>4, <1>5, <2>1 DEF Taken, IsNew, NotBefore
  <2>7. QED
    BY <1>4, <2>3, <2>4, <2>5, <2>6
<1>9. CASE Announce(c)
  <2>1. /\ lastY' = lastY /\ lastX' = lastX /\ changed' = TRUE
        /\ pc[c] = "announce" /\ pc'[c] = "turn_x"
    BY <1>2, <1>4, <1>9 DEF Announce, Goto, TypeInv, PcOK, Contexts, Polls, At
  <2>2. Touches' = Touches
    BY <1>3, <2>1 DEF Touches
  <2>3. Ordered' /\ AllSeen'
    BY <1>3, <2>2, StillSeen
  <2>4. Position'
    BY <2>1 DEF Position, Storing
  <2>5. Stages'
    BY <1>3, <1>4, <1>5, <2>1 DEF Stages, Stage, Storing, IsNew, NotBefore
  <2>6. Taken'
    BY <1>3, <1>4, <2>1 DEF Taken, IsNew, NotBefore
  <2>7. QED
    BY <1>4, <2>3, <2>4, <2>5, <2>6
<1>10. CASE TurnX(c)
  <2>1. /\ lastY' = lastY /\ changed' = changed
        /\ pc[c] = "turn_x" /\ pc'[c] = "turn_y"
    BY <1>2, <1>4, <1>10 DEF TurnX, Goto, TypeInv, PcOK, Contexts, Polls, At
  <2>2. lastX' = [touch |-> touch[c], turned |-> XInverted]
    BY <1>5, <1>10, <2>1, TouchAssumption, TurnedRound DEF TurnX, Stage
  <2>3. Touches' \subseteq Touches
    BY <1>3, <1>5, <2>1, <2>2 DEF Touches
  <2>4. Ordered' /\ AllSeen'
    BY <1>3, <2>3, StillSeen
  <2>5. Position'
    BY <2>1 DEF Position, Storing
  <2>6. Stages'
    BY <1>3, <1>4, <1>5, <2>1, <2>2 DEF Stages, Stage, Storing, IsNew, NotBefore
  <2>7. Taken'
    BY <1>3, <1>4, <2>1 DEF Taken, IsNew, NotBefore
  <2>8. QED
    BY <1>4, <2>4, <2>5, <2>6, <2>7
<1>11. CASE TurnY(c)
  <2>1. /\ lastX' = lastX /\ changed' = changed
        /\ pc[c] = "turn_y" /\ pc'[c] \in {"idle", "signal"}
    BY <1>2, <1>4, <1>11 DEF TurnY, Return, Goto, TypeInv, PcOK, Contexts, Polls, At
  <2>2. lastX = [touch |-> touch[c], turned |-> XInverted]
    BY <1>5, <2>1 DEF Stage
  <2>3. lastY' = [touch |-> touch[c], turned |-> YInverted]
    BY <1>5, <1>11, <2>1, TouchAssumption, TurnedRound DEF TurnY, Stage
  <2>4. Touches' \subseteq Touches
    BY <1>3, <1>5, <2>1, <2>3 DEF Touches
  <2>5. Ordered' /\ AllSeen'
    BY <1>3, <2>4, StillSeen
  <2>6. Position'
    BY <1>3, <1>5, <2>1, <2>2, <2>3 DEF Position, IsNew
  <2>7. Stages'
    BY <1>4, <2>1 DEF Stages, Stage, Storing
  <2>8. Taken'
    BY <1>3, <1>4, <1>5, <2>1, <2>3 DEF Taken, IsNew, NotBefore
  <2>9. QED
    BY <1>4, <2>5, <2>6, <2>7, <2>8
<1>12. QED
  BY <1>7, <1>8, <1>9, <1>10, <1>11

(* The steps of a poll. *)
LEMMA PollPosition ==
  ASSUME TypeInv, Apart, PositionInv, NEW c \in Polls, Poll(c) \/ TransferFails(c)
  PROVE  PositionInv'
<1> USE DEF panel, instance, client, events
<1>1. CASE StoreX(c) \/ StoreY(c) \/ Announce(c) \/ TurnX(c) \/ TurnY(c)
  BY <1>1, StoreStep
<1>2. ASSUME NEW label \in {"idle", "signal", "header", "payload"}, Goto(c, label),
             Active(c), pc[c] \notin Storing \ {"store_x"},
             UNCHANGED <<lastX, lastY, changed, touch, client, waitQueued, sent>>,
             queue' = queue \/ MessageEnds
      PROVE  PositionInv'
  BY <1>2, QuietStep
<1>3. CASE CheckLine(c) \/ ReadHeader(c) \/ PayloadOutOfSync(c) \/ TransferFails(c) \/ NoTouch(c)
  <2>1. Active(c) /\ pc[c] \notin Storing \ {"store_x"}
    BY <1>3 DEF CheckLine, ReadHeader, PayloadOutOfSync, TransferFails, NoTouch, Payload, At, Runs,
                Storing
  <2>2. PICK label \in {"idle", "signal", "header", "payload"} : Goto(c, label)
    BY <1>3 DEF CheckLine, ReadHeader, PayloadOutOfSync, TransferFails, NoTouch, Return
  <2>3. /\ UNCHANGED <<lastX, lastY, changed, touch, client, waitQueued, sent>>
        /\ queue' = queue \/ MessageEnds
    BY <1>3 DEF CheckLine, ReadHeader, PayloadOutOfSync, TransferFails, NoTouch, Payload,
       MessageEnds
  <2>4. QED
    BY <1>2, <2>1, <2>2, <2>3
<1>4. CASE TouchReport(c) \/ OtherReport(c) \/ IdentifyReport(c)
  <2>1. /\ Active(c) /\ pc[c] \notin Storing \ {"store_x"} /\ MessageEnds /\ reading /\ queue # <<>>
        /\ UNCHANGED <<lastX, lastY, changed, client, waitQueued, sent>>
    BY <1>4 DEF TouchReport, OtherReport, IdentifyReport, Payload, MessageEnds, At, Runs, Storing,
                TypeInv
  <2>2. PICK id \in Nat \ {0} : id = Head(queue).id /\ Seen(id)' /\ \A n \in Touches : n < id
    BY <2>1, FirstMessage DEF PositionInv
  <2>3. \/ \E n \in {0, id} : touch' = [touch EXCEPT ![c] = n] /\ Goto(c, "store_x")
        \/ UNCHANGED touch /\ Return(c)
    BY <1>4, <2>2 DEF TouchReport, OtherReport, IdentifyReport, StackContents
  <2>4. CASE \E n \in {0, id} : touch' = [touch EXCEPT ![c] = n] /\ Goto(c, "store_x")
    <3>1. PICK n \in Nat : /\ touch' = [touch EXCEPT ![c] = n] /\ Goto(c, "store_x")
                           /\ n = 0 \/ n = id
      BY <2>2, <2>4
    <3>2. n = 0 \/ (Seen(n)' /\ \A m \in Touches : m < n)
      BY <2>2, <3>1
    <3>3. QED
      BY <2>1, <3>1, <3>2, FoundStep
  <2>5. CASE UNCHANGED touch /\ Return(c)
    BY <1>2, <2>1, <2>5 DEF Return
  <2>6. QED
    BY <2>3, <2>4, <2>5
<1>5. QED
  BY <1>1, <1>3, <1>4 DEF Poll

(* The panel and the dispatcher. *)
LEMMA DispatchPosition ==
  ASSUME TPL_NOTIFY \notin ClientTpls, TypeInv, PositionInv,
         \/ \E kind \in Kinds : Send(kind)
         \/ PanelResets \/ BeginTimer \/ BeginWait \/ Signal \/ CheckEvent
  PROVE  PositionInv'
<1> USE DEF panel, instance, client, events, PositionInv
<1>1. UNCHANGED <<instance, touch, client>>
  BY DEF Send, PanelResets, BeginTimer, BeginWait, Signal, CheckEvent
<1>2. Touches' = Touches
  BY <1>1 DEF Touches
<1>3. Ordered' /\ AllSeen'
  <2>1. CASE PanelResets \/ \E kind \in Kinds : Send(kind)
    BY <1>2, <2>1, QueueGrows
  <2>2. CASE BeginTimer \/ BeginWait \/ Signal \/ CheckEvent
    <3>1. UNCHANGED panel
      BY <2>2 DEF BeginTimer, BeginWait, Signal, CheckEvent
    <3>2. QED
      BY <1>2, <3>1, StillSeen
  <2>3. QED
    BY <2>1, <2>2
<1>4. /\ pc'["client"] = pc["client"]
      /\ \A c \in Polls : pc'[c] = pc[c] \/ (pc[c] \notin Storing /\ pc'[c] \notin Storing)
  <2>1. CASE BeginTimer \/ BeginWait \/ Signal
    BY <2>1 DEF BeginTimer, BeginWait, Signal, Goto, At, Runs, MayPoll, Active, Storing, Polls,
                Contexts, TypeInv, PcOK
  <2>2. CASE PanelResets \/ CheckEvent \/ \E kind \in Kinds : Send(kind)
    BY <2>2 DEF PanelResets, CheckEvent, Send
  <2>3. QED
    BY <2>1, <2>2
<1>5. Alone'
  <2>1. CASE PanelResets \/ \E kind \in Kinds : Send(kind)
    BY <2>1 DEF PanelResets, Send, Alone, NoPoll, Active
  <2>2. CASE CheckEvent
    BY <2>2, ClientCalls DEF CheckEvent, Alone, NoPoll, Active
  <2>3. CASE BeginTimer
    <3>1. Active("client") => clientTpl # TPL_CALLBACK
      BY <2>3, TouchAssumption DEF BeginTimer, MayPoll, Below, Tpl, Contexts, TPL_CALLBACK, TypeInv
    <3>2. QED
      BY <1>1, <1>4, <2>3, <3>1 DEF BeginTimer, Alone, Active
  <2>4. CASE BeginWait
    BY <1>4, <2>4 DEF BeginWait, Alone, Active
  <2>5. CASE Signal
    BY <1>1, <1>4, <2>5 DEF Signal, Alone, Active, NoPoll, At, Runs, Goto, TypeInv, PcOK, Contexts
  <2>6. QED
    BY <2>1, <2>2, <2>3, <2>4, <2>5
<1>6. Position'
  BY <1>1, <1>4 DEF Position, Resetting, IsNew, Storing
<1>7. Stages'
  BY <1>1, <1>4 DEF Stages, Stage, IsNew, NotBefore, Storing
<1>8. Taken'
  BY <1>1, <1>4 DEF Taken, IsNew, NotBefore
<1>9. QED
  BY <1>3, <1>5, <1>6, <1>7, <1>8

(* The client, which has the processor only while no poll is active. *)
LEMMA ClientPosition ==
  ASSUME TPL_NOTIFY \notin ClientTpls, TypeInv, PositionInv, GetState \/ Reset \/ ClientStep
  PROVE  PositionInv'
<1> USE DEF panel, instance, client, events, PositionInv
<1>1. NoPoll /\ ~waitQueued
  <2>1. CASE GetState \/ Reset
    BY <2>1, ClientCalls DEF GetState, Reset, Call
  <2>2. CASE ClientStep
    BY <2>2, ClientRuns DEF ClientStep, GetX, GetY, HandOut, ResetX, ResetY, ResetChanged, At
  <2>3. QED
    BY <2>1, <2>2
<1>2. UNCHANGED <<panel, touch, events>>
  BY DEF GetState, Reset, ClientStep, GetX, GetY, HandOut, ResetX, ResetY, ResetChanged
<1>3. PICK label \in ClientLabels : Goto("client", label)
  BY DEF GetState, Reset, Call, ClientStep, GetX, GetY, HandOut, ResetX, ResetY, ResetChanged,
         ClientLabels
<1>4. /\ pc'["client"] = label
      /\ \A c \in Polls : pc[c] = "idle" /\ pc'[c] = "idle"
  BY <1>1, <1>3 DEF Goto, NoPoll, Active, Polls, Contexts, TypeInv, PcOK
<1>5. Alone'
  BY <1>1, <1>2, <1>4 DEF Alone, NoPoll, Active, Polls
<1>6. Stages'
  BY <1>4 DEF Stages, Stage, Storing
<1>7. Touches' \subseteq Touches \union {0}
  BY <1>2 DEF GetState, Reset, ClientStep, GetX, GetY, HandOut, ResetX, ResetY, ResetChanged,
              Touches, NoPosition
<1>8. Ordered' /\ AllSeen'
  BY <1>2, <1>7, StillSeen
<1>9. Position' /\ Taken'
  <2>1. CASE GetState
    BY <1>4, <2>1 DEF GetState, Call, Goto, Position, Taken, Resetting, IsNew, NotBefore, TypeInv,
       PcOK, Contexts, MayCall, Active
  <2>2. CASE Reset
    BY <1>4, <2>2 DEF Reset, Call, Goto, Position, Taken, Resetting, IsNew, NotBefore, TypeInv,
       PcOK, Contexts, MayCall, Active
  <2>3. CASE GetX
    <3>1. /\ pc["client"] = "get_x" /\ pc'["client"] = "get_y" /\ gotX' = lastX
          /\ UNCHANGED <<clientTpl, changed, lastX, lastY, gotY, handed>>
      BY <1>4, <2>3 DEF GetX, Goto, At, TypeInv, PcOK, Contexts
    <3>2. changed /\ ~Resetting
      BY <3>1 DEF Taken, Resetting
    <3>3. lastX.touch = lastY.touch /\ IsNew(lastX.touch) /\ lastX.touch \in Nat
      BY <1>4, <3>2 DEF Position, Storing, TypeInv, Axis
    <3>4. Position'
      BY <1>4, <3>1, <3>2 DEF Position, Resetting, IsNew, Storing
    <3>5. Taken'
      BY <3>1, <3>2, <3>3 DEF Taken, IsNew, NotBefore
    <3>6. QED
      BY <3>4, <3>5
  <2>4. CASE GetY
    BY <1>4, <2>4 DEF GetY, Goto, Position, Taken, Resetting, IsNew, NotBefore, TypeInv, PcOK,
       Contexts, At
  <2>5. CASE HandOut
    BY <1>4, <2>5 DEF HandOut, Goto, Position, Taken, TypeInv, PcOK, Contexts
  <2>6. CASE ResetX
    BY <1>4, <2>6 DEF ResetX, Goto, Position, Taken, Resetting, TypeInv, PcOK, Contexts
  <2>7. CASE ResetY
    BY <1>4, <2>7 DEF ResetY, Goto, Position, Taken, Resetting, TypeInv, PcOK, Contexts
  <2>8. CASE ResetChanged
    BY <1>4, <2>8 DEF ResetChanged, Goto, Position, Taken, TypeInv, PcOK, Contexts
  <2>9. QED
    BY <2>1, <2>2, <2>3, <2>4, <2>5, <2>6, <2>7, <2>8 DEF ClientStep
<1>10. QED
  BY <1>5, <1>6, <1>8, <1>9

LEMMA StepPosition ==
  ASSUME TPL_NOTIFY \notin ClientTpls, Inv, TypeInv, PositionInv, [Next]_vars
  PROVE  PositionInv'
<1>1. CASE UNCHANGED vars
  BY <1>1 DEF vars, panel, instance, client, events, PositionInv, Alone, NoPoll, Active, Ordered,
              AllSeen, Touches, Seen, Position, Resetting, IsNew, Stages, Stage, NotBefore, Taken
<1>2. QED
  BY <1>1, PollPosition, DispatchPosition, ClientPosition DEF Next, Inv

LEMMA PositionInvariance ==
  TPL_NOTIFY \notin ClientTpls => (Spec => [](Inv /\ TypeInv /\ PositionInv))
<1>1. SUFFICES ASSUME TPL_NOTIFY \notin ClientTpls
              PROVE  Spec => [](Inv /\ TypeInv /\ PositionInv)
  OBVIOUS
<1>2. Init => Inv /\ PositionInv
  BY InitInv, InitPosition
<1>3. Inv /\ TypeInv /\ PositionInv /\ [Next]_vars => Inv' /\ PositionInv'
  BY <1>1, StepInv, StepPosition
<1>4. QED
  BY <1>2, <1>3, TypeInvariance, PTL DEF Spec

-----------------------------------------------------------------------------
(* Only AbsPGetState hands out; it and AbsPReset forget what was announced. *)
LEMMA WhoHandsOut ==
  ASSUME [Next]_vars, handed' # handed
  PROVE  HandOut
  BY DEF Next, vars, client, Send, PanelResets, BeginTimer, BeginWait, Poll, TransferFails, Signal,
         CheckEvent, GetState, Reset, ClientStep, CheckLine, ReadHeader, PayloadOutOfSync,
         TouchReport, NoTouch, OtherReport, IdentifyReport, StoreX, StoreY, Announce, TurnX, TurnY,
         GetX, GetY, ResetX, ResetY, ResetChanged

LEMMA WhoForgets ==
  ASSUME [Next]_vars, changed, ~changed'
  PROVE  HandOut \/ ResetChanged
  BY DEF Next, vars, instance, Send, PanelResets, BeginTimer, BeginWait, Poll, TransferFails,
     Signal,
         CheckEvent, GetState, Reset, ClientStep, CheckLine, ReadHeader, PayloadOutOfSync,
         TouchReport, NoTouch, OtherReport, IdentifyReport, StoreX, StoreY, Announce, TurnX, TurnY,
         GetX, GetY, ResetX, ResetY

(* A client that runs at TPL_CALLBACK takes the announced position as it is. *)
LEMMA WhatIsTaken ==
  ASSUME TPL_NOTIFY \notin ClientTpls, TypeInv, PositionInv, HandOut
  PROVE  /\ handed' = [x |-> gotX, y |-> gotY]
         /\ IsNew(gotX.touch) /\ NotBefore(gotY.touch, gotX.touch)
         /\ clientTpl = TPL_CALLBACK =>
              /\ gotX = lastX /\ gotY = lastY /\ lastX.touch = lastY.touch
              /\ lastX.touch # 0 => lastX.turned = XInverted /\ lastY.turned = YInverted
<1>1. NoPoll /\ pc["client"] = "hand" /\ handed' = [x |-> gotX, y |-> gotY]
  BY ClientRuns DEF HandOut, At
<1>2. changed /\ ~Resetting /\ \A c \in Polls : pc[c] \notin Storing \ {"store_x"}
  BY <1>1 DEF PositionInv, Taken, Resetting, NoPoll, Active, Polls, Storing
<1>3. QED
  BY <1>1, <1>2 DEF PositionInv, Taken, Position

(* AbsPGetState at TPL_CALLBACK is atomic though nothing is locked: both axes  *)
(* are of one touch, and both are turned as the device is mounted.             *)
THEOREM GetStateIsWhole == TPL_NOTIFY \notin ClientTpls => (Spec => HandedOutWhole)
<1>1. SUFFICES ASSUME TPL_NOTIFY \notin ClientTpls PROVE Spec => HandedOutWhole
  OBVIOUS
<1>2. TypeInv /\ PositionInv /\ [Next]_vars =>
        [(handed' # handed /\ clientTpl = TPL_CALLBACK) =>
           /\ handed'.x.touch = handed'.y.touch
           /\ handed'.x.touch # 0 =>
                handed'.x.turned = XInverted /\ handed'.y.turned = YInverted]_vars
  <2> SUFFICES ASSUME TypeInv, PositionInv, [Next]_vars, handed' # handed, clientTpl = TPL_CALLBACK
               PROVE  /\ handed'.x.touch = handed'.y.touch
                      /\ handed'.x.touch # 0 =>
                           handed'.x.turned = XInverted /\ handed'.y.turned = YInverted
    OBVIOUS
  <2>1. HandOut
    BY WhoHandsOut
  <2>2. QED
    BY <1>1, <2>1, WhatIsTaken
<1>3. QED
  BY <1>1, <1>2, PositionInvariance, PTL DEF Spec, HandedOutWhole

(* No touch that was announced to a client at TPL_CALLBACK is lost because a   *)
(* poll announced another one while AbsPGetState was under way.                *)
THEOREM NothingForgotten == TPL_NOTIFY \notin ClientTpls => (Spec => NoTouchForgotten)
<1>1. SUFFICES ASSUME TPL_NOTIFY \notin ClientTpls PROVE Spec => NoTouchForgotten
  OBVIOUS
<1>2. TypeInv /\ PositionInv /\ [Next]_vars =>
        [(changed /\ ~changed' /\ clientTpl = TPL_CALLBACK) =>
           \/ handed' = [x |-> lastX, y |-> lastY]
           \/ pc["client"] = "reset_changed"]_vars
  <2> SUFFICES ASSUME TypeInv, PositionInv, [Next]_vars, changed, ~changed', clientTpl = TPL_CALLBACK
               PROVE  \/ handed' = [x |-> lastX, y |-> lastY]
                      \/ pc["client"] = "reset_changed"
    OBVIOUS
  <2>1. HandOut \/ ResetChanged
    BY WhoForgets
  <2>2. QED
    BY <1>1, <2>1, WhatIsTaken DEF ResetChanged, At
<1>3. QED
  BY <1>1, <1>2, PositionInvariance, PTL DEF Spec, NoTouchForgotten

(* Polls may come between the two reads of AbsPGetState at TPL_APPLICATION,    *)
(* and a torn position results; but no call returns a touch of the call before *)
(* it, or an older one: StateChanged is cleared when a position is returned,   *)
(* a poll stores x before y and the client reads x before y.                   *)
THEOREM TouchesInOrder == TPL_NOTIFY \notin ClientTpls => (Spec => HandedOutInOrder)
<1>1. SUFFICES ASSUME TPL_NOTIFY \notin ClientTpls PROVE Spec => HandedOutInOrder
  OBVIOUS
<1>2. TypeInv /\ PositionInv /\ [Next]_vars =>
        [HandOut =>
           \/ 0 \in {handed'.x.touch, handed'.y.touch}
           \/ handed.y.touch < handed'.x.touch /\ handed'.x.touch <= handed'.y.touch]_vars
  <2> SUFFICES ASSUME TypeInv, PositionInv, HandOut
               PROVE  \/ 0 \in {handed'.x.touch, handed'.y.touch}
                      \/ handed.y.touch < handed'.x.touch /\ handed'.x.touch <= handed'.y.touch
    OBVIOUS
  <2> QED
    BY <1>1, WhatIsTaken DEF IsNew, NotBefore
<1>3. QED
  BY <1>1, <1>2, PositionInvariance, PTL DEF Spec, HandedOutInOrder

-----------------------------------------------------------------------------
(* What a client at TPL_CALLBACK sees *)

CallbackClients == ClientTpls = {TPL_CALLBACK}

LEMMA AtCallback ==
  ASSUME CallbackClients, TypeInv
  PROVE  TPL_NOTIFY \notin ClientTpls /\ clientTpl = TPL_CALLBACK
  BY DEF CallbackClients, TypeInv, TPL_CALLBACK, TPL_NOTIFY

(* The messages that are past *)

LEMMA PastValue ==
  ASSUME NEW q \in Seq(Messages), NEW n \in 0 .. MaxMessages,
         NEW p, p = IF q = <<>> THEN n ELSE Head(q).id - 1
  PROVE  /\ p \in Nat
         /\ q # <<>> => Head(q) = q[1] /\ q[1] \in Messages /\ p + 1 = q[1].id
<1>1. CASE q = <<>>
  BY <1>1, TouchAssumption
<1>2. CASE q # <<>>
  <2>1. Head(q) \in Messages /\ Head(q) = q[1]
    BY <1>2, TailOfQueue
  <2>2. Head(q).id \in Nat \ {0}
    BY <2>1, TouchAssumption DEF Messages
  <2>3. QED
    BY <1>2, <2>1, <2>2
<1>3. QED
  BY <1>1, <1>2

LEMMA PastIs ==
  ASSUME TypeInv
  PROVE  /\ Past \in Nat
         /\ queue # <<>> => Head(queue) = queue[1] /\ Past + 1 = queue[1].id
  BY PastValue DEF TypeInv, Past

LEMMA PastNext ==
  ASSUME TypeInv'
  PROVE  /\ Past' \in Nat
         /\ queue' # <<>> => Past' + 1 = queue'[1].id
<1>1. /\ queue' \in Seq(Messages) /\ sent' \in 0 .. MaxMessages
      /\ Past' = IF queue' = <<>> THEN sent' ELSE Head(queue').id - 1
  BY DEF TypeInv, Past
<1>2. QED
  BY <1>1, PastValue

(* Messages that leave at the front are past, and no others. *)
LEMMA PastFront ==
  ASSUME TypeInv, TypeInv', Ordered, queue # <<>>, MessageEnds
  PROVE  Past + 1 = Head(queue).id /\ Head(queue).id <= Past'
<1>1. /\ Len(queue) \in Nat \ {0} /\ Head(queue) = queue[1]
      /\ Len(queue') = Len(queue) - 1
      /\ \A k \in 1 .. Len(queue') : queue'[k] = queue[k + 1]
  BY TailOfQueue DEF TypeInv, MessageEnds
<1>2. Past + 1 = queue[1].id /\ Past \in Nat /\ queue[1].id <= sent /\ sent' = sent
  BY <1>1, PastIs DEF Ordered, MessageEnds
<1>3. CASE queue' = <<>>
  BY <1>1, <1>2, <1>3 DEF Past
<1>4. CASE queue' # <<>>
  <2>1. Past' \in Nat /\ Past' + 1 = queue'[1].id
    BY <1>4, PastNext
  <2>2. Len(queue') \in Nat \ {0}
    BY <1>4, TailOfQueue DEF TypeInv
  <2>3. 1 \in 1 .. Len(queue) /\ 2 \in 1 .. Len(queue) /\ queue'[1] = queue[2]
    BY <1>1, <2>2
  <2>4. queue[1].id < queue[2].id /\ queue[1].id \in Nat /\ queue[2].id \in Nat
    BY <2>3, TouchTypes DEF Ordered
  <2>5. queue[1].id <= Past'
    BY <2>1, <2>3, <2>4
  <2>6. QED
    BY <1>1, <1>2, <2>5
<1>5. QED
  BY <1>1, <1>2, <1>3, <1>4

(* However the queue changes, what is past stays past. *)
LEMMA PastGrows ==
  ASSUME TypeInv, TypeInv', Ordered,
         \/ UNCHANGED <<queue, sent>> \/ MessageEnds
         \/ PanelResets \/ \E kind \in Kinds : Send(kind)
  PROVE  Past \in Nat /\ Past' \in Nat /\ Past <= Past'
<1>1. Past \in Nat /\ Past' \in Nat /\ sent \in Nat
  BY PastIs, PastNext, TouchTypes
<1>2. CASE UNCHANGED <<queue, sent>> \/ (MessageEnds /\ queue = <<>>)
  BY <1>1, <1>2 DEF Past, MessageEnds
<1>3. CASE MessageEnds /\ queue # <<>>
  BY <1>1, <1>3, PastFront
<1>4. Past <= sent
  <2>1. CASE queue # <<>>
    <3>1. Len(queue) \in Nat \ {0}
      BY <2>1, TailOfQueue DEF TypeInv
    <3>2. queue[1].id <= sent /\ Past + 1 = queue[1].id
      BY <2>1, <3>1, PastIs DEF Ordered
    <3>3. QED
      BY <1>1, <3>2
  <2>2. QED
    BY <1>1, <2>1 DEF Past
<1>5. CASE PanelResets
  <2>1. queue' = <<Message("identify")>> /\ Head(queue') = Message("identify")
    BY <1>5 DEF PanelResets
  <2>2. Past' = sent
    BY <1>1, <2>1 DEF Past, Message
  <2>3. QED
    BY <1>1, <1>4, <2>2
<1>6. ASSUME NEW kind \in Kinds, Send(kind)
      PROVE  Past <= Past'
  <2>1. queue' = Append(queue, Message(kind)) /\ queue' # <<>> /\ Message(kind) \in Messages
    <3>1. queue \in Seq(Messages) /\ Message(kind) \in Messages
      BY <1>6, TouchAssumption DEF TypeInv, Send, Message, Messages
    <3>2. QED
      BY <1>6, <3>1, AppendToQueue DEF Send
  <2>2. Past' + 1 = queue'[1].id
    BY <2>1, PastNext
  <2>3. CASE queue = <<>>
    <3>1. Len(queue) = 0 /\ queue'[1] = Message(kind)
      BY <2>1, <2>3
    <3>2. QED
      BY <1>1, <2>2, <2>3, <3>1 DEF Past, Message
  <2>4. CASE queue # <<>>
    <3>1. queue \in Seq(Messages) /\ Len(queue) \in Nat \ {0}
      BY <2>4, TailOfQueue DEF TypeInv
    <3>2. queue'[1] = queue[1]
      BY <2>1, <3>1, AppendToQueue
    <3>3. Past + 1 = queue[1].id
      BY <2>4, PastIs
    <3>4. QED
      BY <1>1, <2>2, <3>2, <3>3
  <2>5. QED
    BY <2>3, <2>4
<1>7. QED
  BY <1>1, <1>2, <1>3, <1>5, <1>6

(* What waits for the client, with one poll active or none. *)
LEMMA OfferedPoll ==
  ASSUME NEW c \in Polls, \A d \in Polls \ {c} : pc[d] = "idle", ~InReset
  PROVE  Offered = IF pc[c] \in Storing THEN {touch[c]} ELSE IF changed THEN {lastX.touch} ELSE {}
<1>1. \A d \in Polls : pc[d] \in Storing => d = c
  BY DEF Storing
<1>2. CASE pc[c] \in Storing
  <2>1. {touch[d] : d \in {e \in Polls : pc[e] \in Storing}} = {touch[c]}
    BY <1>1, <1>2
  <2>2. QED
    BY <1>2, <2>1 DEF Offered
<1>3. CASE pc[c] \notin Storing
  <2>1. {touch[d] : d \in {e \in Polls : pc[e] \in Storing}} = {}
    BY <1>1, <1>3
  <2>2. QED
    BY <1>3, <2>1 DEF Offered
<1>4. QED
  BY <1>2, <1>3

LEMMA OfferedNoPoll ==
  ASSUME \A c \in Polls : pc[c] \notin Storing
  PROVE  Offered = IF changed /\ ~InReset THEN {lastX.touch} ELSE {}
<1>1. {touch[c] : c \in {d \in Polls : pc[d] \in Storing}} = {}
  OBVIOUS
<1>2. QED
  BY <1>1 DEF Offered

LEMMA OfferedPollNext ==
  ASSUME NEW c \in Polls, \A d \in Polls \ {c} : pc'[d] = "idle", ~InReset'
  PROVE  Offered' = IF pc'[c] \in Storing THEN {touch'[c]}
                    ELSE IF changed' THEN {lastX'.touch} ELSE {}
<1>1. \A d \in Polls : pc'[d] \in Storing => d = c
  BY DEF Storing
<1>2. CASE pc'[c] \in Storing
  <2>1. {touch'[d] : d \in {e \in Polls : pc'[e] \in Storing}} = {touch'[c]}
    BY <1>1, <1>2
  <2>2. QED
    BY <1>2, <2>1 DEF Offered
<1>3. CASE pc'[c] \notin Storing
  <2>1. {touch'[d] : d \in {e \in Polls : pc'[e] \in Storing}} = {}
    BY <1>1, <1>3
  <2>2. QED
    BY <1>3, <2>1 DEF Offered
<1>4. QED
  BY <1>2, <1>3

LEMMA OfferedNoPollNext ==
  ASSUME \A c \in Polls : pc'[c] \notin Storing
  PROVE  Offered' = IF changed' /\ ~InReset' THEN {lastX'.touch} ELSE {}
<1>1. {touch'[c] : c \in {d \in Polls : pc'[d] \in Storing}} = {}
  OBVIOUS
<1>2. QED
  BY <1>1 DEF Offered

(* The steps of AbsolutePointer, as the driver takes them. *)
LEMMA PointerStutters ==
  ASSUME Past' = Past, Offered' = Offered, handed' = handed, ClientCall' = ClientCall
  PROVE  [Pointer!Next]_(Pointer!vars)
  BY DEF Pointer!vars, TouchOf

LEMMA PointerSkips ==
  ASSUME Past \in Nat, Past' \in Nat, Past <= Past',
         Offered' = Offered, handed' = handed, ClientCall' = ClientCall
  PROVE  [Pointer!Next]_(Pointer!vars)
  BY DEF Pointer!Next, Pointer!Skip, Pointer!Pass, TouchOf

LEMMA PointerOffers ==
  ASSUME Past \in Nat, Past' \in Nat, Past <= Past', NEW n \in Nat,
         n = 0 \/ (Past < n /\ n <= Past'),
         Offered' = {n}, handed' = handed, ClientCall = "none", ClientCall' = "none"
  PROVE  [Pointer!Next]_(Pointer!vars)
<1>1. n \in 0 .. Past'
  OBVIOUS
<1>2. Pointer!Offer(n)
  BY DEF Pointer!Offer, Pointer!Pass, Pointer!NoTouch, TouchOf
<1>3. QED
  BY <1>1, <1>2 DEF Pointer!Next

LEMMA PointerInit ==
  ASSUME Init
  PROVE  Pointer!Init
<1>1. Past = 0 /\ ClientCall = "none"
  BY DEF Init, Past, ClientCall, InReset, Contexts
<1>2. Offered = {}
  BY OfferedNoPoll DEF Init, Polls, Contexts, Storing
<1>3. TouchOf(handed) = {0}
  BY DEF Init, TouchOf, NoPosition
<1>4. QED
  BY <1>1, <1>2, <1>3 DEF Pointer!Init, Pointer!NoTouch

(* A poll, while the client is not in a call: reading a touch offers it, and *)
(* storing, announcing and turning it change nothing the client could tell.  *)
LEMMA PollPointer ==
  ASSUME CallbackClients, TypeInv, TypeInv', Apart, PositionInv,
         NEW c \in Polls, Poll(c) \/ TransferFails(c)
  PROVE  [Pointer!Next]_(Pointer!vars)
<1> USE DEF panel, instance, client, events
<1>1. Active(c) /\ \E label : Goto(c, label)
  BY DEF Poll, CheckLine, ReadHeader, PayloadOutOfSync, TransferFails, NoTouch, OtherReport,
         IdentifyReport, TouchReport, StackContents, Return, Payload, StoreX, StoreY, Announce,
         TurnX, TurnY, At, Runs
<1>2. PICK label : Goto(c, label)
  BY <1>1
<1>3. UNCHANGED <<clientTpl, waitQueued, handed>>
  BY DEF Poll, CheckLine, ReadHeader, PayloadOutOfSync, TransferFails, NoTouch, OtherReport,
         IdentifyReport, TouchReport, StoreX, StoreY, Announce, TurnX, TurnY
<1>4. /\ \A d \in Polls \ {c} : pc[d] = "idle" /\ pc'[d] = "idle"
      /\ pc'[c] = label /\ pc'["client"] = "idle" /\ pc["client"] = "idle"
  BY <1>1, <1>2, <1>3, StillAlone, AtCallback DEF PositionInv
<1>5. ~InReset /\ ~InReset' /\ ClientCall = "none" /\ ClientCall' = "none"
  BY <1>4 DEF InReset, ClientCall
<1>6. Offered = IF pc[c] \in Storing THEN {touch[c]} ELSE IF changed THEN {lastX.touch} ELSE {}
  BY <1>4, <1>5, OfferedPoll
<1>7. Offered' = IF pc'[c] \in Storing THEN {touch'[c]}
                 ELSE IF changed' THEN {lastX'.touch} ELSE {}
  BY <1>4, <1>5, OfferedPollNext
<1>8. CASE StoreX(c) \/ StoreY(c) \/ Announce(c) \/ TurnX(c)
  <2>1. pc[c] \in Storing /\ pc'[c] \in Storing /\ UNCHANGED <<touch, panel>>
    BY <1>4, <1>8, <1>2 DEF StoreX, StoreY, Announce, TurnX, At, Storing, Goto, TypeInv, PcOK,
       Polls, Contexts
  <2>2. Past' = Past
    BY <2>1 DEF Past
  <2>3. QED
    BY <1>3, <1>5, <1>6, <1>7, <2>1, <2>2, PointerStutters
<1>9. CASE TurnY(c)
  <2>1. /\ pc[c] = "turn_y" /\ pc'[c] \notin Storing /\ UNCHANGED <<touch, panel, lastX, changed>>
    BY <1>4, <1>9, <1>2 DEF TurnY, Return, At, Storing, Goto, TypeInv, PcOK, Polls, Contexts
  <2>2. lastX.touch = touch[c] /\ changed
    BY <2>1 DEF PositionInv, Stages, Stage
  <2>3. Past' = Past
    BY <2>1 DEF Past
  <2>4. pc[c] \in Storing
    BY <2>1 DEF Storing
  <2>5. QED
    BY <1>3, <1>5, <1>6, <1>7, <2>1, <2>2, <2>3, <2>4, PointerStutters
<1>10. ASSUME pc[c] \notin Storing, pc'[c] \notin Storing,
              UNCHANGED <<changed, lastX, sent>>, queue' = queue \/ MessageEnds
       PROVE  [Pointer!Next]_(Pointer!vars)
  <2>1. Past \in Nat /\ Past' \in Nat /\ Past <= Past'
    BY <1>10, PastGrows DEF PositionInv
  <2>2. QED
    BY <1>3, <1>5, <1>6, <1>7, <1>10, <2>1, PointerSkips
<1>11. CASE CheckLine(c) \/ ReadHeader(c) \/ PayloadOutOfSync(c) \/ TransferFails(c) \/ NoTouch(c)
  <2>1. /\ pc[c] \in {"line", "header", "payload"}
        /\ label \in {"idle", "signal", "header", "payload"}
    <3>1. pc[c] \in {"line", "header", "payload"}
      BY <1>11 DEF CheckLine, ReadHeader, PayloadOutOfSync, TransferFails, NoTouch, Payload, At
    <3>2. PICK l \in {"idle", "signal", "header", "payload"} : Goto(c, l)
      BY <1>11 DEF CheckLine, ReadHeader, PayloadOutOfSync, TransferFails, NoTouch, Return
    <3>3. QED
      BY <1>4, <3>1, <3>2 DEF Goto, TypeInv, PcOK, Polls, Contexts
  <2>2. pc[c] \notin Storing /\ pc'[c] \notin Storing
    BY <1>4, <2>1 DEF Storing
  <2>3. UNCHANGED <<changed, lastX, sent>> /\ (queue' = queue \/ MessageEnds)
    BY <1>11 DEF CheckLine, ReadHeader, PayloadOutOfSync, TransferFails, NoTouch, Payload,
       MessageEnds
  <2>4. QED
    BY <1>10, <2>2, <2>3
<1>12. CASE TouchReport(c) \/ OtherReport(c) \/ IdentifyReport(c)
  <2>1. /\ pc[c] = "payload" /\ MessageEnds /\ queue # <<>> /\ UNCHANGED <<changed, lastX, sent>>
    BY <1>12 DEF TouchReport, OtherReport, IdentifyReport, Payload, MessageEnds, At, TypeInv
  <2>2. pc[c] \notin Storing
    BY <2>1 DEF Storing
  <2>3. /\ Past \in Nat /\ Past' \in Nat /\ Past <= Past'
        /\ Past < Head(queue).id /\ Head(queue).id <= Past' /\ Head(queue).id \in Nat
    <3>1. Head(queue) \in Messages
      BY <2>1, TailOfQueue DEF TypeInv
    <3>2. Head(queue).id \in Nat
      BY <3>1, TouchAssumption DEF Messages
    <3>3. QED
      BY <2>1, <3>2, PastGrows, PastFront DEF PositionInv
  <2>4. \/ /\ Goto(c, "store_x")
           /\ \E n \in {0, Head(queue).id} : touch' = [touch EXCEPT ![c] = n]
        \/ Return(c)
    BY <1>12 DEF TouchReport, OtherReport, IdentifyReport, StackContents
  <2>5. ASSUME Goto(c, "store_x"), NEW n \in {0, Head(queue).id}, touch' = [touch EXCEPT ![c] = n]
        PROVE  [Pointer!Next]_(Pointer!vars)
    <3>1. pc'[c] = "store_x" /\ touch'[c] = n
      BY <2>5 DEF Goto, TypeInv, PcOK, Polls, Contexts
    <3>2. Offered' = {n}
      BY <1>7, <3>1 DEF Storing
    <3>3. QED
      BY <1>3, <1>5, <2>3, <3>2, PointerOffers
  <2>6. CASE Return(c)
    <3>1. pc'[c] \notin Storing
      BY <2>6 DEF Return, Goto, Storing, TypeInv, PcOK, Polls, Contexts
    <3>2. QED
      BY <1>10, <2>1, <2>2, <3>1
  <2>7. QED
    BY <2>4, <2>5, <2>6
<1>13. QED
  BY <1>8, <1>9, <1>11, <1>12 DEF Poll

(* What the panel sends, and the dispatcher: nothing waits any longer, or no more. *)
LEMMA DispatchPointer ==
  ASSUME TypeInv, TypeInv', PositionInv,
         \/ \E kind \in Kinds : Send(kind)
         \/ PanelResets \/ BeginTimer \/ BeginWait \/ Signal \/ CheckEvent
  PROVE  [Pointer!Next]_(Pointer!vars)
<1> USE DEF panel, instance, client, events
<1>1. UNCHANGED <<instance, touch, client>>
  BY DEF Send, PanelResets, BeginTimer, BeginWait, Signal, CheckEvent
<1>2. /\ pc'["client"] = pc["client"]
      /\ {c \in Polls : pc'[c] \in Storing} = {c \in Polls : pc[c] \in Storing}
  <2>1. CASE BeginTimer \/ BeginWait \/ Signal
    BY <2>1 DEF BeginTimer, BeginWait, Signal, Goto, At, Runs, MayPoll, Active, Storing, Polls,
                Contexts, TypeInv, PcOK
  <2>2. CASE PanelResets \/ CheckEvent \/ \E kind \in Kinds : Send(kind)
    BY <2>2 DEF PanelResets, CheckEvent, Send
  <2>3. QED
    BY <2>1, <2>2
<1>3. Offered' = Offered /\ ClientCall' = ClientCall /\ handed' = handed
  BY <1>1, <1>2 DEF Offered, ClientCall, InReset
<1>4. Past \in Nat /\ Past' \in Nat /\ Past <= Past'
  <2>1. CASE PanelResets \/ \E kind \in Kinds : Send(kind)
    BY <2>1, PastGrows DEF PositionInv
  <2>2. CASE BeginTimer \/ BeginWait \/ Signal \/ CheckEvent
    BY <2>2, PastGrows DEF PositionInv, BeginTimer, BeginWait, Signal, CheckEvent
  <2>3. QED
    BY <2>1, <2>2
<1>5. QED
  BY <1>3, <1>4, PointerSkips

(* The client, undisturbed from its call to the end of it. *)
LEMMA ClientPointer ==
  ASSUME CallbackClients, TypeInv, PositionInv, GetState \/ Reset \/ ClientStep
  PROVE  [Pointer!Next]_(Pointer!vars)
<1> USE DEF panel, instance, client, events
<1>1. NoPoll
  <2>1. CASE GetState \/ Reset
    BY <2>1, AtCallback, ClientCalls DEF GetState, Reset, Call
  <2>2. CASE ClientStep
    BY <2>2, AtCallback, ClientRuns
       DEF ClientStep, GetX, GetY, HandOut, ResetX, ResetY, ResetChanged, At
  <2>3. QED
    BY <2>1, <2>2
<1>2. UNCHANGED <<panel, touch>>
  BY DEF GetState, Reset, ClientStep, GetX, GetY, HandOut, ResetX, ResetY, ResetChanged
<1>3. Past' = Past
  BY <1>2 DEF Past
<1>4. PICK label \in ClientLabels : Goto("client", label)
  BY DEF GetState, Reset, Call, ClientStep, GetX, GetY, HandOut, ResetX, ResetY, ResetChanged,
         ClientLabels
<1>5. /\ pc'["client"] = label
      /\ \A c \in Polls : pc[c] \notin Storing /\ pc'[c] \notin Storing
  BY <1>1, <1>4 DEF Goto, NoPoll, Active, Polls, Contexts, Storing, TypeInv, PcOK
<1>6. /\ Offered = IF changed /\ ~InReset THEN {lastX.touch} ELSE {}
      /\ Offered' = IF changed' /\ ~InReset' THEN {lastX'.touch} ELSE {}
  BY <1>5, OfferedNoPoll, OfferedNoPollNext
<1>7. CASE GetState
  <2>1. /\ pc["client"] = "idle" /\ pc'["client"] = "get_x" /\ changed
        /\ UNCHANGED <<changed, lastX, handed>>
    BY <1>5, <1>7 DEF GetState, Call, MayCall, Active, Goto, TypeInv, PcOK, Contexts
  <2>2. /\ ~InReset /\ ~InReset' /\ ClientCall = "none" /\ ClientCall' = "get"
    BY <2>1 DEF InReset, ClientCall
  <2>3. Offered # {} /\ Offered' = Offered
    BY <1>6, <2>1, <2>2
  <2>4. Pointer!GetState
    BY <1>3, <2>1, <2>2, <2>3 DEF Pointer!GetState, TouchOf
  <2>5. QED
    BY <2>4 DEF Pointer!Next
<1>8. CASE GetX \/ GetY
  <2>1. /\ pc["client"] \in {"get_x", "get_y"} /\ pc'["client"] \in {"get_y", "hand"}
        /\ UNCHANGED <<changed, lastX, handed>>
    BY <1>5, <1>8 DEF GetX, GetY, At, Goto, TypeInv, PcOK, Contexts
  <2>2. ~InReset /\ ~InReset' /\ ClientCall' = ClientCall
    BY <2>1 DEF InReset, ClientCall
  <2>3. QED
    BY <1>3, <1>6, <2>1, <2>2, PointerStutters
<1>9. CASE HandOut
  <2>1. /\ pc["client"] = "hand" /\ pc'["client"] = "idle" /\ ~changed'
    BY <1>5, <1>9 DEF HandOut, At, Goto, TypeInv, PcOK, Contexts
  <2>2. ~InReset /\ ~InReset' /\ ClientCall = "get" /\ ClientCall' = "none"
    BY <2>1 DEF InReset, ClientCall
  <2>3. changed
    BY <2>1 DEF PositionInv, Taken
  <2>4. Offered = {lastX.touch} /\ Offered' = {}
    BY <1>6, <2>1, <2>2, <2>3
  <2>5. /\ handed' = [x |-> lastX, y |-> lastY] /\ lastX.touch = lastY.touch
        /\ lastX.touch # 0 => lastX.turned = XInverted /\ lastY.turned = YInverted
    BY <1>9, AtCallback, WhatIsTaken
  <2>6. TouchOf(handed') = {lastX.touch}
    BY <2>5 DEF TouchOf
  <2>7. TouchOf(handed)' = TouchOf(handed')
    BY DEF TouchOf
  <2>8. Pointer!Take
    BY <1>3, <2>2, <2>4, <2>6, <2>7 DEF Pointer!Take
  <2>9. QED
    BY <2>8 DEF Pointer!Next
<1>10. CASE Reset
  <2>1. /\ pc["client"] = "idle" /\ pc'["client"] = "reset_x" /\ UNCHANGED handed
    BY <1>5, <1>10 DEF Reset, Call, MayCall, Active, Goto, TypeInv, PcOK, Contexts
  <2>2. InReset' /\ ClientCall = "none" /\ ClientCall' = "reset"
    BY <2>1 DEF InReset, ClientCall
  <2>3. Pointer!Reset
    BY <1>3, <1>6, <2>1, <2>2 DEF Pointer!Reset, TouchOf
  <2>4. QED
    BY <2>3 DEF Pointer!Next
<1>11. CASE ResetX \/ ResetY
  <2>1. /\ pc["client"] \in {"reset_x", "reset_y"} /\ pc'["client"] \in {"reset_y", "reset_changed"}
        /\ UNCHANGED handed
    BY <1>5, <1>11 DEF ResetX, ResetY, At, Goto, TypeInv, PcOK, Contexts
  <2>2. InReset /\ InReset' /\ ClientCall' = ClientCall
    BY <2>1 DEF InReset, ClientCall
  <2>3. QED
    BY <1>3, <1>6, <2>1, <2>2, PointerStutters
<1>12. CASE ResetChanged
  <2>1. /\ pc["client"] = "reset_changed" /\ pc'["client"] = "idle" /\ ~changed' /\ UNCHANGED handed
    BY <1>5, <1>12 DEF ResetChanged, At, Goto, TypeInv, PcOK, Contexts
  <2>2. InReset /\ ~InReset' /\ ClientCall = "reset" /\ ClientCall' = "none"
    BY <2>1 DEF InReset, ClientCall
  <2>3. Pointer!ResetEnds
    BY <1>3, <1>6, <2>1, <2>2 DEF Pointer!ResetEnds, TouchOf
  <2>4. QED
    BY <2>3 DEF Pointer!Next
<1>13. QED
  BY <1>7, <1>8, <1>9, <1>10, <1>11, <1>12 DEF ClientStep

LEMMA PointerStep ==
  ASSUME CallbackClients, TypeInv, TypeInv', Apart, PositionInv, [Next]_vars
  PROVE  [Pointer!Next]_(Pointer!vars)
<1>1. CASE UNCHANGED vars
  <2>1. Past' = Past /\ Offered' = Offered /\ handed' = handed /\ ClientCall' = ClientCall
    BY <1>1 DEF vars, panel, instance, client, Past, Offered, ClientCall, InReset
  <2>2. QED
    BY <2>1, PointerStutters
<1>2. QED
  BY <1>1, PollPointer, DispatchPointer, ClientPointer DEF Next

(* With clients at TPL_CALLBACK only, the driver is a place for one touch: no *)
(* interleaving of panel, polls, failed transfers and calls shows a client    *)
(* anything else.                                                             *)
THEOREM PointerImplemented == ClientTpls = {TPL_CALLBACK} => (Spec => ImplementsPointer)
<1>1. SUFFICES ASSUME CallbackClients PROVE Spec => ImplementsPointer
  BY DEF CallbackClients
<1>2. TPL_NOTIFY \notin ClientTpls
  BY <1>1 DEF CallbackClients, TPL_CALLBACK, TPL_NOTIFY
<1>3. Init => Pointer!Init
  BY PointerInit
<1>4. TypeInv /\ TypeInv' /\ Inv /\ PositionInv /\ [Next]_vars => [Pointer!Next]_(Pointer!vars)
  BY <1>1, PointerStep DEF Inv
<1>5. Spec => [](Inv /\ TypeInv /\ PositionInv)
  BY <1>2, PositionInvariance
<1>6. QED
  BY <1>3, <1>4, <1>5, PTL DEF Spec, ImplementsPointer, Pointer!Spec

=============================================================================

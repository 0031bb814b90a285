----------------------------- MODULE TouchPoll -----------------------------
(***************************************************************************)
(* SynapticsTCMDxe after its Start: the panel sends messages, and three    *)
(* contexts share the driver's instance.                                   *)
(*   timer   SyncPollCallback, every 20 ms, at TPL_CALLBACK                *)
(*   wait    AbsPWaitForInput, at TPL_NOTIFY, queued by a check of the     *)
(*           WaitForInput event; it polls, too                             *)
(*   client  AbsPGetState and AbsPReset, and that check, at the TPL of     *)
(*           whoever calls them; one client calls at a time                *)
(* There is one processor.  A context with a higher TPL interrupts one     *)
(* with a lower TPL between any two steps, and runs until it is done.      *)
(*                                                                         *)
(* A touch is the number of the message that reported it.  LastX and LastY *)
(* hold such a number, and whether the axis has been turned round, so that *)
(* a position made of two touches, or one still to be turned, can be told. *)
(***************************************************************************)
EXTENDS Naturals, Sequences

CONSTANTS
  ClientTpls,   \* TPLs at which clients call
  Kinds,        \* kinds of messages the panel sends
  XInverted,    \* XInverted of the device (PcdTouchInvertedX)
  YInverted,    \* YInverted of the device (PcdTouchInvertedY)
  MaxMessages,  \* bound: messages in a behaviour
  MaxFaults     \* bound: failed I2C transfers in a behaviour

TPL_APPLICATION == 4
TPL_CALLBACK    == 8
TPL_NOTIFY      == 16

ASSUME TouchAssumption ==
  /\ ClientTpls \subseteq {TPL_APPLICATION, TPL_CALLBACK, TPL_NOTIFY}
  /\ ClientTpls # {}
  /\ Kinds \subseteq {"touch", "lift", "identify", "other", "bad"}
  /\ XInverted \in BOOLEAN /\ YInverted \in BOOLEAN
  /\ MaxMessages \in Nat /\ MaxFaults \in Nat

Contexts == {"client", "timer", "wait"}
Polls == {"timer", "wait"}

VARIABLES
  queue,        \* messages the panel has ready; its interrupt line is low iff any
  reading,      \* the header of the first one has been read
  sent,         \* number of messages so far
  initialized, changed, lastX, lastY,  \* Initialized, StateChanged, LastX, LastY
  pc,           \* pc[c]: where context c is
  clientTpl,    \* TPL of the client that called last
  touch,        \* touch[c]: TouchPointerData of poll c
  gotX, gotY,   \* State->CurrentX, CurrentY being filled by AbsPGetState
  handed,       \* the last position AbsPGetState returned with EFI_SUCCESS
  waitQueued,   \* AbsPWaitForInput is to run as soon as the TPL allows
  signalled,    \* WaitForInput is signalled
  faults

panel    == <<queue, reading, sent>>
instance == <<initialized, changed, lastX, lastY>>
client   == <<clientTpl, gotX, gotY, handed>>
events   == <<waitQueued, signalled>>

vars == <<panel, instance, pc, touch, client, events, faults>>

Axis == [touch : 0 .. MaxMessages, turned : BOOLEAN]

NoPosition == [touch |-> 0, turned |-> FALSE]

Init ==
  /\ queue = <<>> /\ reading = FALSE /\ sent = 0
  /\ initialized = TRUE /\ changed = FALSE
  /\ lastX = NoPosition /\ lastY = NoPosition
  /\ pc = [c \in Contexts |-> "idle"]
  /\ clientTpl \in ClientTpls
  /\ touch = [c \in Polls |-> 0]
  /\ gotX = NoPosition /\ gotY = NoPosition
  /\ handed = [x |-> NoPosition, y |-> NoPosition]
  /\ waitQueued = FALSE /\ signalled = FALSE
  /\ faults = 0

-----------------------------------------------------------------------------
(* The processor *)

(* Mutant of Tpl: the timer event is created at a level above TPL_NOTIFY. *)
MutTpl(c) ==
  CASE c = "client" -> clientTpl [] c = "timer" -> TPL_NOTIFY + 1 [] c = "wait" -> TPL_NOTIFY

Tpl(c) ==
  CASE c = "client" -> clientTpl [] c = "timer" -> TPL_CALLBACK [] c = "wait" -> TPL_NOTIFY

Active(c) == pc[c] # "idle"

(* The current TPL is below t, and no event at t or above is to be dispatched. *)
Below(t) ==
  /\ \A c \in Contexts : Active(c) => Tpl(c) < t
  /\ waitQueued => TPL_NOTIFY < t

(* The timer event may be dispatched: its notification interrupts what runs. *)
MayPoll == ~Active("timer") /\ Below(Tpl("timer"))

(* A client that runs at t may call. *)
MayCall(t) == ~Active("client") /\ Below(t)

(* Context c runs: nothing above it is active or about to be. *)
Runs(c) ==
  /\ Active(c)
  /\ \A d \in Contexts \ {c} : Active(d) => Tpl(d) < Tpl(c)
  /\ waitQueued => TPL_NOTIFY <= Tpl(c)

At(c, label) == Runs(c) /\ pc[c] = label

Goto(c, label) == pc' = [pc EXCEPT ![c] = label]

-----------------------------------------------------------------------------
(* The panel *)

Message(kind) == [kind |-> kind, id |-> sent + 1]

Send(kind) ==
  /\ kind # "identify"
  /\ sent < MaxMessages
  /\ sent' = sent + 1
  /\ queue' = Append(queue, Message(kind))
  /\ UNCHANGED <<reading, instance, pc, touch, client, events, faults>>

(* The controller resets itself, possibly in the middle of a message.  It    *)
(* forgets what it had to say and identifies itself.                         *)
PanelResets ==
  /\ "identify" \in Kinds
  /\ sent < MaxMessages
  /\ sent' = sent + 1
  /\ queue' = <<Message("identify")>>
  /\ reading' = FALSE
  /\ UNCHANGED <<instance, pc, touch, client, events, faults>>

(* A transfer that ends the first message, if there is one. *)
MessageEnds ==
  /\ queue' = IF queue = <<>> THEN queue ELSE Tail(queue)
  /\ reading' = FALSE
  /\ UNCHANGED sent

-----------------------------------------------------------------------------
(* SyncPollCallback *)

(* The timer event is dispatched. *)
BeginTimer ==
  /\ MayPoll
  /\ Goto("timer", "line")
  /\ UNCHANGED <<panel, instance, touch, client, events, faults>>

(* AbsPWaitForInput is dispatched and calls SyncPollCallback. *)
BeginWait ==
  /\ waitQueued /\ ~Active("wait")
  /\ \A c \in Contexts : Active(c) => Tpl(c) < TPL_NOTIFY
  /\ Goto("wait", "line")
  /\ waitQueued' = FALSE
  /\ UNCHANGED <<panel, instance, touch, client, signalled, faults>>

(* A poll returns; AbsPWaitForInput goes on. *)
Return(c) == Goto(c, IF c = "wait" THEN "signal" ELSE "idle")

(* Mutant of Idle: no poll while a touch has not been fetched. *)
MutIdle == queue = <<>> \/ ~initialized \/ changed

(* The interrupt line is high, or the controller is not initialised. *)
Idle == queue = <<>> \/ ~initialized

CheckLine(c) ==
  /\ At(c, "line")
  /\ IF Idle THEN Return(c) ELSE Goto(c, "header")
  /\ UNCHANGED <<panel, instance, touch, client, events, faults>>

(***************************************************************************)
(* The transfer of the message header.  When another poll has come in      *)
(* between, the panel is in the middle of a message ("Out-of-sync          *)
(* continued read") or has nothing to say, and the poll gives up.          *)
(***************************************************************************)
ReadHeader(c) ==
  /\ At(c, "header")
  /\ IF reading \/ queue = <<>>
     THEN MessageEnds /\ Return(c)
     ELSE reading' = TRUE /\ Goto(c, "payload") /\ UNCHANGED <<queue, sent>>
  /\ UNCHANGED <<instance, touch, client, events, faults>>

(* The payload does not begin with the marker of a continued read. *)
PayloadOutOfSync(c) ==
  /\ At(c, "payload") /\ ~reading
  /\ reading' = (queue # <<>>)
  /\ Return(c)
  /\ UNCHANGED <<queue, sent, instance, touch, client, events, faults>>

Payload(c, kind) ==
  /\ At(c, "payload") /\ reading
  /\ Head(queue).kind = kind
  /\ MessageEnds

(* Mutant of TouchReport: the number of the next message. *)
MutTouchReport(c) ==
  /\ Payload(c, "touch") /\ initialized
  /\ touch' = [touch EXCEPT ![c] = Head(queue).id + 1]
  /\ Goto(c, "store_x")
  /\ UNCHANGED <<instance, client, events, faults>>

TouchReport(c) ==
  /\ Payload(c, "touch") /\ initialized
  /\ touch' = [touch EXCEPT ![c] = Head(queue).id]
  /\ Goto(c, "store_x")
  /\ UNCHANGED <<instance, client, events, faults>>

(* A report of no finger, or a wrong padding byte. *)
NoTouch(c) ==
  /\ Payload(c, "lift") \/ Payload(c, "bad")
  /\ Return(c)
  /\ UNCHANGED <<instance, touch, client, events, faults>>

(***************************************************************************)
(* Success without touch data: what TouchPointerData holds is what the     *)
(* stack holds, a touch (number 0, whatever its position) or none.         *)
(***************************************************************************)
StackContents(c) ==
  \/ touch' = [touch EXCEPT ![c] = 0] /\ Goto(c, "store_x")
  \/ UNCHANGED touch /\ Return(c)

(* A response without a command, a raw or delta report; a touch when another *)
(* poll has met the identify report in between.                              *)
OtherReport(c) ==
  /\ Payload(c, "other") \/ (Payload(c, "touch") /\ ~initialized)
  /\ StackContents(c)
  /\ UNCHANGED <<instance, client, events, faults>>

(* "IC reset occured, need reinit" *)
IdentifyReport(c) ==
  /\ Payload(c, "identify")
  /\ initialized' = FALSE
  /\ StackContents(c)
  /\ UNCHANGED <<changed, lastX, lastY, client, events, faults>>

(* The transfer itself fails; the panel stays where it is. *)
TransferFails(c) ==
  /\ At(c, "header") \/ At(c, "payload")
  /\ faults < MaxFaults
  /\ faults' = faults + 1
  /\ Return(c)
  /\ UNCHANGED <<panel, instance, touch, client, events>>

(* TouchStatus > 0: the position is stored, announced, then turned round. *)
StoreX(c) ==
  /\ At(c, "store_x")
  /\ lastX' = [touch |-> touch[c], turned |-> FALSE]
  /\ Goto(c, "store_y")
  /\ UNCHANGED <<panel, initialized, changed, lastY, touch, client, events, faults>>

StoreY(c) ==
  /\ At(c, "store_y")
  /\ lastY' = [touch |-> touch[c], turned |-> FALSE]
  /\ Goto(c, "announce")
  /\ UNCHANGED <<panel, initialized, changed, lastX, touch, client, events, faults>>

Announce(c) ==
  /\ At(c, "announce")
  /\ changed' = TRUE
  /\ Goto(c, "turn_x")
  /\ UNCHANGED <<panel, initialized, lastX, lastY, touch, client, events, faults>>

TurnX(c) ==
  /\ At(c, "turn_x")
  /\ lastX' = [lastX EXCEPT !.turned = IF XInverted THEN ~@ ELSE @]
  /\ Goto(c, "turn_y")
  /\ UNCHANGED <<panel, initialized, changed, lastY, touch, client, events, faults>>

TurnY(c) ==
  /\ At(c, "turn_y")
  /\ lastY' = [lastY EXCEPT !.turned = IF YInverted THEN ~@ ELSE @]
  /\ Return(c)
  /\ UNCHANGED <<panel, initialized, changed, lastX, touch, client, events, faults>>

(* AbsPWaitForInput after its poll. *)
Signal ==
  /\ At("wait", "signal")
  /\ signalled' = (signalled \/ changed)
  /\ Goto("wait", "idle")
  /\ UNCHANGED <<panel, instance, touch, client, waitQueued, faults>>

-----------------------------------------------------------------------------
(* The client *)

(* A client calls, and goes on at the first step of the function. *)
Call(label) ==
  /\ \E t \in ClientTpls : MayCall(t) /\ clientTpl' = t
  /\ Goto("client", label)

(* CheckEvent or WaitForEvent on WaitForInput. *)
CheckEvent ==
  /\ \E t \in ClientTpls : MayCall(t)
  /\ signalled' = FALSE
  /\ waitQueued' = (waitQueued \/ ~signalled)
  /\ UNCHANGED <<panel, instance, pc, touch, client, faults>>

(* AbsPGetState; without StateChanged it returns EFI_NOT_READY. *)
GetState ==
  /\ Call("get_x")
  /\ changed
  /\ UNCHANGED <<panel, instance, touch, gotX, gotY, handed, events, faults>>

(* Mutant of GetX: StateChanged is cleared before the position is complete. *)
MutGetX ==
  /\ At("client", "get_x")
  /\ gotX' = lastX
  /\ changed' = FALSE
  /\ Goto("client", "get_y")
  /\ UNCHANGED <<clientTpl, panel, initialized, lastX, lastY, touch, gotY, handed, events, faults>>

GetX ==
  /\ At("client", "get_x")
  /\ gotX' = lastX
  /\ Goto("client", "get_y")
  /\ UNCHANGED <<clientTpl, panel, instance, touch, gotY, handed, events, faults>>

GetY ==
  /\ At("client", "get_y")
  /\ gotY' = lastY
  /\ Goto("client", "hand")
  /\ UNCHANGED <<clientTpl, panel, instance, touch, gotX, handed, events, faults>>

(* Mutant of HandOut: StateChanged is left set. *)
MutHandOut ==
  /\ At("client", "hand")
  /\ handed' = [x |-> gotX, y |-> gotY]
  /\ Goto("client", "idle")
  /\ UNCHANGED <<clientTpl, panel, instance, touch, gotX, gotY, events, faults>>

HandOut ==
  /\ At("client", "hand")
  /\ changed' = FALSE
  /\ handed' = [x |-> gotX, y |-> gotY]
  /\ Goto("client", "idle")
  /\ UNCHANGED <<clientTpl, panel, initialized, lastX, lastY, touch, gotX, gotY, events, faults>>

(* AbsPReset *)
Reset ==
  /\ Call("reset_x")
  /\ UNCHANGED <<panel, instance, touch, gotX, gotY, handed, events, faults>>

ResetX ==
  /\ At("client", "reset_x")
  /\ lastX' = NoPosition
  /\ Goto("client", "reset_y")
  /\ UNCHANGED <<panel, initialized, changed, lastY, touch, client, events, faults>>

ResetY ==
  /\ At("client", "reset_y")
  /\ lastY' = NoPosition
  /\ Goto("client", "reset_changed")
  /\ UNCHANGED <<panel, initialized, changed, lastX, touch, client, events, faults>>

(* Mutant of ResetChanged: StateChanged is left as it is. *)
MutResetChanged ==
  /\ At("client", "reset_changed")
  /\ Goto("client", "idle")
  /\ UNCHANGED <<panel, instance, touch, client, events, faults>>

ResetChanged ==
  /\ At("client", "reset_changed")
  /\ changed' = FALSE
  /\ Goto("client", "idle")
  /\ UNCHANGED <<panel, initialized, lastX, lastY, touch, client, events, faults>>

-----------------------------------------------------------------------------
Poll(c) ==
  \/ CheckLine(c) \/ ReadHeader(c) \/ PayloadOutOfSync(c)
  \/ TouchReport(c) \/ NoTouch(c) \/ OtherReport(c) \/ IdentifyReport(c)
  \/ StoreX(c) \/ StoreY(c) \/ Announce(c) \/ TurnX(c) \/ TurnY(c)

ClientStep == GetX \/ GetY \/ HandOut \/ ResetX \/ ResetY \/ ResetChanged

Next ==
  \/ \E kind \in Kinds : Send(kind)
  \/ PanelResets
  \/ BeginTimer \/ BeginWait \/ \E c \in Polls : Poll(c) \/ TransferFails(c)
  \/ Signal
  \/ CheckEvent \/ GetState \/ Reset \/ ClientStep

Spec == Init /\ [][Next]_vars

(***************************************************************************)
(* What runs goes on, and what was queued is dispatched.  The timer event  *)
(* stays queued while the TPL is too high, and is dispatched when the TPL  *)
(* has dropped often enough: strong fairness.  Nothing makes the panel     *)
(* send or the client call.                                                *)
(***************************************************************************)
Fairness ==
  /\ SF_vars(BeginTimer) /\ WF_vars(BeginWait) /\ WF_vars(Signal) /\ WF_vars(ClientStep)
  /\ \A c \in Polls : WF_vars(Poll(c))

FairSpec == Spec /\ Fairness

-----------------------------------------------------------------------------
(* Properties *)

PollLabels == {"idle", "line", "header", "payload", "store_x", "store_y", "announce",
               "turn_x", "turn_y"}

ClientLabels == {"idle", "get_x", "get_y", "hand", "reset_x", "reset_y", "reset_changed"}

Labels == PollLabels \union ClientLabels \union {"signal"}

(* Every variable has its type. *)
TypeOK ==
  /\ queue \in Seq([kind : Kinds, id : 1 .. MaxMessages])
  /\ reading \in BOOLEAN /\ sent \in 0 .. MaxMessages
  /\ initialized \in BOOLEAN /\ changed \in BOOLEAN
  /\ lastX \in Axis /\ lastY \in Axis /\ gotX \in Axis /\ gotY \in Axis
  /\ pc \in [Contexts -> Labels]
  /\ pc["client"] \in ClientLabels /\ pc["timer"] \in PollLabels
  /\ pc["wait"] \in PollLabels \union {"signal"}
  /\ touch \in [Polls -> 0 .. MaxMessages]
  /\ clientTpl \in ClientTpls
  /\ handed \in [x : Axis, y : Axis]
  /\ waitQueued \in BOOLEAN /\ signalled \in BOOLEAN
  /\ faults \in 0 .. MaxFaults

InSection(c) == pc[c] \in PollLabels \ {"idle", "line"}

(* "Enter critical section": the I2C transfers of a message and the update   *)
(* of the position are never done by two polls at a time.                    *)
CriticalSection == ~(InSection("timer") /\ InSection("wait"))

(* A client that calls at TPL_CALLBACK gets one touch, both axes of it, and  *)
(* the right way round.                                                      *)
HandedOutWhole ==
  [][(handed' # handed /\ clientTpl = TPL_CALLBACK) =>
       /\ handed'.x.touch = handed'.y.touch
       /\ handed'.x.touch # 0 =>
            handed'.x.turned = XInverted /\ handed'.y.turned = YInverted]_vars

(* ... and it makes the driver forget a touch that was announced only by     *)
(* taking it, or by a reset.                                                 *)
NoTouchForgotten ==
  [][(changed /\ ~changed' /\ clientTpl = TPL_CALLBACK) =>
       \/ handed' = [x |-> lastX, y |-> lastY]
       \/ pc["client"] = "reset_changed"]_vars

(* Whatever its TPL up to TPL_CALLBACK, each call of a client that returns a *)
(* position returns newer touches than the call before it did: no touch a    *)
(* second time, none older than what it had.  A torn position takes its y    *)
(* from the later touch.                                                     *)
HandedOutInOrder ==
  [][HandOut =>
       \/ 0 \in {handed'.x.touch, handed'.y.touch}
       \/ handed.y.touch < handed'.x.touch /\ handed'.x.touch <= handed'.y.touch]_vars

-----------------------------------------------------------------------------
(* The abstract specification: what a client at TPL_CALLBACK sees. *)

Storing == {"store_x", "store_y", "announce", "turn_x", "turn_y"}

InReset == pc["client"] \in {"reset_x", "reset_y", "reset_changed"}

(* The last message that is not in the queue any more. *)
Past == IF queue = <<>> THEN sent ELSE Head(queue).id - 1

(* The touch a poll has in hand; else the one that is stored and announced. *)
Offered ==
  LET inHand == {touch[c] : c \in {d \in Polls : pc[d] \in Storing}}
  IN  IF inHand # {} THEN inHand
      ELSE IF changed /\ ~InReset THEN {lastX.touch} ELSE {}

(* The touch both axes of a position are of, if they are the right way round. *)
TouchOf(position) ==
  LET x == position.x
      y == position.y
      upright == x.turned = XInverted /\ y.turned = YInverted
  IN  IF x.touch = y.touch /\ (x.touch # 0 => upright) THEN {x.touch} ELSE {}

ClientCall ==
  IF InReset THEN "reset" ELSE IF pc["client"] = "idle" THEN "none" ELSE "get"

Pointer == INSTANCE AbsolutePointer WITH
  past <- Past, offered <- Offered, taken <- TouchOf(handed), call <- ClientCall

(* With clients at TPL_CALLBACK only, the messages, the two polls, the        *)
(* position that is stored axis by axis and turned after it was announced,    *)
(* and calls of many steps implement AbsolutePointer: every touch waits for   *)
(* the client until it is taken whole, replaced by a newer one or reset, and  *)
(* none comes back.                                                           *)
ImplementsPointer == Pointer!Spec

-----------------------------------------------------------------------------
(* As long as the controller is initialised the panel is served, so that its *)
(* interrupt line does not stay low.                                         *)
LineServed == (queue # <<>>) ~> (queue = <<>> \/ ~initialized)

=============================================================================

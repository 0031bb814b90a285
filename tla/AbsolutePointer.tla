--------------------------- MODULE AbsolutePointer ---------------------------
(***************************************************************************)
(* What a touch driver promises a client of its AbsolutePointerProtocol: a *)
(* place for one touch.  A touch is the number of the panel's message that *)
(* reported it.  A newer one takes the place of one that waits, GetState   *)
(* takes it away as it is, and Reset empties the place.                    *)
(*                                                                         *)
(* Each of the two calls is one step here.  A touch is offered as soon as  *)
(* its message is read, never later: so it is offered once, and is newer   *)
(* than all that were offered, taken or thrown away before it.             *)
(***************************************************************************)
EXTENDS Naturals

VARIABLES
  past,     \* the messages up to this one have been read, or were lost
  offered,  \* the touch that waits for the client: at most one
  taken,    \* the touch GetState returned last
  call      \* the call the client is in

vars == <<past, offered, taken, call>>

NoTouch == 0

Init ==
  /\ past = 0
  /\ offered = {}
  /\ taken = {NoTouch}
  /\ call = "none"

Pass == past' \in Nat /\ past <= past'

(* Messages without a touch; the panel may send them at any time. *)
Skip ==
  /\ Pass
  /\ UNCHANGED <<offered, taken, call>>

(* A message with a touch, or one for which the driver takes what its stack *)
(* holds (NoTouch).  The client is not in a call.                           *)
Offer(n) ==
  /\ call = "none"
  /\ Pass
  /\ n # NoTouch => past < n /\ n <= past'
  /\ offered' = {n}
  /\ UNCHANGED <<taken, call>>

(* A call of GetState that finds a touch, and its end. *)
GetState ==
  /\ call = "none"
  /\ offered # {}
  /\ call' = "get"
  /\ UNCHANGED <<past, offered, taken>>

Take ==
  /\ call = "get"
  /\ taken' = offered
  /\ offered' = {}
  /\ call' = "none"
  /\ UNCHANGED past

Reset ==
  /\ call = "none"
  /\ offered' = {}
  /\ call' = "reset"
  /\ UNCHANGED <<past, taken>>

ResetEnds ==
  /\ call = "reset"
  /\ call' = "none"
  /\ UNCHANGED <<past, offered, taken>>

Next ==
  \/ Skip \/ \E n \in 0 .. past' : Offer(n)
  \/ GetState \/ Take \/ Reset \/ ResetEnds

Spec == Init /\ [][Next]_vars

=============================================================================

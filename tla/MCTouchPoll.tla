---------------------------- MODULE MCTouchPoll ----------------------------
(***************************************************************************)
(* TouchPoll with few messages and clients at each level.                  *)
(***************************************************************************)
EXTENDS TouchPoll

AllMessages == {"touch", "lift", "bad", "identify", "other"}

UpToCallback == {TPL_APPLICATION, TPL_CALLBACK}

CallbackOnly == {TPL_CALLBACK}

=============================================================================

---------------------------- MODULE MCBootManager ----------------------------
(* Instances of BootManager for TLC. *)
EXTENDS BootManager

CapsuleLists == {<<>>, <<"good">>, <<"good", "bad">>, <<"bad", "good">>, <<"good", "good">>}

=============================================================================

--------------------------- MODULE MCTouchBinding ---------------------------
(***************************************************************************)
(* TouchBinding with a few controllers: F12 in the first or a later page,  *)
(* none at all, more functions than the driver looks at, and no page that  *)
(* is the last one.                                                        *)
(***************************************************************************)
EXTENDS TouchBinding

BothDrivers == {"tcm", "rmi4"}
Rmi4Only == {"rmi4"}

FewPdts == {<<>>, <<<<"other", "F12">>>>, <<<<"other">>, <<"F12">>>>,
            <<<<"other", "other", "other", "F12">>>>,
            <<<<"other">>, <<"other">>, <<"other">>>>}

=============================================================================

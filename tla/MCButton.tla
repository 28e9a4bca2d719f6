------------------------------- MODULE MCButton -------------------------------
(***************************************************************************)
(* Instance of Button for TLC: the devices and builds of one behaviour.    *)
(***************************************************************************)
EXTENDS Button

Device3(p, c, s) == [poti |-> p, connected |-> c, stale |-> s]

(* The button of the Visual C++ debug build, whose stack is filled with    *)
(* non-digits; the poti of the Cygwin debug build, whose stack is not; a   *)
(* poti without a test tool or in a build without _DEBUG.                  *)
AllConfigs == {Device3(FALSE, TRUE, FALSE), Device3(TRUE, TRUE, TRUE),
               Device3(TRUE, FALSE, FALSE)}
=============================================================================

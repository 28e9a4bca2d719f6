----------------------------- MODULE MCDebugServer -----------------------------
(***************************************************************************)
(* Instances of DebugServer for TLC.                                       *)
(***************************************************************************)
EXTENDS DebugServer

CONSTANTS p1, p2, p3, l1, l2

(* Both platforms; on Windows also a thread that outlives the sequence     *)
(* thread.                                                                 *)
AllBuilds == [win : BOOLEAN, late : {{}}] \cup [win : {TRUE}, late : {{l1}}]

(* The thread that may stay writes two lines.                              *)
TwoLinesAndOne == [t \in {l1, l2} |-> IF t = l1 THEN 2 ELSE 1]

OneLine == [t \in {l1} |-> 1]

Windows == [win : {TRUE}, late : {{}}]
=============================================================================

------------------------------ MODULE MCPortWriter ------------------------------
(***************************************************************************)
(* Instances of PortWriter for TLC.                                        *)
(***************************************************************************)
EXTENDS PortWriter

CONSTANTS f1, f2

(* Both classes on both platforms.                                         *)
AllBuilds == [ftdi : BOOLEAN, win : BOOLEAN]
=============================================================================

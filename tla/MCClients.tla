------------------------------- MODULE MCClients -------------------------------
(***************************************************************************)
(* Instances of Clients for TLC, with eight DMX channels.                  *)
(***************************************************************************)
EXTENDS Clients

CONSTANTS s1, s2

(* A lamp that only has its last three channels; one that only has its     *)
(* first two, beside one that has all.                                     *)
SomeAddresses == {<<0>>, <<7, 1>>}

Scene(m, b, k) ==
  [op |-> "scene", pmode |-> m, brightness |-> b, cct |-> k, rgb |-> <<1, 2, 3>>,
   xy |-> <<3330, 3330>>, fadetime |-> 100]

(* The setters, with the values a light passes on, and scenes of every     *)
(* mode; PILEDScene takes colour temperatures from 2001 to 9999.           *)
SomeCalls ==
  {[op |-> "brightness", brightness |-> 125], [op |-> "cct", cct |-> 6270],
   [op |-> "rgb", rgb |-> <<255, 7, 0>>], [op |-> "xy", xy |-> <<1000, 5000>>],
   Scene("BRIGHTNESS", 200, 3000), Scene("CCT", 125, 9000), Scene("XY", 200, 3000),
   Scene("RGB", 255, 3000)}

(* One sender sets the colour temperature, the other may call anything.    *)
CallsOf == [s \in {s1, s2} |->
              IF s = s1 THEN SomeCalls
              ELSE {c \in SomeCalls : c.op = "cct"}]

(* A third call that meets another is not followed.                        *)
ThirdAlone == calls < 3 \/ quiet
=============================================================================

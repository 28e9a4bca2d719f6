----------------------------- MODULE MCControlBox -----------------------------
(***************************************************************************)
(* Instances of ControlBox for TLC.                                        *)
(***************************************************************************)
EXTENDS ControlBox

CONSTANTS b1, p1, h1, h2

Box(bs, ps, sil, known, light, posix) ==
  [buttons |-> bs, potis |-> ps, silent |-> sil, known |-> known, light |-> light,
   interface |-> TRUE, posix |-> posix]

One(d) == << <<d, TRUE>> >>

(* A button and a poti, on either platform, with and without a silent test *)
(* tool; a box without a light; an unknown box; a list whose first entry   *)
(* has no id.                                                              *)
AllConfigs ==
  {Box(One(b1), One(p1), sil, TRUE, TRUE, posix) :
     sil \in {{}, {b1}}, posix \in BOOLEAN}
    \cup {Box(One(b1), <<>>, {}, TRUE, FALSE, FALSE),
          Box(One(b1), One(p1), {}, FALSE, TRUE, FALSE),
          Box(<< <<p1, FALSE>>, <<b1, TRUE>> >>, <<>>, {}, TRUE, TRUE, FALSE)}

(* One button, its own handler thread.                                     *)
Plain == {Box(One(b1), <<>>, {}, TRUE, TRUE, FALSE)}
=============================================================================

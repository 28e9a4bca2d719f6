------------------------------ MODULE PILEDScene ------------------------------
(***************************************************************************)
(* A scene of a light sequence in the settings file.  One object is filled *)
(* from entry after entry, so what an entry leaves out stays as the entry  *)
(* before left it.                                                         *)
(*                                                                         *)
(* Coordinates are counted in thousandths.  The fields are unsigned in the *)
(* code: a negative number here stands for the large one it wraps to.  On  *)
(* WIN32 a text without a number throws, and getData ends at that place.   *)
(***************************************************************************)
EXTENDS Settings

CONSTANTS SceneNumbers  \* the entries that are asked for

VARIABLES
  scene,   \* the object
  sceneAt  \* the entry it was filled from, -1 if the last getData returned false

sceneVars == <<scene, sceneAt>>

xNodeName == Chars("PILEDScene")

StandardScene ==
  [pmode |-> "NONE", nr |-> 0, brightness |-> 255, cct |-> 3000,
   red |-> 0, green |-> 0, blue |-> 0, x |-> 333, y |-> 333,
   fadetime |-> 100, waittime |-> 3000, waitOnKeypress |-> FALSE]

-----------------------------------------------------------------------------
(* Conversions.                                                            *)

(* n % 256 with the sign of n.                                             *)
Byte(n) == IF n < 0 THEN 0 - ((0 - n) % 256) ELSE n % 256

(* A number with a digit before the point and up to three decimals, in     *)
(* thousandths.                                                            *)
Thousandths(text) ==
  LET k == SelectInSeq(text, LAMBDA c : c = ".")
      decimals == Leading(SubSeq(text, k + 1, Len(text)))
      padded == SubSeq(decimals \o Chars("000"), 1, 3)
  IN  IF k = 0 THEN 1000 * Number(text)
      ELSE 1000 * Number(SubSeq(text, 1, k - 1)) + xmltoi(padded)

Converted(field, text) ==
  CASE field \in {"x", "y"} -> Thousandths(text)
    [] field \in {"brightness", "red", "green", "blue"} -> Byte(Number(text))
    [] OTHER -> Number(text)

(* What a field may get of a text; nothing when the conversion throws.     *)
Given(field, text) ==
  LET t == trimText(text)
  IN  IF IsNumber(t) THEN {Converted(field, t)}
      ELSE IF platform = "WIN32" THEN {}
      ELSE IF t = <<>> THEN Junk
      ELSE {0}

stob(text) == Upper(text) \in {Chars("TRUE"), Chars("1")}

-----------------------------------------------------------------------------
(* getData, one attribute after the other.  A run is the scene so far and  *)
(* whether a conversion threw.                                             *)

AttributeNames ==
  <<"nr", "brightness", "cct", "xy", "rgb", "fadetime", "waittime", "waitkeypress">>

FieldsOf(name) ==
  CASE name = "xy" -> <<"x", "y">>
    [] name = "rgb" -> <<"red", "green", "blue">>
    [] OTHER -> <<name>>

PartsOf(name, text) == IF name \in {"xy", "rgb"} THEN split(text, ",") ELSE <<text>>

Assign(r, field, text) ==
  IF r.threw THEN {r}
  ELSE IF Given(field, text) = {} THEN {[r EXCEPT !.threw = TRUE]}
  ELSE {[r EXCEPT !.scene[field] = n] : n \in Given(field, text)}

AssignAll(r, fields, flds) ==
  FoldLeft(LAMBDA S, k : UNION {Assign(q, fields[k], flds[k]) : q \in S},
           {r}, [k \in DOMAIN fields |-> k])

(* The mode after an attribute of this name.                               *)
ModeAfter(s, name) ==
  CASE name = "brightness" -> "BRIGHTNESS"
    [] name = "cct" /\ s.cct \in 2001..9999 -> "CCT"
    [] name = "xy" /\ {s.x, s.y} \subseteq 1..999 -> "XY"
    [] name = "rgb" /\ {s.red, s.green, s.blue} \subseteq 0..255 -> "RGB"
    [] OTHER -> s.pmode

SetMode(r, name) ==
  IF r.threw THEN r ELSE [r EXCEPT !.scene.pmode = ModeAfter(r.scene, name)]

(* getAttribute: an attribute without a text counts as missing.            *)
textsOf(x, name) == getAttribute(x, Chars(name)) \ {<<>>}

SetWaitOnKeypress(r, texts) ==
  IF r.threw THEN r
  ELSE [r EXCEPT !.scene.waitOnKeypress = \E t \in texts : stob(t)]

(* A text with the wrong number of parts changes nothing.                  *)
SetFields(r, name, text) ==
  LET fields == FieldsOf(name)
      flds == PartsOf(name, text)
  IN  IF Len(flds) # Len(fields) THEN {r}
      ELSE {SetMode(q, name) : q \in AssignAll(r, fields, flds)}

SetAttribute(r, x, name) ==
  LET texts == textsOf(x, name)
  IN  IF name = "waitkeypress" THEN {SetWaitOnKeypress(r, texts)}
      ELSE IF texts = {} THEN {r}
      ELSE UNION {SetFields(r, name, t) : t \in texts}

(* A slip: the mode of the entry before stays.                             *)
StartedKeepMode(s) == {[scene |-> s, threw |-> FALSE]}

Started(s) == {[scene |-> [s EXCEPT !.pmode = "NONE"], threw |-> FALSE]}

Filled(x, s) ==
  FoldLeft(LAMBDA S, name : UNION {SetAttribute(r, x, name) : r \in S},
           Started(s), AttributeNames)

(* getData(xSequenceNode, j); the sequence is the section named section.   *)
getData(section, j) ==
  LET x == getNthChildNode(getChildNode(xMainNode, section), xNodeName, j)
  IN  /\ stage = "ready" /\ ~crashed
      /\ IF x = NoNode
           THEN /\ scene' \in {r.scene : r \in Started(scene)}
                /\ sceneAt' = -1
         ELSE \E r \in Filled(x, scene) :
                /\ scene' = r.scene
                /\ sceneAt' = IF r.threw THEN -1 ELSE j
      /\ UNCHANGED <<domVars, settingsVars>>

SceneInit == scene = StandardScene /\ sceneAt = -1

-----------------------------------------------------------------------------
(* Properties.                                                             *)

Shown(s) ==
  CASE s.pmode = "BRIGHTNESS" -> s.brightness
    [] s.pmode = "CCT" -> s.cct
    [] s.pmode = "XY" -> <<s.x, s.y>>
    [] s.pmode = "RGB" -> <<s.red, s.green, s.blue>>
    [] OTHER -> 0

(* A scene shows what its entry says, mode and value, and nothing that an  *)
(* entry read before has left in the object; of several legal attributes   *)
(* the last in the order of getData counts (PILEDScene::getData).  Exempt  *)
(* are entries of mode "UNCLEAR": numbers that are none, are negative or   *)
(* do not fit.                                                             *)
SceneSaysEntry ==
  sceneAt # -1 /\ Document.known =>
    /\ sceneAt < Len(Document.scenes)
    /\ LET entry == Document.scenes[sceneAt + 1]
       IN  entry.pmode # "UNCLEAR" =>
             scene.pmode = entry.pmode /\ Shown(scene) = entry.value
=============================================================================

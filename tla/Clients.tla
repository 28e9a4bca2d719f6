------------------------------- MODULE Clients -------------------------------
(***************************************************************************)
(* The DMX and the ZLL client of a light, which device threads call one    *)
(* after the other and without a lock: the setters, updateData with its    *)
(* frames and their checksum.  (The DALI client's setters are empty.)      *)
(*                                                                         *)
(* A call is the sequence of its stores; a sender does them one by one, so *)
(* those of two senders interleave.  ToByteArray is one step: updateData   *)
(* has no caller in the program yet.  Ports are in PortWriter; here only   *)
(* what they are given matters.                                            *)
(***************************************************************************)
EXTENDS Integers, Sequences

CONSTANTS
  Senders,
  Top,        \* the last DMX channel, 512
  Header,     \* bytes before the channels in an Art-Net packet, 18
  Addresses,  \* the lists of start addresses settings.xml may give
  Calls,      \* what each sender may call
  MaxCalls    \* bound: calls by all senders

(* The setters of IBaseClient, which the light calls, and updateData.      *)
CallKinds ==
  [op : {"brightness"}, brightness : Nat] \cup [op : {"cct"}, cct : Nat]
    \cup [op : {"rgb"}, rgb : [1..3 -> Nat]] \cup [op : {"xy"}, xy : [1..2 -> Nat]]
    \cup [op : {"fade"}, fadetime : Nat]
    \cup [op : {"scene"}, pmode : {"NONE", "BRIGHTNESS", "XY", "RGB", "CCT"},
          brightness : Nat, cct : Nat, rgb : [1..3 -> Nat], xy : [1..2 -> Nat],
          fadetime : Nat]

ASSUME ClientsAssumption ==
  /\ Top \in Nat \ {0} /\ Header \in Nat \ {0} /\ MaxCalls \in Nat
  /\ Addresses \subseteq Seq(Int)
  /\ \A s \in Senders : Calls[s] \subseteq CallKinds

VARIABLES
  StartAddresses,
  buffer, artNetData,   \* DMXClient: the frame for the port, the packet for the network
  data, byArrBuffer,    \* ZLLClient: its fields, its frame
  given,                \* the clients that have handed their frame on
  todo,                 \* each sender: the rest of its call
  calls,
  last, quiet,          \* history: the call begun last, if it met no other
  raced,                \* history: channels two senders stored to at once
  fault                 \* history: memory written outside an object

dmxVars == <<buffer, artNetData>>
zllVars == <<data, byArrBuffer>>
histVars == <<last, quiet, raced, fault>>
vars == <<StartAddresses, dmxVars, zllVars, given, todo, calls, histVars>>

Byte(v) == v % 256

(* Division as C does it, towards zero.                                    *)
Trunc(a, b) == IF a >= 0 THEN a \div b ELSE -((-a) \div b)

-----------------------------------------------------------------------------
(* The ZLL frame: 30 bytes, checksum in byte 28.                           *)

(* Element size - i: the low byte goes past the end of the vector, element *)
(* 0 keeps its 0.                                                          *)
intToBytes(n) == <<0, (n % 65536) \div 256>>

Bit(n, i) == (n \div <<1, 2, 4, 8, 16, 32, 64, 128>>[i + 1]) % 2

(* n ^ 0x8C for n < 128.                                                   *)
XorPoly(n) == n + 128 + (4 - 8 * Bit(n, 2)) + (8 - 16 * Bit(n, 3))

(* One turn of calcCRC's inner loop, with the bit it takes from the byte.  *)
ShiftIn ==
  [crc8 \in 0..255 |->
     [b \in 0..1 |-> IF crc8 % 2 # b THEN XorPoly(crc8 \div 2) ELSE crc8 \div 2]]

Crc8(bytes) ==
  LET crc8[n \in 0..(8 * Len(bytes))] ==
        IF n = 0 THEN 0
        ELSE ShiftIn[crc8[n - 1]][Bit(bytes[(n - 1) \div 8 + 1], (n - 1) % 8)]
  IN crc8[8 * Len(bytes)]

(* Bytes 4 to 23, counted from 0.                                          *)
Covered(frame) == SubSeq(frame, 5, 24)

(* xy is in 1/10000.                                                       *)
Chromaticity(v) == (65536 * v) \div 10000

ToByteArray(d) ==
  LET body == <<2, d.byCmd, 0, 1, Byte(d.brightness)>> \o intToBytes(d.fadetime \div 100)
                \o intToBytes(Chromaticity(d.ciex)) \o intToBytes(Chromaticity(d.ciey))
                \o intToBytes(d.cct) \o <<d.byR, d.byG, d.byB>> \o [i \in 1..12 |-> 0]
  IN body \o <<Crc8(Covered(body)), 3>>

SET_BRIGHTNESS == 1
SET_XY == 2
SET_CCT == 3
SET_RGB == 4

Init ==
  /\ StartAddresses \in Addresses
  /\ buffer = [ch \in 0..Top |-> 0]
  /\ artNetData = [i \in 0..(Header + Top - 1) |-> 0]     \* the header's text is left out
  /\ data = [byCmd |-> 0, brightness |-> 0, fadetime |-> 0, ciex |-> 0, ciey |-> 0,
             cct |-> 2700, byR |-> 0, byG |-> 0, byB |-> 0]
  /\ byArrBuffer = <<>>                                   \* not initialised, not sent
  /\ given = {} /\ todo = [s \in Senders |-> <<>>] /\ calls = 0
  /\ last = [op |-> "none"] /\ quiet = FALSE /\ raced = {} /\ fault = {}

-----------------------------------------------------------------------------
(* The stores a call is made of.                                           *)

ToBuffer(ch, v) == [kind |-> "buffer", channel |-> ch, val |-> Byte(v)]
ToPacketLate(store) ==   \* a slip: the packet's channels are counted from 1
  [store EXCEPT !.kind = "packet", !.channel = @ + 1]
ToPacket(store) == [store EXCEPT !.kind = "packet"]
ToData(f, v) == [kind |-> "data", field |-> f, val |-> v]
Encode == [kind |-> "encode"]
Hand(client) == [kind |-> "hand", to |-> client]
HandAgain(b) == [kind |-> "again", val |-> b]

InUniverseOrStart(ch) == ch >= 0 /\ ch <= Top   \* a slip: channel 0 is the start code
InUniverse(ch) == ch >= 1 /\ ch <= Top

(* One turn of the loop per lamp.                                          *)
setDMXValue(offset, v) ==
  [i \in 1..Len(StartAddresses) |-> ToBuffer(StartAddresses[i] + offset, v)]

CCT_MODE == 1
RGB_MODE == 101
XY_MODE == 201

DmxCct(k) == Trunc((k - 2700) * 255, 3800)
DmxX(x) == Trunc((x - 1700) * 10, 188)
DmxY(y) == Trunc((y - 800) * 10, 153)

DmxBrightness(b) == setDMXValue(1, b)
DmxSetCct(k) == setDMXValue(0, CCT_MODE) \o setDMXValue(2, DmxCct(k))
DmxRgbModeless(rgb) ==   \* a slip: the lamp is left in the mode it was in
  setDMXValue(1, rgb[1]) \o setDMXValue(2, rgb[2]) \o setDMXValue(3, rgb[3])
DmxRgb(rgb) ==
  setDMXValue(0, RGB_MODE) \o setDMXValue(1, rgb[1]) \o setDMXValue(2, rgb[2])
    \o setDMXValue(3, rgb[3])
DmxXy(xy) ==
  setDMXValue(0, XY_MODE) \o setDMXValue(2, DmxX(xy[1])) \o setDMXValue(3, DmxY(xy[2]))

ZllBrightness(b) == <<ToData("byCmd", SET_BRIGHTNESS), ToData("brightness", b)>>
ZllSetCct(k) == <<ToData("byCmd", SET_CCT), ToData("cct", k)>>
ZllRgb(rgb) == <<ToData("byCmd", SET_RGB), ToData("byR", Byte(rgb[1])),
                 ToData("byG", Byte(rgb[2])), ToData("byB", Byte(rgb[3]))>>
ZllXy(xy) == <<ToData("byCmd", SET_XY), ToData("ciex", xy[1]), ToData("ciey", xy[2])>>
ZllFade(t) == <<ToData("fadetime", t)>>

(* DMXClient::updateData, which knows no mode BRIGHTNESS.                  *)
DmxUpdate(scene) ==
  (CASE scene.pmode = "XY"  -> DmxXy(scene.xy) \o DmxBrightness(scene.brightness)
     [] scene.pmode = "RGB" -> DmxRgb(scene.rgb)
     [] scene.pmode = "CCT" -> DmxSetCct(scene.cct) \o DmxBrightness(scene.brightness)
     [] OTHER -> <<>>)
    \o <<Hand("dmx")>>

AgainNever(scene) == <<>>   \* a slip: the brightness is not sent after the colour
Again(scene) == IF scene.pmode \in {"XY", "CCT"} THEN <<HandAgain(scene.brightness)>> ELSE <<>>

ZllUpdate(scene) ==
  ZllFade(scene.fadetime)
    \o (CASE scene.pmode = "BRIGHTNESS" -> ZllBrightness(scene.brightness)
          [] scene.pmode = "XY"  -> ZllXy(scene.xy)
          [] scene.pmode = "RGB" -> ZllRgb(scene.rgb)
          [] scene.pmode = "CCT" -> ZllSetCct(scene.cct)
          [] OTHER -> <<>>)
    \o <<Encode, Hand("zll")>> \o Again(scene)

(* The light's walk: DMX is registered first.                              *)
Stores(call) ==
  CASE call.op = "brightness" -> DmxBrightness(call.brightness) \o ZllBrightness(call.brightness)
    [] call.op = "cct"   -> DmxSetCct(call.cct) \o ZllSetCct(call.cct)
    [] call.op = "rgb"   -> DmxRgb(call.rgb) \o ZllRgb(call.rgb)
    [] call.op = "xy"    -> DmxXy(call.xy) \o ZllXy(call.xy)
    [] call.op = "fade"  -> ZllFade(call.fadetime)
    [] call.op = "scene" -> DmxUpdate(call) \o ZllUpdate(call)

-----------------------------------------------------------------------------
(* The senders.                                                            *)

Idle(s) == todo[s] = <<>>

Begin(s, call) ==
  /\ Idle(s) /\ calls < MaxCalls
  /\ todo' = [todo EXCEPT ![s] = Stores(call)]
  /\ calls' = calls + 1
  /\ last' = call
  /\ quiet' = (\A u \in Senders : Idle(u))
  /\ UNCHANGED <<StartAddresses, dmxVars, zllVars, given, raced, fault>>

Next1(s, kind) == ~Idle(s) /\ Head(todo[s]).kind = kind
Done(s) == todo' = [todo EXCEPT ![s] = Tail(@)]

(* Another sender is between its two stores to the channel.                *)
HalfStored(s, ch) ==
  \E u \in Senders \ {s} : Next1(u, "packet") /\ Head(todo[u]).channel = ch

(* A turn without a channel in the universe stores nothing; every other    *)
(* turn goes on to the packet.                                             *)
SkipLamp(s) ==
  /\ Next1(s, "buffer") /\ ~InUniverse(Head(todo[s]).channel)
  /\ Done(s)
  /\ UNCHANGED <<StartAddresses, dmxVars, zllVars, given, calls, histVars>>

StoreBuffer(s) ==
  /\ Next1(s, "buffer")
  /\ LET d == Head(todo[s]) IN
       /\ InUniverse(d.channel)
       /\ buffer' = [buffer EXCEPT ![d.channel] = d.val]
       /\ raced' = IF HalfStored(s, d.channel) THEN raced \cup {d.channel} ELSE raced
       /\ todo' = [todo EXCEPT ![s] = <<ToPacket(d)>> \o Tail(@)]
  /\ UNCHANGED <<StartAddresses, artNetData, zllVars, given, calls, last, quiet, fault>>

StorePacket(s) ==
  /\ Next1(s, "packet")
  /\ LET d == Head(todo[s]) IN
       artNetData' = [artNetData EXCEPT ![Header + d.channel - 1] = d.val]
  /\ Done(s)
  /\ UNCHANGED <<StartAddresses, buffer, zllVars, given, calls, histVars>>

StoreData(s) ==
  /\ Next1(s, "data")
  /\ LET d == Head(todo[s]) IN data' = [data EXCEPT ![d.field] = d.val]
  /\ Done(s)
  /\ UNCHANGED <<StartAddresses, dmxVars, byArrBuffer, given, calls, histVars>>

(* intToBytes writes one byte past its vector each time.                   *)
EncodeFrame(s) ==
  /\ Next1(s, "encode")
  /\ byArrBuffer' = ToByteArray(data)
  /\ fault' = fault \cup {"intToBytes"}
  /\ Done(s)
  /\ UNCHANGED <<StartAddresses, dmxVars, data, given, calls, last, quiet, raced>>

(* SendUDP and SendUSB: the ports get the frame's address.                 *)
HandFrame(s) ==
  /\ Next1(s, "hand")
  /\ given' = given \cup {Head(todo[s]).to}
  /\ Done(s)
  /\ UNCHANGED <<StartAddresses, dmxVars, zllVars, calls, histVars>>

(* The colour is followed by the brightness if that is new.                *)
HandNewBrightness(s) ==
  /\ Next1(s, "again")
  /\ LET b == Head(todo[s]).val IN
       todo' = [todo EXCEPT ![s] =
                  IF b # data.brightness
                  THEN ZllBrightness(b) \o <<Encode, Hand("zll")>> ELSE <<>>]
  /\ UNCHANGED <<StartAddresses, dmxVars, zllVars, given, calls, histVars>>

Step(s) ==
  SkipLamp(s) \/ StoreBuffer(s) \/ StorePacket(s) \/ StoreData(s) \/ EncodeFrame(s) \/ HandFrame(s)
    \/ HandNewBrightness(s)

Next == \E s \in Senders : Step(s) \/ \E call \in Calls[s] : Begin(s, call)

Spec == Init /\ [][Next]_vars

-----------------------------------------------------------------------------
Bytes == 0..255

(* Wherever the lamps' addresses lie, the DMX start code (DMXClient.h:20)  *)
(* and the Art-Net header stay as they were.                               *)
StartCodeIntact == buffer[0] = 0 /\ \A i \in 0..(Header - 1) : artNetData[i] = 0

(* Both clients' buffers keep their shape, their bytes and, in the DMX     *)
(* client, what stands before the first channel (setDMXValue,              *)
(* ToByteArray).                                                           *)
TypeInv ==
  /\ StartCodeIntact
  /\ StartAddresses \in Addresses
  /\ buffer \in [0..Top -> Bytes]
  /\ artNetData \in [0..(Header + Top - 1) -> Bytes]
  /\ data.byCmd \in 0..4
  /\ data.byR \in Bytes /\ data.byG \in Bytes /\ data.byB \in Bytes
  /\ Len(byArrBuffer) \in {0, 30}
  /\ \A i \in 1..Len(byArrBuffer) : byArrBuffer[i] \in Bytes
  /\ given \subseteq {"dmx", "zll"}
  /\ calls \in 0..MaxCalls /\ quiet \in BOOLEAN /\ raced \subseteq 1..Top
  /\ fault \subseteq {"intToBytes"}

(* Port and network are given the same channels, unless two senders stored *)
(* to a channel at once.                                                   *)
MirrorUnlessRaced ==
  \A ch \in (1..Top) \ raced :
    \/ artNetData[Header + ch - 1] = buffer[ch]
    \/ \E s \in Senders : Next1(s, "packet") /\ Head(todo[s]).channel = ch

Rest == \A s \in Senders : Idle(s)

(* A lamp all of whose channels exist and are its own.                     *)
Channels(i) == StartAddresses[i]..(StartAddresses[i] + 3)
Whole(i) == /\ Channels(i) \subseteq 1..Top
            /\ \A j \in 1..Len(StartAddresses) \ {i} : Channels(i) \cap Channels(j) = {}
Lamps == {i \in 1..Len(StartAddresses) : Whole(i)}

Shows(i, offset, v) == buffer[StartAddresses[i] + offset] = Byte(v)

TellsBoth ==
  \/ last.op \in {"brightness", "cct", "rgb", "xy"}
  \/ last.op = "scene" /\ last.pmode \in {"CCT", "XY", "RGB"}

(* After a call that met no other, every DMX lamp shows what the ZLL       *)
(* client's last command says.  (A scene of mode BRIGHTNESS reaches the    *)
(* ZLL client only.)                                                       *)
ClientsAgree ==
  Rest /\ quiet /\ TellsBoth =>
    \A i \in Lamps :
      /\ data.byCmd = SET_BRIGHTNESS => Shows(i, 1, data.brightness)
      /\ data.byCmd = SET_CCT => Shows(i, 0, CCT_MODE) /\ Shows(i, 2, DmxCct(data.cct))
      /\ data.byCmd = SET_RGB => /\ Shows(i, 0, RGB_MODE) /\ Shows(i, 1, data.byR)
                                 /\ Shows(i, 2, data.byG) /\ Shows(i, 3, data.byB)
      /\ data.byCmd = SET_XY => /\ Shows(i, 0, XY_MODE) /\ Shows(i, 2, DmxX(data.ciex))
                                /\ Shows(i, 3, DmxY(data.ciey))

(* A scene with a colour that met no other call ends with its brightness in*)
(* the ZLL frame and on every DMX lamp, whether the client had it before   *)
(* or not, and both clients have handed their frames on.                   *)
SceneBrightness ==
  Rest /\ quiet /\ last.op = "scene" =>
    /\ given = {"dmx", "zll"}
    /\ last.pmode \in {"CCT", "XY"} =>
         /\ byArrBuffer[5] = Byte(last.brightness)
         /\ \A i \in Lamps : Shows(i, 1, last.brightness)
=============================================================================

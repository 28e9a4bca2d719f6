------------------------------- MODULE PILight -------------------------------
(***************************************************************************)
(* The light of the control box (src/00_LightLifeBox/PILight.cpp) and the  *)
(* client registers it broadcasts to.  Every button and poti has a thread  *)
(* of its own and all of them call the one light through                   *)
(* ControlBox::notify, so several setter calls may be in progress at once. *)
(* PILight holds no lock: a setter stores the member, then walks ComClients*)
(* by index and re-reads the member for every client.                      *)
(*                                                                         *)
(* One step per access to shared state: Store writes the member, Load reads*)
(* the size, the element and the member, Deliver is the client's setter.   *)
(***************************************************************************)
EXTENDS Integers, Sequences

CONSTANTS
  Senders,      \* the threads that call the light
  Clients,      \* the communication clients (DMX, ZLL, DALI)
  Calls,        \* the calls a sender may make: a set of CallType records
  DefaultFlds,  \* the numbers in the light's "Default" setting, in file order
  EraseWorks,   \* removeComClient erases (only #ifdef WIN32)
  NoValue       \* content of a client register nothing was delivered to

Attr == {"brightness", "cct", "fadetime", "rgb", "xy"}

CallType == [op : {"set", "upDown", "resetDefault"}, attr : Attr, val : Int]

ASSUME CallsAssumption ==
  /\ Calls \subseteq CallType
  /\ \A c \in Calls : c.op = "set" => c.val \in Nat         \* unsigned int
  /\ \A c \in Calls : c.op = "upDown" => c.attr \in {"brightness", "cct", "rgb"}
ASSUME DefaultAssumption == DefaultFlds \in Seq(Nat)
ASSUME EraseAssumption == EraseWorks \in BOOLEAN
ASSUME NoValueAssumption == NoValue \notin Int

(* The constructor reads field 0 into the brightness, field 1 into the     *)
(* colour temperature, and keeps 255 and 2700 when there are fewer fields. *)
DefaultBrightness == IF Len(DefaultFlds) >= 2 THEN DefaultFlds[1] ELSE 255
DefaultCct        == IF Len(DefaultFlds) >= 2 THEN DefaultFlds[2] ELSE 2700

VARIABLES
  light,        \* the members brightness, cct, fadetime, rgb (one channel), xy
  ComClients,   \* the registered clients, in order
  client,       \* client[c][a]: what client c was last told of attribute a
  pc,           \* where each sender's call is
  op, attr, val,\* the call a sender is making and the setter it is in
  idx, tgt, arg,\* the loop's i, ComClients[i] and the argument read for it
  solo,         \* history: the setter has overlapped no other on its attribute
  synced        \* history: the last setter of the attribute was solo

call == <<op, attr, val>>
loop == <<idx, tgt, arg>>
ghosts == <<solo, synced>>
vars == <<light, ComClients, client, pc, call, loop, ghosts>>

IndexFromZero == 0       \* a slip: the loop's index counted from 0
FirstIndex == 1
Init ==
  /\ light = [a \in Attr |-> CASE a = "brightness" -> 255
                               [] a = "cct" -> 2700
                               [] OTHER -> 0]
  /\ ComClients = <<>>
  /\ client = [c \in Clients |-> [a \in Attr |-> NoValue]]
  /\ pc = [s \in Senders |-> "idle"]
  /\ op = [s \in Senders |-> "set"]
  /\ attr = [s \in Senders |-> "brightness"]
  /\ val = [s \in Senders |-> 0]
  /\ idx = [s \in Senders |-> FirstIndex]
  /\ tgt = [s \in Senders |-> NoValue]
  /\ arg = [s \in Senders |-> 0]
  /\ solo = [s \in Senders |-> FALSE]
  /\ synced = [a \in Attr |-> FALSE]

-----------------------------------------------------------------------------
(* A slip: setCCT without its range test.                                  *)
StoredUnchecked(a, v, old) ==
  CASE a = "brightness" -> IF v > 0 /\ v < 255 THEN v ELSE old
    [] a = "cct"        -> 14 * v + 2700
    [] a = "fadetime"   -> v
    [] OTHER            -> old

(* What a setter leaves in the member.  A value out of range keeps the old *)
(* one; setRGB and setXY never touch the members rgb and xy.               *)
Stored(a, v, old) ==
  CASE a = "brightness" -> IF v > 0 /\ v < 255 THEN v ELSE old
    [] a = "cct"        -> IF v <= 255 THEN 14 * v + 2700 ELSE old
    [] a = "fadetime"   -> v
    [] OTHER            -> old

(* A slip: every setter hands on its parameter.                            *)
HandedParameter(s) == val[s]

(* setRGBUpDown passes the member array rgb itself.                        *)
ByReference(s) == op[s] = "upDown" /\ attr[s] = "rgb"

(* setBrightness and setCCT hand on the member, the others their parameter.*)
Handed(s) ==
  IF attr[s] \in {"brightness", "cct"} \/ ByReference(s) THEN light[attr[s]] ELSE val[s]

(* The ...UpDown range checks.  The sums are unsigned: a negative one wraps*)
(* to a number far above the upper limit and is refused like any other.    *)
InSpan(a, v) ==
  IF a = "cct" THEN v >= 2700 /\ v < 6500 ELSE v > 0 /\ v < 255

(* Sender s enters a setter of attribute a: is it alone there?             *)
Others(s, a) == {t \in Senders \ {s} : pc[t] # "idle" /\ attr[t] = a}
EnterSetter(s, a) ==
  /\ attr' = [attr EXCEPT ![s] = a]
  /\ solo' = [t \in Senders |->
                IF t = s THEN Others(s, a) = {}
                ELSE solo[t] /\ t \notin Others(s, a)]

(* A call of setBrightness, setCCT, setRGB, setXY or setFadeTime begins.   *)
BeginSet(s) ==
  /\ pc[s] = "idle"
  /\ \E c \in Calls :
       /\ c.op = "set"
       /\ op' = [op EXCEPT ![s] = "set"]
       /\ val' = [val EXCEPT ![s] = c.val]
       /\ EnterSetter(s, c.attr)
       /\ synced' = [synced EXCEPT ![c.attr] = FALSE]
  /\ pc' = [pc EXCEPT ![s] = "store"]
  /\ UNCHANGED <<light, ComClients, client, loop>>

(* resetDefault begins: setCCT(defaultCct) is the first of its two setters.*)
BeginResetDefault(s) ==
  /\ pc[s] = "idle"
  /\ \E c \in Calls : c.op = "resetDefault"
  /\ op' = [op EXCEPT ![s] = "resetDefault"]
  /\ val' = [val EXCEPT ![s] = DefaultCct]
  /\ EnterSetter(s, "cct")
  /\ synced' = [synced EXCEPT !["cct"] = FALSE]
  /\ pc' = [pc EXCEPT ![s] = "store"]
  /\ UNCHANGED <<light, ComClients, client, loop>>

(* An ...UpDown call begins with its range check.  Only setRGBUpDown calls *)
(* the setter when it fails.                                               *)
BeginUpDown(s) ==
  /\ pc[s] = "idle"
  /\ \E c \in Calls :
       /\ c.op = "upDown"
       /\ op' = [op EXCEPT ![s] = "upDown"]
       /\ val' = [val EXCEPT ![s] = c.val]
       /\ EnterSetter(s, c.attr)
       /\ synced' = [synced EXCEPT ![c.attr] = FALSE]
       /\ \/ InSpan(c.attr, light[c.attr] + c.val) /\ pc' = [pc EXCEPT ![s] = "add"]
          \/ /\ c.attr = "rgb" /\ ~InSpan("rgb", light["rgb"] + c.val)
             /\ pc' = [pc EXCEPT ![s] = "argument"]
  /\ UNCHANGED <<light, ComClients, client, loop>>

(* The member is read again and the difference added, the sum is stored,   *)
(* and the member is read once more as the argument of the inner setter.   *)
Add(s) ==
  /\ pc[s] = "add"
  /\ val' = [val EXCEPT ![s] = light[attr[s]] + @]
  /\ pc' = [pc EXCEPT ![s] = "change"]
  /\ UNCHANGED <<light, ComClients, client, op, attr, loop, ghosts>>

Change(s) ==
  /\ pc[s] = "change"
  /\ light' = [light EXCEPT ![attr[s]] = val[s]]
  /\ pc' = [pc EXCEPT ![s] = "argument"]
  /\ UNCHANGED <<ComClients, client, call, loop, ghosts>>

Argument(s) ==
  /\ pc[s] = "argument"
  /\ val' = [val EXCEPT ![s] = light[attr[s]]]
  /\ pc' = [pc EXCEPT ![s] = "store"]
  /\ UNCHANGED <<light, ComClients, client, op, attr, loop, ghosts>>

(* The setter's assignment, if its range test lets it happen.              *)
Store(s) ==
  /\ pc[s] = "store"
  /\ light' = [light EXCEPT ![attr[s]] = Stored(attr[s], val[s], light[attr[s]])]
  /\ idx' = [idx EXCEPT ![s] = FirstIndex]
  /\ pc' = [pc EXCEPT ![s] = "loop"]
  /\ UNCHANGED <<ComClients, client, call, tgt, arg, ghosts>>

(* One turn of the loop up to the call: i < size(), ComClients[i], argument*)
Load(s) ==
  /\ pc[s] = "loop"
  /\ idx[s] <= Len(ComClients)
  /\ tgt' = [tgt EXCEPT ![s] = ComClients[idx[s]]]
  /\ arg' = [arg EXCEPT ![s] = Handed(s)]
  /\ pc' = [pc EXCEPT ![s] = "deliver"]
  /\ UNCHANGED <<light, ComClients, client, call, idx, ghosts>>

(* The client's setter takes the argument, which of an array is only the   *)
(* address; the loop goes on.                                              *)
Taken(s) == IF ByReference(s) THEN Handed(s) ELSE arg[s]

Deliver(s) ==
  /\ pc[s] = "deliver"
  /\ client' = [client EXCEPT ![tgt[s]][attr[s]] = Taken(s)]
  /\ idx' = [idx EXCEPT ![s] = @ + 1]
  /\ tgt' = [tgt EXCEPT ![s] = NoValue]
  /\ arg' = [arg EXCEPT ![s] = 0]
  /\ pc' = [pc EXCEPT ![s] = "loop"]
  /\ UNCHANGED <<light, ComClients, call, ghosts>>

(* The loop is over.  resetDefault goes on with its setBrightness, every   *)
(* other call returns and its parameter and locals are gone.               *)
LoopOver(s) == pc[s] = "loop" /\ idx[s] > Len(ComClients)
SecondSetter(s) == op[s] = "resetDefault" /\ attr[s] = "cct"

ResetBrightness(s) ==
  /\ LoopOver(s)
  /\ SecondSetter(s)
  /\ val' = [val EXCEPT ![s] = DefaultBrightness]
  /\ EnterSetter(s, "brightness")
  /\ synced' = [synced EXCEPT !["cct"] = solo[s], !["brightness"] = FALSE]
  /\ pc' = [pc EXCEPT ![s] = "store"]
  /\ UNCHANGED <<light, ComClients, client, op, loop>>

Return(s) ==
  /\ LoopOver(s)
  /\ ~SecondSetter(s)
  /\ synced' = [synced EXCEPT ![attr[s]] = solo[s]]
  /\ pc' = [pc EXCEPT ![s] = "idle"]
  /\ val' = [val EXCEPT ![s] = 0]
  /\ op' = [op EXCEPT ![s] = "set"]
  /\ attr' = [attr EXCEPT ![s] = "brightness"]
  /\ idx' = [idx EXCEPT ![s] = FirstIndex]
  /\ solo' = [solo EXCEPT ![s] = FALSE]
  /\ UNCHANGED <<light, ComClients, client, tgt, arg>>

(* The sequence thread registers a client; the client is told nothing yet. *)
Registered == {ComClients[i] : i \in 1..Len(ComClients)}
AddComClient(c) ==
  /\ c \notin Registered
  /\ ComClients' = Append(ComClients, c)
  /\ synced' = [a \in Attr |-> FALSE]
  /\ UNCHANGED <<light, client, pc, call, loop, solo>>

(* The indices of calls in progress no longer mean what they did.          *)
RemoveComClients ==
  /\ ComClients # <<>>
  /\ ComClients' = <<>>
  /\ solo' = [s \in Senders |-> FALSE]
  /\ UNCHANGED <<light, client, pc, call, loop, synced>>

RemoveComClient(c) ==
  /\ EraseWorks
  /\ \E k \in 1..Len(ComClients) :
       /\ ComClients[k] = c
       /\ ComClients' = [i \in 1..(Len(ComClients) - 1) |->
                           ComClients[IF i < k THEN i ELSE i + 1]]
  /\ solo' = [s \in Senders |-> FALSE]
  /\ UNCHANGED <<light, client, pc, call, loop, synced>>

-----------------------------------------------------------------------------
Step(s) ==
  \/ Add(s) \/ Change(s) \/ Argument(s)
  \/ Store(s) \/ Load(s) \/ Deliver(s) \/ ResetBrightness(s) \/ Return(s)
Begin(s) == BeginSet(s) \/ BeginResetDefault(s) \/ BeginUpDown(s)

Registry ==
  \/ \E c \in Clients : AddComClient(c) \/ RemoveComClient(c)
  \/ RemoveComClients

Next ==
  \/ \E s \in Senders : Begin(s) \/ Step(s)
  \/ Registry

Spec == Init /\ [][Next]_vars

-----------------------------------------------------------------------------
TypeInv ==
  /\ light \in [Attr -> Int]
  /\ ComClients \in Seq(Clients)
  /\ client \in [Clients -> [Attr -> Int \cup {NoValue}]]
  /\ pc \in [Senders -> {"idle", "add", "change", "argument", "store", "loop", "deliver"}]
  /\ op \in [Senders -> {"set", "upDown", "resetDefault"}]
  /\ attr \in [Senders -> Attr]
  /\ val \in [Senders -> Int]
  /\ idx \in [Senders -> Nat \ {0}]
  /\ tgt \in [Senders -> Clients \cup {NoValue}]
  /\ arg \in [Senders -> Int]
  /\ solo \in [Senders -> BOOLEAN]
  /\ synced \in [Attr -> BOOLEAN]

(* Brightness 0 is refused and 255 is reached only by the constructor;     *)
(* the colour temperature stays within the lamp's 2700..6500.              *)
InRange(a, v) ==
  CASE a = "brightness" -> v \in 1..255
    [] a = "cct"        -> v \in 2700..6500
    [] OTHER            -> TRUE

(* Whatever the threads do, the light, the arguments on their way and every*)
(* client that has been told anything hold a brightness in 1..255 and a    *)
(* colour temperature in 2700..6500.  DMXClient::setDMXValue stores what   *)
(* it is given in one byte and relies on it.                               *)
RangeInv ==
  /\ \A a \in Attr : InRange(a, light[a])
  /\ \A s \in Senders : pc[s] = "deliver" => InRange(attr[s], arg[s])
  /\ \A c \in Clients, a \in Attr :
       client[c][a] # NoValue => InRange(a, client[c][a])

(* If the last setter call on an attribute overlapped no other one on it,  *)
(* and no client was added since, then every registered client holds what  *)
(* the light holds (for the colour, which the light does not store, all    *)
(* clients hold the same).  With an overlap this fails: a stale argument   *)
(* can be delivered last.                                                  *)
QuiescentAgreement ==
  \A a \in Attr : synced[a] =>
    IF a \in {"rgb", "xy"}
    THEN \A c, d \in Registered : client[c][a] = client[d][a]
    ELSE \A c \in Registered : client[c][a] = light[a]

(* What makes QuiescentAgreement inductive.  A setter that is alone on its  *)
(* attribute has told every client before its index what it still hands on, *)
(* and a synced attribute has no setter in progress.                        *)
SoloFor(s) ==
  solo[s] /\ pc[s] # "idle" =>
    /\ \A t \in Senders : t # s /\ pc[t] # "idle" => attr[t] # attr[s]
    /\ pc[s] \in {"loop", "deliver"} =>
         /\ idx[s] <= Len(ComClients) + 1
         /\ attr[s] = "fadetime" => val[s] = light["fadetime"]
         /\ \A i \in 1..Len(ComClients) :
              i < idx[s] => client[ComClients[i]][attr[s]] = Handed(s)
    /\ pc[s] = "deliver" =>
         /\ idx[s] <= Len(ComClients)
         /\ tgt[s] = ComClients[idx[s]]
         /\ arg[s] = Handed(s)
SoloInv == \A s \in Senders : SoloFor(s)
SyncInv == \A a \in Attr, s \in Senders : synced[a] /\ pc[s] # "idle" => attr[s] # a
=============================================================================

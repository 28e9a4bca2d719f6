------------------------------ MODULE MCPILight ------------------------------
(***************************************************************************)
(* Instances of PILight for TLC, and what the repository's comments and    *)
(* settings say of the light.                                              *)
(***************************************************************************)
EXTENDS PILight, FiniteSets, TLC

CONSTANTS s1, s2, dmx, zll

SetCall(a, v) == [op |-> "set", attr |-> a, val |-> v]
UpDown(a, d)  == [op |-> "upDown", attr |-> a, val |-> d]
ResetCall     == [op |-> "resetDefault", attr |-> "cct", val |-> 0]

(* The calls ControlBox::notify makes when a button or poti goes up.       *)
NotifyCalls == {ResetCall, SetCall("brightness", 125), SetCall("cct", 2700)}

(* Arguments on both sides of each limit, differences that reach and pass  *)
(* each limit, for every setter of the class.                              *)
ApiCalls ==
  NotifyCalls
    \cup {SetCall("brightness", v) : v \in {0, 1, 254, 255}}
    \cup {SetCall("cct", v) : v \in {0, 255, 256}}
    \cup {SetCall(a, v) : a \in {"fadetime", "rgb"}, v \in {7}}
    \cup {SetCall("xy", 3)}
    \cup {UpDown(a, d) : a \in {"brightness"}, d \in {-253, 253}}
    \cup {UpDown(a, d) : a \in {"cct"}, d \in {-3799, 3799}}
    \cup {UpDown(a, d) : a \in {"rgb"}, d \in {-254, 254}}

(* Two callers make the calls of ControlBox::notify, and the light and its *)
(* clients hold what these lead to: brightness 255 or 125, and the colour  *)
(* temperature of the default setting, 14 * 100 + 2700.  With two callers  *)
(* clients leave all together.                                             *)
Holds(a, v) ==
  CASE a = "brightness" -> v \in {255, 125}
    [] a = "cct" -> v \in {2700, 4100}
    [] OTHER -> v = 0

Notified ==
  /\ \A a \in Attr : Holds(a, light[a])
  /\ \A c \in Clients, a \in Attr : client[c][a] = NoValue \/ Holds(a, client[c][a])
  /\ \A s \in Senders :
       op[s] = "set" /\ pc[s] # "idle" => SetCall(attr[s], val[s]) \in NotifyCalls
  /\ \A s \in Senders : op[s] # "upDown"
  /\ ComClients # <<>> =>
       \A c \in Clients \ Registered, a \in Attr : client[c][a] = NoValue

(* Or one caller uses the whole interface of the class, on one attribute:  *)
(* attributes meet only in resetDefault.                                   *)
Alone == \A s, t \in Senders : s # t => pc[s] = "idle" \/ pc[t] = "idle"

Touched == {a \in Attr : \/ \E s \in Senders : pc[s] # "idle" /\ attr[s] = a
                         \/ ~Holds(a, light[a])
                         \/ \E c \in Clients : client[c][a] # NoValue
                         \/ synced[a]}

NotifyOrAlone == Notified \/ (Alone /\ Cardinality(Touched) <= 1)

(* settings.xml: <Default value="2700,100"/>; PILight.cpp: "3000,255".     *)
SettingsDefault == <<2700, 100>>

Symmetric == Permutations(Senders) \cup Permutations(Clients)

ResetOnly == {ResetCall}

(* The setting <Default value="2700,100"/> names a colour temperature and  *)
(* a brightness: when a lone caller's resetDefault returns, the light shows*)
(* 2700 K at brightness 100.                                               *)
ResetShowsConfiguredDefault ==
  [][\A s \in Senders : op[s] = "resetDefault" /\ Return(s) =>
       light["cct"] = 2700 /\ light["brightness"] = 100]_vars
=============================================================================

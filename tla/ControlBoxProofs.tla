--------------------------- MODULE ControlBoxProofs ---------------------------
(***************************************************************************)
(* Proofs about ControlBox: for any settings, any number of devices and any*)
(* number of Ctrl events.                                                  *)
(***************************************************************************)
EXTENDS ControlBox, SequenceTheorems, TLAPS

LEMMA ConfigType ==
  ASSUME TypeInv
  PROVE  /\ cfg \in Config
         /\ Distinct(cfg.potis \o cfg.buttons)
         /\ cfg.buttons \in Seq(Devices \X BOOLEAN)
         /\ cfg.potis \in Seq(Devices \X BOOLEAN)
         /\ cfg.known \in BOOLEAN /\ cfg.light \in BOOLEAN
BY CfgAssumption DEF TypeInv, Config

LEMMA StopListType ==
  ASSUME TypeInv
  PROVE  /\ StopList \in Seq(Devices)
         /\ Len(StopList) = Len(Potis) + Len(Buttons)
         /\ \A i \in 1..Len(StopList) :
              StopList[i] = IF i <= Len(Potis) THEN Potis[i] ELSE Buttons[i - Len(Potis)]
         /\ Started \subseteq Devices
BY DEF TypeInv, StopList, Started

-----------------------------------------------------------------------------
(* Type correctness.                                                       *)

LEMMA TypeInit == Init => TypeInv
<1> SUFFICES ASSUME Init PROVE TypeInv
  OBVIOUS
<1> USE DEF DevStates
<1>1. /\ dev \in [Devices -> DevStates]
      /\ done \in [Devices -> BOOLEAN] /\ joinable \in [Devices -> BOOLEAN]
  BY DEF Init
<1>2. /\ hdl \in [Handlers -> {"idle", "stop", "join", "returned", "ignored"}]
      /\ pos \in [Handlers -> Nat \ {0}]
  BY DEF Init
<1>3. Buttons \in Seq(Devices) /\ Potis \in Seq(Devices)
  BY DEF Init
<1>4. fault \subseteq Objects \cup {"handler", "noLight", "index"} /\ dead \subseteq Objects
  BY DEF Init
<1>5. main = "wait" /\ seq = "create" /\ next = 1 /\ clients = "none"
  BY DEF Init
<1>6. /\ hasLights \in BOOLEAN /\ thisBox \in BOOLEAN
      /\ isDone \in BOOLEAN /\ raced \in BOOLEAN
  BY DEF Init
<1>7. cfg \in Configs /\ server \in {"accepting", "ended"}
  BY DEF Init
<1> QED
  BY <1>1, <1>2, <1>3, <1>4, <1>5, <1>6, <1>7 DEF TypeInv

LEMMA TypeNext == TypeInv /\ [Next]_vars => TypeInv'
<1> SUFFICES ASSUME TypeInv, [Next]_vars PROVE TypeInv'
  OBVIOUS
<1> USE DEF TypeInv, seqVars, devVars, hdlVars, Objects, DevStates
<1>1. CASE Create
  BY <1>1, ConfigType DEF Create
<1>2. CASE InitButtons
  <2>1. cfg.buttons \in Seq(Devices \X BOOLEAN)
    BY ConfigType
  <2>2. CASE next > Len(cfg.buttons)
    BY <1>2, <2>2 DEF InitButtons, StartOne
  <2>3. CASE next <= Len(cfg.buttons) /\ ~cfg.buttons[next][2]
    BY <1>2, <2>1, <2>3 DEF InitButtons, StartOne
  <2>4. CASE next <= Len(cfg.buttons) /\ cfg.buttons[next][2] /\ next > Len(Buttons) + 1
    BY <1>2, <2>1, <2>4 DEF InitButtons, StartOne
  <2>5. CASE next <= Len(cfg.buttons) /\ cfg.buttons[next][2] /\ ~(next > Len(Buttons) + 1)
    <3>1. cfg.buttons[next][1] \in Devices
      BY <2>1, <2>5
    <3>2. /\ Buttons' = Append(Buttons, cfg.buttons[next][1])
          /\ dev' = [dev EXCEPT ![cfg.buttons[next][1]] = "start"]
          /\ joinable' = [joinable EXCEPT ![cfg.buttons[next][1]] = TRUE]
          /\ next' = next + 1
          /\ UNCHANGED <<main, seq, done, fault>>
      BY <1>2, <2>5 DEF InitButtons, StartOne
    <3>3. Buttons' \in Seq(Devices)
      BY <3>1, <3>2
    <3>4. /\ dev' \in [Devices -> DevStates]
          /\ joinable' \in [Devices -> BOOLEAN]
      BY <3>1, <3>2
    <3> QED
      BY <1>2, <3>2, <3>3, <3>4 DEF InitButtons
  <2>6. next \in Nat /\ Len(cfg.buttons) \in Nat /\ cfg.buttons \in Seq(Devices \X BOOLEAN)
    BY <2>1
  <2> QED
    BY <2>2, <2>3, <2>4, <2>5, <2>6
<1>3. CASE InitPotis
  <2>1. cfg.potis \in Seq(Devices \X BOOLEAN)
    BY ConfigType
  <2>2. CASE next > Len(cfg.potis)
    BY <1>3, <2>2 DEF InitPotis, StartOne
  <2>3. CASE next <= Len(cfg.potis) /\ ~cfg.potis[next][2]
    BY <1>3, <2>1, <2>3 DEF InitPotis, StartOne
  <2>4. CASE next <= Len(cfg.potis) /\ cfg.potis[next][2] /\ next > Len(Potis) + 1
    BY <1>3, <2>1, <2>4 DEF InitPotis, StartOne
  <2>5. CASE next <= Len(cfg.potis) /\ cfg.potis[next][2] /\ ~(next > Len(Potis) + 1)
    <3>1. cfg.potis[next][1] \in Devices
      BY <2>1, <2>5
    <3>2. /\ Potis' = Append(Potis, cfg.potis[next][1])
          /\ dev' = [dev EXCEPT ![cfg.potis[next][1]] = "start"]
          /\ joinable' = [joinable EXCEPT ![cfg.potis[next][1]] = TRUE]
          /\ next' = next + 1
          /\ UNCHANGED <<main, seq, done, fault>>
      BY <1>3, <2>5 DEF InitPotis, StartOne
    <3>3. Potis' \in Seq(Devices)
      BY <3>1, <3>2
    <3>4. /\ dev' \in [Devices -> DevStates]
          /\ joinable' \in [Devices -> BOOLEAN]
      BY <3>1, <3>2
    <3> QED
      BY <1>3, <3>2, <3>3, <3>4 DEF InitPotis
  <2>6. next \in Nat /\ Len(cfg.potis) \in Nat
    BY <2>1
  <2> QED
    BY <2>2, <2>3, <2>4, <2>5, <2>6
<1>4. CASE InitLights \/ Created \/ MakeClients
  BY <1>4, ConfigType DEF InitLights, Created, MakeClients
<1>5. CASE LeaveLoop
  BY <1>5 DEF LeaveLoop
<1>6. CASE Unregister \/ DeleteClients \/ DeleteBox
  BY <1>6 DEF Unregister, DeleteClients, DeleteBox
<1>7. CASE Main \/ ServerEnds
  <2>1. CASE DeleteLog
    BY <2>1 DEF DeleteLog
  <2>2. CASE JoinSequence \/ CloseServer \/ JoinServer \/ Exit \/ ServerEnds
    <3>1. /\ main' \in {"wait", "teardown", "joinServer", "deleteLog", "return", "exited",
                       "aborted"}
          /\ server' \in {"accepting", "ended"}
          /\ UNCHANGED <<cfg, seqVars, isDone, devVars, hdlVars, fault>>
      BY <2>2 DEF JoinSequence, CloseServer, JoinServer, Exit, ServerEnds
    <3> QED
      BY <3>1, ZenonT(30)
  <2> QED
    BY <1>7, <2>1, <2>2 DEF Main
<1>8. ASSUME NEW d \in Devices, DeviceRest(d) \/ Read(d) PROVE TypeInv'
  <2>1. fault' \subseteq Objects \cup {"handler", "noLight", "index"}
    BY <1>8 DEF DeviceRest, Read, Start, Check, Leave, Call, NoteOnly, ToLight, Walk, Deliver, Use
  <2>2. \E f, t \in DevStates :
          DevStep(d, f, t)
    BY <1>8 DEF DeviceRest, Read, Start, Check, Leave, Call, NoteOnly, ToLight, Walk, Deliver
  <2> QED
    BY <2>1, <2>2 DEF DevStep
<1>9. ASSUME NEW h \in Handlers, Fire(h) PROVE TypeInv'
  BY <1>9, ZenonT(30) DEF Fire, Ends, HandlerUsesBox
<1>10. ASSUME NEW h \in Handlers, StopDevice(h) PROVE TypeInv'
  <2>1. pos[h] \in 1..Len(StopList) => StopList[pos[h]] \in Devices
    BY StopListType
  <2> QED
    BY <1>10, <2>1 DEF StopDevice, HandlerUsesBox
<1>11. ASSUME NEW h \in Handlers, JoinDevice(h) PROVE TypeInv'
  <2>1. pos' \in [Handlers -> Nat \ {0}]
    BY <1>11 DEF JoinDevice
  <2>2. joinable' \in [Devices -> BOOLEAN]
    BY <1>11 DEF JoinDevice
  <2> QED
    BY <1>11, <2>1, <2>2 DEF JoinDevice
<1>12. ASSUME NEW h \in Handlers, JoinTwice(h) \/ HandlerReturn(h) PROVE TypeInv'
  <2>1. hdl' \in [Handlers -> {"idle", "stop", "join", "returned", "ignored"}]
    BY <1>12 DEF JoinTwice, HandlerReturn
  <2>2. main' \in {"wait", "teardown", "joinServer", "deleteLog", "return", "exited", "aborted"}
    BY <1>12 DEF JoinTwice, HandlerReturn
  <2> QED
    BY <1>12, <2>1, <2>2, ZenonT(30) DEF JoinTwice, HandlerReturn
<1>13. CASE UNCHANGED vars
  BY <1>13 DEF vars
<1> QED
  BY <1>1, <1>2, <1>3, <1>4, <1>5, <1>6, <1>7, <1>8, <1>9, <1>10, <1>11, <1>12, <1>13
  DEF Next, Sequence, Handler

(* Type correctness of the whole life cycle.                               *)
THEOREM TypeCorrect == Spec => []TypeInv
BY TypeInit, TypeNext, PTL DEF Spec

-----------------------------------------------------------------------------
(* The inductive invariant.                                                *)

Early == {"create", "buttons", "potis", "lights", "created"}

(* Nothing is deleted before the stop is asked for, and what was used after*)
(* its deletion was used in a race.                                        *)
LifeInv ==
  /\ seq \in Late => isDone
  /\ seq \notin Late => dead = {}
  /\ main \in {"teardown", "joinServer", "deleteLog", "return"} => seq = "ended"
  /\ raced => seq \in Late
  /\ fault \cap Objects # {} => raced

(* The vectors are the first entries of the settings' lists.               *)
BuildInv ==
  /\ Len(Buttons) <= Len(cfg.buttons)
  /\ \A i \in 1..Len(Buttons) : Buttons[i] = cfg.buttons[i][1]
  /\ Len(Potis) <= Len(cfg.potis)
  /\ \A i \in 1..Len(Potis) : Potis[i] = cfg.potis[i][1]
  /\ seq = "create" => next = 1 /\ Buttons = <<>>
  /\ seq \in {"create", "buttons"} => Potis = <<>>
  /\ seq = "buttons" => Len(Buttons) < next
  /\ seq = "potis" => Len(Potis) < next

(* While the box is built no handler knows it, and every started device can*)
(* be joined; a box that is done already has started none.                 *)
EarlyInv ==
  seq \in Early =>
    /\ ~thisBox
    /\ isDone => seq = "created" /\ Buttons = <<>> /\ Potis = <<>>
    /\ \A d \in Started : joinable[d]

(* Only started devices run, and no device at all once a teardown began    *)
(* after a handler had come through.                                       *)
DevInv ==
  /\ \A d \in Devices : dev[d] # "none" => d \in Started
  /\ seq \in Late /\ ~raced => \A d \in Devices : Stopped(d)

(* The devices a handler has passed have stopped.                          *)
HdlInv ==
  \A h \in Handlers :
    /\ pos[h] > 1 => thisBox /\ hdl[h] # "idle"
    /\ hdl[h] \in {"stop", "join", "returned"} => thisBox
    /\ hdl[h] = "join" => pos[h] <= Len(StopList)
    /\ hdl[h] = "returned" => pos[h] > Len(StopList)
    /\ \A i \in 1..Len(StopList) : i < pos[h] => dev[StopList[i]] = "stopped"

(* A device that cannot be joined any more was passed by a handler.        *)
JoinInv ==
  \A i \in 1..Len(StopList) :
    joinable[StopList[i]] \/ \E g \in Handlers : pos[g] > i

IInv == LifeInv /\ BuildInv /\ EarlyInv /\ DevInv /\ HdlInv /\ JoinInv /\ AbortNeedsTwo

LEMMA InitIInv == Init => IInv
<1> SUFFICES ASSUME Init PROVE IInv
  OBVIOUS
<1> USE DEF Init
<1>1. TypeInv
  BY TypeInit
<1>2. Len(StopList) = 0 /\ Started = {}
  BY <1>1, StopListType DEF Started
<1>3. LifeInv
  BY DEF LifeInv, Late
<1>4. BuildInv
  BY <1>1, ConfigType DEF BuildInv
<1>5. EarlyInv /\ DevInv
  BY <1>2 DEF EarlyInv, DevInv, Late
<1>6. HdlInv /\ JoinInv /\ AbortNeedsTwo
  BY <1>2 DEF HdlInv, JoinInv, AbortNeedsTwo
<1> QED
  BY <1>3, <1>4, <1>5, <1>6 DEF IInv

(* Only InitButtons and InitPotis change the lists, by one device in order.*)
LEMMA ButtonsStep ==
  ASSUME TypeInv, BuildInv, InitButtons
  PROVE  \/ UNCHANGED <<Buttons, devVars>> /\ seq' \in {"buttons", "potis"}
            /\ (seq' = "buttons" => next' = next + 1)
         \/ \E d \in Devices :
              /\ d = cfg.buttons[Len(Buttons) + 1][1]
              /\ next = Len(Buttons) + 1 /\ next <= Len(cfg.buttons) /\ next' = next + 1
              /\ Buttons' = Append(Buttons, d)
              /\ dev' = [dev EXCEPT ![d] = "start"]
              /\ joinable' = [joinable EXCEPT ![d] = TRUE]
              /\ UNCHANGED <<main, seq, done, fault>>
<1> DEFINE n == Len(Buttons)
<1>1. /\ cfg.buttons \in Seq(Devices \X BOOLEAN) /\ n \in Nat /\ n < next /\ next \in Nat
      /\ Len(cfg.buttons) \in Nat
  BY ConfigType DEF TypeInv, BuildInv, InitButtons
<1>2. CASE next > Len(cfg.buttons) \/ ~cfg.buttons[next][2] \/ next > n + 1
  BY <1>1, <1>2 DEF InitButtons, StartOne, devVars
<1>3. CASE next <= Len(cfg.buttons) /\ cfg.buttons[next][2] /\ ~(next > n + 1)
  <2>1. next = n + 1 /\ cfg.buttons[next][1] \in Devices
    BY <1>1, <1>3
  <2>2. /\ Buttons' = Append(Buttons, cfg.buttons[next][1])
        /\ dev' = [dev EXCEPT ![cfg.buttons[next][1]] = "start"]
        /\ joinable' = [joinable EXCEPT ![cfg.buttons[next][1]] = TRUE]
        /\ next' = next + 1
        /\ UNCHANGED <<main, seq, done, fault>>
    BY <1>1, <1>3 DEF InitButtons, StartOne, devVars
  <2> QED
    BY <1>3, <2>1, <2>2
<1> QED
  BY <1>1, <1>2, <1>3

LEMMA PotisStep ==
  ASSUME TypeInv, BuildInv, InitPotis
  PROVE  \/ UNCHANGED <<Potis, devVars>> /\ seq' \in {"potis", "lights"}
            /\ (seq' = "potis" => next' = next + 1)
         \/ \E d \in Devices :
              /\ d = cfg.potis[Len(Potis) + 1][1]
              /\ next = Len(Potis) + 1 /\ next <= Len(cfg.potis) /\ next' = next + 1
              /\ Potis' = Append(Potis, d)
              /\ dev' = [dev EXCEPT ![d] = "start"]
              /\ joinable' = [joinable EXCEPT ![d] = TRUE]
              /\ UNCHANGED <<main, seq, done, fault>>
<1> DEFINE n == Len(Potis)
<1>1. /\ cfg.potis \in Seq(Devices \X BOOLEAN) /\ n \in Nat /\ n < next /\ next \in Nat
      /\ Len(cfg.potis) \in Nat
  BY ConfigType DEF TypeInv, BuildInv, InitPotis
<1>2. CASE next > Len(cfg.potis) \/ ~cfg.potis[next][2] \/ next > n + 1
  BY <1>1, <1>2 DEF InitPotis, StartOne, devVars
<1>3. CASE next <= Len(cfg.potis) /\ cfg.potis[next][2] /\ ~(next > n + 1)
  <2>1. next = n + 1 /\ cfg.potis[next][1] \in Devices
    BY <1>1, <1>3
  <2>2. /\ Potis' = Append(Potis, cfg.potis[next][1])
        /\ dev' = [dev EXCEPT ![cfg.potis[next][1]] = "start"]
        /\ joinable' = [joinable EXCEPT ![cfg.potis[next][1]] = TRUE]
        /\ next' = next + 1
        /\ UNCHANGED <<main, seq, done, fault>>
    BY <1>1, <1>3 DEF InitPotis, StartOne, devVars
  <2> QED
    BY <1>3, <2>1, <2>2
<1> QED
  BY <1>1, <1>2, <1>3

(* A step of a device moves that device and nothing else, and what it adds *)
(* to the faults is missing or deleted.                                    *)
LEMMA DeviceStep ==
  ASSUME TypeInv, NEW d \in Devices, DeviceRest(d) \/ Read(d)
  PROVE  /\ Running
         /\ dev[d] \notin {"none", "stopped"}
         /\ \E to : to # "none" /\ dev' = [dev EXCEPT ![d] = to]
         /\ UNCHANGED <<cfg, main, seqVars, isDone, done, joinable, hdlVars>>
         /\ fault' \subseteq fault \cup dead \cup {"noLight"}
<1> USE DEF DevStates
<1>1. fault' \subseteq fault \cup dead \cup {"noLight"}
  BY DEF DeviceRest, Read, Start, Check, Leave, Call, NoteOnly, ToLight, Walk, Deliver, Use
<1>2. PICK from \in DevStates \ {"none", "stopped"},
           to \in DevStates \ {"none"} :
        DevStep(d, from, to)
  BY DEF DeviceRest, Read, Start, Check, Leave, Call, NoteOnly, ToLight, Walk, Deliver
<1> QED
  BY <1>1, <1>2 DEF DevStep

(* The sequence thread's steps after Init leave the lists alone.           *)
LEMMA ListsFixed ==
  ASSUME [Next]_vars, ~InitButtons, ~InitPotis
  PROVE  UNCHANGED <<Buttons, Potis, StopList, Started>>
<1>1. UNCHANGED <<Buttons, Potis>>
  BY DEF Next, Sequence, Create, InitLights, Created, MakeClients, LeaveLoop, Unregister,
       DeleteClients, DeleteBox, Main, ServerEnds, JoinSequence, CloseServer, JoinServer,
       DeleteLog, Exit, DeviceRest, Read, Start, Check, Leave, Call, NoteOnly, ToLight, Walk,
       Deliver, DevStep, Fire, Handler, StopDevice, JoinDevice, JoinTwice, HandlerReturn, vars,
       seqVars
<1> QED
  BY <1>1 DEF StopList, Started

-----------------------------------------------------------------------------
LEMMA LifeNext == TypeInv /\ IInv /\ [Next]_vars => LifeInv'
<1> SUFFICES ASSUME TypeInv, IInv, [Next]_vars PROVE LifeInv'
  OBVIOUS
<1>0. LifeInv /\ EarlyInv /\ DevInv
  BY DEF IInv
<1> USE <1>0 DEF LifeInv, Late, Objects, seqVars
<1>1. CASE Create
  BY <1>1 DEF Create
<1>2. CASE InitButtons
  BY <1>2 DEF InitButtons, StartOne
<1>3. CASE InitPotis
  BY <1>3 DEF InitPotis, StartOne
<1>4. CASE InitLights \/ Created \/ MakeClients
  BY <1>4 DEF InitLights, Created, MakeClients
<1>5. CASE LeaveLoop
  BY <1>5 DEF LeaveLoop
<1>6. CASE Unregister \/ DeleteClients \/ DeleteBox
  BY <1>6 DEF Unregister, DeleteClients, DeleteBox
<1>7. CASE Main \/ ServerEnds
  BY <1>7 DEF Main, ServerEnds, JoinSequence, CloseServer, JoinServer, DeleteLog, Exit
<1>8. ASSUME NEW d \in Devices, DeviceRest(d) \/ Read(d) PROVE LifeInv'
  <2>1. /\ dev[d] \notin {"none", "stopped"}
        /\ UNCHANGED <<seq, isDone, dead, main, raced>>
        /\ fault' \subseteq fault \cup dead \cup {"noLight"}
    BY <1>8, DeviceStep
  <2>2. dead = {} \/ raced
    BY <2>1 DEF DevInv, Stopped
  <2> QED
    BY <2>1, <2>2
<1>9. ASSUME NEW h \in Handlers, Fire(h) \/ Handler(h) PROVE LifeInv'
  <2>1. /\ UNCHANGED <<seq, dead, raced>>
        /\ isDone' = isDone \/ isDone'
        /\ fault' \subseteq fault \cup {"handler"}
        /\ main' \in {main, "exited", "aborted"}
    BY <1>9 DEF Fire, Handler, StopDevice, JoinDevice, JoinTwice, HandlerReturn, HandlerUsesBox
  <2> QED
    BY <2>1
<1>10. CASE UNCHANGED vars
  BY <1>10 DEF vars
<1> QED
  BY <1>1, <1>2, <1>3, <1>4, <1>5, <1>6, <1>7, <1>8, <1>9, <1>10 DEF Next, Sequence

LEMMA BuildNext == TypeInv /\ IInv /\ [Next]_vars => BuildInv'
<1> SUFFICES ASSUME TypeInv, IInv, [Next]_vars PROVE BuildInv'
  OBVIOUS
<1>0. BuildInv
  BY DEF IInv
<1>1. /\ Buttons \in Seq(Devices) /\ Potis \in Seq(Devices) /\ next \in Nat \ {0}
      /\ cfg.buttons \in Seq(Devices \X BOOLEAN) /\ cfg.potis \in Seq(Devices \X BOOLEAN)
  BY ConfigType DEF TypeInv
<1>2. CASE InitButtons
  <2>1. /\ seq = "buttons" /\ cfg' = cfg /\ Potis' = Potis /\ Potis = <<>>
        /\ Len(Buttons) < next
    BY <1>0, <1>2 DEF InitButtons, BuildInv
  <2>2. CASE UNCHANGED <<Buttons, devVars>> /\ seq' \in {"buttons", "potis"}
             /\ (seq' = "buttons" => next' = next + 1)
    <3>1. seq' = "potis" => next' = 1
      BY <1>2, <2>1 DEF InitButtons, StartOne
    <3> QED
      BY <1>0, <1>1, <2>1, <2>2, <3>1 DEF BuildInv
  <2>3. ASSUME NEW d \in Devices, d = cfg.buttons[Len(Buttons) + 1][1],
               next = Len(Buttons) + 1, next <= Len(cfg.buttons), next' = next + 1,
               Buttons' = Append(Buttons, d), seq' = seq
        PROVE  BuildInv'
    <3>1. Len(Buttons') = Len(Buttons) + 1
      BY <1>1, <2>3
    <3>2. \A i \in 1..Len(Buttons') : Buttons'[i] = cfg.buttons[i][1]
      BY <1>0, <1>1, <2>3, <3>1 DEF BuildInv
    <3> QED
      BY <1>0, <1>1, <2>1, <2>3, <3>1, <3>2 DEF BuildInv
  <2> QED
    BY <1>0, <1>2, <2>2, <2>3, ButtonsStep
<1>3. CASE InitPotis
  <2>1. /\ seq = "potis" /\ cfg' = cfg /\ Buttons' = Buttons /\ Len(Potis) < next
    BY <1>0, <1>3 DEF InitPotis, BuildInv
  <2>2. CASE UNCHANGED <<Potis, devVars>> /\ seq' \in {"potis", "lights"}
             /\ (seq' = "potis" => next' = next + 1)
    BY <1>0, <1>1, <2>1, <2>2 DEF BuildInv
  <2>3. ASSUME NEW d \in Devices, d = cfg.potis[Len(Potis) + 1][1],
               next = Len(Potis) + 1, next <= Len(cfg.potis), next' = next + 1,
               Potis' = Append(Potis, d), seq' = seq
        PROVE  BuildInv'
    <3>1. Len(Potis') = Len(Potis) + 1
      BY <1>1, <2>3
    <3>2. \A i \in 1..Len(Potis') : Potis'[i] = cfg.potis[i][1]
      BY <1>0, <1>1, <2>3, <3>1 DEF BuildInv
    <3> QED
      BY <1>0, <1>1, <2>1, <2>3, <3>1, <3>2 DEF BuildInv
  <2> QED
    BY <1>0, <1>3, <2>2, <2>3, PotisStep
<1>4. CASE ~InitButtons /\ ~InitPotis
  <2>1. UNCHANGED <<Buttons, Potis>>
    BY <1>4, ListsFixed
  <2>2. /\ cfg' = cfg
        /\ \/ UNCHANGED <<seq, next>>
           \/ seq = "create" /\ seq' \in {"buttons", "created"} /\ next' = next
           \/ seq' \notin {"create", "buttons", "potis"}
    BY <1>4 DEF Next, Sequence, Create, InitLights, Created, MakeClients, LeaveLoop,
         Unregister, DeleteClients, DeleteBox, Main, ServerEnds, JoinSequence, CloseServer,
         JoinServer, DeleteLog, Exit, DeviceRest, Read, Start, Check, Leave, Call, NoteOnly,
         ToLight, Walk, Deliver, DevStep, Fire, Handler, StopDevice, JoinDevice, JoinTwice,
         HandlerReturn, vars, seqVars
  <2> QED
    BY <1>0, <1>1, <2>1, <2>2 DEF BuildInv
<1> QED
  BY <1>2, <1>3, <1>4

-----------------------------------------------------------------------------
LEMMA ConcatRange ==
  ASSUME NEW P \in Seq(Devices), NEW B \in Seq(Devices)
  PROVE  {(P \o B)[i] : i \in 1..Len(P \o B)}
           = {P[i] : i \in 1..Len(P)} \cup {B[i] : i \in 1..Len(B)}
<1> DEFINE PB == P \o B
<1>1. /\ Len(P) \in Nat /\ Len(B) \in Nat /\ Len(PB) = Len(P) + Len(B)
      /\ \A i \in 1..Len(P) : PB[i] = P[i]
      /\ \A i \in 1..Len(B) : PB[i + Len(P)] = B[i]
  OBVIOUS
<1> HIDE DEF PB
<1>2. ASSUME NEW x, x \in {P[i] : i \in 1..Len(P)} \cup {B[i] : i \in 1..Len(B)}
      PROVE  x \in {PB[i] : i \in 1..Len(PB)}
  <2>1. CASE \E i \in 1..Len(P) : x = P[i]
    <3>1. PICK i \in 1..Len(P) : x = P[i]
      BY <2>1
    <3>2. i \in 1..Len(PB) /\ PB[i] = x
      BY <1>1, <3>1
    <3> QED
      BY <3>2
  <2>2. CASE \E i \in 1..Len(B) : x = B[i]
    <3>1. PICK i \in 1..Len(B) : x = B[i]
      BY <2>2
    <3>2. i + Len(P) \in 1..Len(PB) /\ PB[i + Len(P)] = x
      BY <1>1, <3>1
    <3> QED
      BY <3>2
  <2> QED
    BY <1>2, <2>1, <2>2
<1>3. ASSUME NEW i \in 1..Len(PB)
      PROVE  PB[i] \in {P[k] : k \in 1..Len(P)} \cup {B[k] : k \in 1..Len(B)}
  <2>1. CASE i \in 1..Len(P)
    BY <1>1, <2>1
  <2>2. CASE i \notin 1..Len(P)
    <3>1. i - Len(P) \in 1..Len(B) /\ PB[i] = B[i - Len(P)]
      BY <1>1, <2>2
    <3> QED
      BY <3>1
  <2> QED
    BY <2>1, <2>2
<1>4. {PB[i] : i \in 1..Len(PB)} = {P[i] : i \in 1..Len(P)} \cup {B[i] : i \in 1..Len(B)}
  BY <1>2, <1>3
<1> QED
  BY <1>4 DEF PB

(* While the lists grow, one device at a time is started, ready to be      *)
(* joined.                                                                 *)
LEMMA GrowStep ==
  ASSUME TypeInv, BuildInv, [Next]_vars, InitButtons \/ InitPotis
  PROVE  /\ seq \in {"buttons", "potis"} /\ seq' \in {"buttons", "potis", "lights"}
         /\ UNCHANGED <<thisBox, isDone, hdl, pos>>
         /\ \/ UNCHANGED <<Started, devVars>>
            \/ \E d \in Devices :
                 /\ Started' = Started \cup {d}
                 /\ dev' = [dev EXCEPT ![d] = "start"]
                 /\ joinable' = [joinable EXCEPT ![d] = TRUE]
<1>0. TypeInv'
  BY TypeNext
<1>1. /\ Potis \in Seq(Devices) /\ Buttons \in Seq(Devices)
      /\ Len(Potis) \in Nat /\ Len(Buttons) \in Nat
  BY DEF TypeInv
<1>2. /\ Started = {Potis[i] : i \in 1..Len(Potis)} \cup {Buttons[i] : i \in 1..Len(Buttons)}
      /\ Started' = {Potis'[i] : i \in 1..Len(Potis')} \cup {Buttons'[i] : i \in 1..Len(Buttons')}
  <2>1. /\ Potis' \in Seq(Devices) /\ Buttons' \in Seq(Devices)
    BY <1>0 DEF TypeInv
  <2> QED
    BY <1>1, <2>1, ConcatRange DEF Started, StopList
<1>3. ASSUME NEW q \in Seq(Devices), NEW d \in Devices, NEW r, r = Append(q, d)
      PROVE  {r[i] : i \in 1..Len(r)} = {q[i] : i \in 1..Len(q)} \cup {d}
  <2>1. Len(q) \in Nat /\ Len(r) = Len(q) + 1 /\ r[Len(q) + 1] = d
        /\ \A i \in 1..Len(q) : r[i] = q[i]
    BY <1>3
  <2> QED
    BY <2>1
<1>4. CASE InitButtons
  <2>1. Potis' = Potis /\ UNCHANGED <<thisBox, isDone, hdl, pos>> /\ seq = "buttons"
        /\ seq' \in {"buttons", "potis"}
    BY <1>4 DEF InitButtons, hdlVars, StartOne
  <2>2. CASE UNCHANGED <<Buttons, devVars>>
    BY <1>2, <2>1, <2>2
  <2>3. ASSUME NEW d \in Devices, Buttons' = Append(Buttons, d),
               dev' = [dev EXCEPT ![d] = "start"],
               joinable' = [joinable EXCEPT ![d] = TRUE]
        PROVE  \E e \in Devices :
                 /\ Started' = Started \cup {e}
                 /\ dev' = [dev EXCEPT ![e] = "start"]
                 /\ joinable' = [joinable EXCEPT ![e] = TRUE]
    <3>1. {Buttons'[i] : i \in 1..Len(Buttons')} = {Buttons[i] : i \in 1..Len(Buttons)} \cup {d}
      BY <1>1, <1>3, <2>3
    <3>2. Started' = Started \cup {d}
      BY <1>2, <2>1, <3>1
    <3> QED
      BY <2>3, <3>2
  <2>4. \/ UNCHANGED <<Buttons, devVars>>
        \/ \E d \in Devices : /\ Buttons' = Append(Buttons, d)
                              /\ dev' = [dev EXCEPT ![d] = "start"]
                              /\ joinable' = [joinable EXCEPT ![d] = TRUE]
    BY <1>4, ButtonsStep
  <2> QED
    BY <2>1, <2>2, <2>3, <2>4
<1>5. CASE InitPotis
  <2>1. Buttons' = Buttons /\ UNCHANGED <<thisBox, isDone, hdl, pos>> /\ seq = "potis"
        /\ seq' \in {"potis", "lights"}
    BY <1>5 DEF InitPotis, hdlVars, StartOne
  <2>2. CASE UNCHANGED <<Potis, devVars>>
    BY <1>2, <2>1, <2>2
  <2>3. ASSUME NEW d \in Devices, Potis' = Append(Potis, d),
               dev' = [dev EXCEPT ![d] = "start"],
               joinable' = [joinable EXCEPT ![d] = TRUE]
        PROVE  \E e \in Devices :
                 /\ Started' = Started \cup {e}
                 /\ dev' = [dev EXCEPT ![e] = "start"]
                 /\ joinable' = [joinable EXCEPT ![e] = TRUE]
    <3>1. {Potis'[i] : i \in 1..Len(Potis')} = {Potis[i] : i \in 1..Len(Potis)} \cup {d}
      BY <1>1, <1>3, <2>3
    <3>2. Started' = Started \cup {d}
      BY <1>2, <2>1, <3>1
    <3> QED
      BY <2>3, <3>2
  <2>4. \/ UNCHANGED <<Potis, devVars>>
        \/ \E d \in Devices : /\ Potis' = Append(Potis, d)
                              /\ dev' = [dev EXCEPT ![d] = "start"]
                              /\ joinable' = [joinable EXCEPT ![d] = TRUE]
    BY <1>5, PotisStep
  <2> QED
    BY <2>1, <2>2, <2>3, <2>4
<1> QED
  BY <1>4, <1>5

LEMMA EarlyNext == TypeInv /\ IInv /\ [Next]_vars => EarlyInv'
<1> SUFFICES ASSUME TypeInv, IInv, [Next]_vars PROVE EarlyInv'
  OBVIOUS
<1>0. EarlyInv /\ BuildInv /\ HdlInv
  BY DEF IInv
<1>1. CASE InitButtons \/ InitPotis
  <2>1. Started \subseteq Devices /\ joinable \in [Devices -> BOOLEAN]
    BY StopListType DEF TypeInv
  <2>2. seq \in Early /\ ~thisBox /\ ~isDone /\ \A d \in Started : joinable[d]
    BY <1>0, <1>1, GrowStep DEF EarlyInv, Early
  <2> QED
    BY <1>0, <1>1, <2>1, <2>2, GrowStep DEF EarlyInv, Early, devVars
<1>2. CASE ~InitButtons /\ ~InitPotis
  <2>0. UNCHANGED <<Buttons, Potis, StopList, Started>>
    BY <1>2, ListsFixed
  <2>1. CASE Create
    BY <1>0, <2>0, <2>1 DEF Create, EarlyInv, BuildInv, Early, seqVars, devVars
  <2>2. CASE InitLights
    BY <1>0, <2>0, <2>2 DEF InitLights, EarlyInv, Early, devVars
  <2>3. CASE Created \/ MakeClients \/ LeaveLoop \/ Unregister \/ DeleteClients \/ DeleteBox
    BY <2>3, <1>0 DEF Created, MakeClients, LeaveLoop, Unregister, DeleteClients, DeleteBox,
         Early, EarlyInv
  <2>4. CASE Main \/ ServerEnds
    BY <1>0, <2>0, <2>4 DEF Main, ServerEnds, JoinSequence, CloseServer, JoinServer, DeleteLog,
         Exit, EarlyInv, seqVars, devVars
  <2>5. ASSUME NEW d \in Devices, DeviceRest(d) \/ Read(d) PROVE EarlyInv'
    BY <1>0, <2>0, <2>5, DeviceStep DEF EarlyInv, seqVars
  <2>6. ASSUME NEW h \in Handlers, Fire(h) PROVE EarlyInv'
    BY <1>0, <2>0, <2>6 DEF EarlyInv, Fire, seqVars, devVars
  <2>7. ASSUME NEW h \in Handlers, Handler(h) PROVE EarlyInv'
    <3>1. hdl[h] \in {"stop", "join"}
      BY <2>7 DEF Handler, StopDevice, JoinDevice, JoinTwice, HandlerReturn
    <3>2. thisBox
      BY <1>0, <3>1 DEF HdlInv
    <3>3. seq \notin Early
      BY <1>0, <3>2 DEF EarlyInv
    <3>4. seq' = seq
      BY <2>7 DEF Handler, StopDevice, JoinDevice, JoinTwice, HandlerReturn, seqVars
    <3> QED
      BY <3>3, <3>4 DEF EarlyInv
  <2>8. CASE UNCHANGED vars
    BY <1>0, <2>0, <2>8 DEF EarlyInv, vars, seqVars, devVars
  <2> QED
    BY <1>2, <2>1, <2>2, <2>3, <2>4, <2>5, <2>6, <2>7, <2>8 DEF Next, Sequence
<1> QED
  BY <1>1, <1>2

(* A handler that has come through stopEventLoop has passed the whole list, *)
(* and only devices of the list have a thread.                             *)
LEMMA ReturnedStops ==
  ASSUME TypeInv, DevInv, HdlInv, StopReturned
  PROVE  \A d \in Devices : Stopped(d)
<1> SUFFICES ASSUME NEW d \in Devices, dev[d] # "none" PROVE dev[d] = "stopped"
  BY DEF Stopped
<1>1. PICK h \in Handlers : hdl[h] = "returned"
  BY DEF StopReturned
<1>2. PICK i \in 1..Len(StopList) : d = StopList[i]
  BY DEF DevInv, Started
<1>3. pos[h] > Len(StopList) /\ pos[h] \in Nat /\ Len(StopList) \in Nat
  BY <1>1, StopListType DEF HdlInv, TypeInv
<1> QED
  BY <1>2, <1>3 DEF HdlInv

LEMMA DevNext == TypeInv /\ IInv /\ [Next]_vars => DevInv'
<1> SUFFICES ASSUME TypeInv, IInv, [Next]_vars PROVE DevInv'
  OBVIOUS
<1>0. DevInv /\ BuildInv /\ EarlyInv  /\ dev = [d \in Devices |-> dev[d]]
  BY DEF IInv, TypeInv
<1>1. CASE InitButtons \/ InitPotis
  <2>1. seq' \notin Late
    BY <1>0, <1>1, GrowStep DEF Late
  <2>2. \A d \in Devices : dev'[d] # "none" => d \in Started'
    BY <1>0, <1>1, GrowStep DEF DevInv, Stopped, devVars
  <2> QED
    BY <2>1, <2>2 DEF DevInv
<1>2. CASE ~InitButtons /\ ~InitPotis
  <2>0. UNCHANGED <<Buttons, Potis, StopList, Started>>
    BY <1>2, ListsFixed
  <2>1. CASE Create \/ InitLights \/ MakeClients
    BY <1>0, <2>0, <2>1 DEF Create, InitLights, MakeClients, DevInv, Stopped, Late, devVars
  <2>2. CASE Created
    <3>0. Started = {} => \A d \in Devices : dev[d] = "none"
      BY <1>0 DEF DevInv
    <3>1. Started = {} \/ seq' = "clients"
      <4>1. Started = {} \/ ~isDone
        BY <1>0, <2>2, StopListType DEF EarlyInv, Early, Created, Started, TypeInv
      <4> QED
        BY <2>2, <4>1 DEF Created
    <3> QED
      BY <1>0, <2>0, <2>2, <3>0, <3>1 DEF Created, DevInv, Stopped, Late, devVars
  <2>3. CASE LeaveLoop
    <3>1. StopReturned => \A d \in Devices : Stopped(d)
      BY <1>0, ReturnedStops DEF IInv
    <3> QED
      BY <1>0, <2>0, <2>3, <3>1 DEF LeaveLoop, DevInv, Stopped, devVars
  <2>4. CASE Unregister \/ DeleteClients \/ DeleteBox
    BY <1>0, <2>0, <2>4 DEF Unregister, DeleteClients, DeleteBox, DevInv, Stopped, Late, devVars
  <2>5. CASE Main \/ ServerEnds
    BY <1>0, <2>0, <2>5 DEF Main, ServerEnds, JoinSequence, CloseServer, JoinServer, DeleteLog,
         Exit, DevInv, Stopped, seqVars, devVars
  <2>6. ASSUME NEW d \in Devices, DeviceRest(d) \/ Read(d) PROVE DevInv'
    <3>1. UNCHANGED <<seq, raced>> /\ dev[d] \notin {"none", "stopped"}
          /\ \E to : to # "none" /\ dev' = [dev EXCEPT ![d] = to]
      BY <2>6, DeviceStep DEF seqVars
    <3>2. d \in Started /\ ~(seq \in Late /\ ~raced)
      BY <1>0, <3>1 DEF DevInv, Stopped
    <3> QED
      BY <1>0, <2>0, <3>1, <3>2 DEF DevInv, Stopped
  <2>7. ASSUME NEW h \in Handlers, Fire(h) \/ Handler(h) PROVE DevInv'
    BY <1>0, <2>0, <2>7 DEF Fire, Handler, StopDevice, JoinDevice, JoinTwice, HandlerReturn,
                            DevInv, Stopped, seqVars, devVars
  <2>8. CASE UNCHANGED vars
    BY <1>0, <2>0, <2>8 DEF DevInv, Stopped, vars, seqVars, devVars
  <2> QED
    BY <1>2, <2>1, <2>2, <2>3, <2>4, <2>5, <2>6, <2>7, <2>8 DEF Next, Sequence
<1> QED
  BY <1>1, <1>2

-----------------------------------------------------------------------------
LEMMA ConcatIndex ==
  ASSUME NEW S, NEW P \in Seq(S), NEW B \in Seq(S)
  PROVE  /\ Len(P \o B) = Len(P) + Len(B)
         /\ \A k \in 1..Len(P) : (P \o B)[k] = P[k] /\ k \in 1..Len(P \o B)
         /\ \A k \in 1..Len(B) : /\ (P \o B)[k + Len(P)] = B[k]
                                /\ k + Len(P) \in 1..Len(P \o B)
OBVIOUS

(* No device is in the lists twice.                                        *)
LEMMA ListDistinct ==
  ASSUME TypeInv, BuildInv, NEW i \in 1..Len(StopList), NEW j \in 1..Len(StopList),
         StopList[i] = StopList[j]
  PROVE  i = j
<1> DEFINE L == cfg.potis \o cfg.buttons
           m(k) == IF k <= Len(Potis) THEN k ELSE k - Len(Potis) + Len(cfg.potis)
<1>1. /\ cfg.potis \in Seq(Devices \X BOOLEAN) /\ cfg.buttons \in Seq(Devices \X BOOLEAN)
      /\ Len(Potis) \in Nat /\ Len(Buttons) \in Nat
      /\ Len(cfg.potis) \in Nat /\ Len(cfg.buttons) \in Nat
      /\ Len(StopList) = Len(Potis) + Len(Buttons)
  BY ConfigType, StopListType DEF TypeInv
<1>2. Len(L) = Len(cfg.potis) + Len(cfg.buttons)
  BY <1>1
<1>3. ASSUME NEW k \in 1..Len(StopList)
      PROVE  m(k) \in 1..Len(L) /\ L[m(k)][1] = StopList[k]
  <2>1. CASE k <= Len(Potis)
    <3>1. k \in 1..Len(Potis) /\ StopList[k] = Potis[k] /\ Len(Potis) <= Len(cfg.potis)
      BY <1>1, <2>1, StopListType DEF BuildInv
    <3>2. k \in 1..Len(cfg.potis)
      BY <1>1, <3>1
    <3>3. L[k] = cfg.potis[k] /\ k \in 1..Len(L)
      BY <1>1, <3>2, ConcatIndex
    <3> QED
      BY <2>1, <3>1, <3>3 DEF BuildInv
  <2>2. CASE ~(k <= Len(Potis))
    <3>1. k - Len(Potis) \in 1..Len(Buttons) /\ StopList[k] = Buttons[k - Len(Potis)]
          /\ Len(Buttons) <= Len(cfg.buttons)
      BY <1>1, <2>2, StopListType DEF BuildInv
    <3>2. k - Len(Potis) \in 1..Len(cfg.buttons) /\ m(k) = (k - Len(Potis)) + Len(cfg.potis)
      BY <1>1, <2>2, <3>1
    <3> DEFINE n == k - Len(Potis)
    <3> HIDE DEF n
    <3>3. n \in 1..Len(cfg.buttons) /\ m(k) = n + Len(cfg.potis)
      BY <3>2 DEF n
    <3>4. L[n + Len(cfg.potis)] = cfg.buttons[n] /\ n + Len(cfg.potis) \in 1..Len(L)
      BY <1>1, <3>3, ConcatIndex
    <3>5. L[m(k)] = cfg.buttons[k - Len(Potis)] /\ m(k) \in 1..Len(L)
      BY <3>3, <3>4 DEF n
    <3> QED
      BY <3>1, <3>2, <3>5 DEF BuildInv
  <2> QED
    BY <2>1, <2>2
<1>4. m(i) = m(j)
  <2>1. Distinct(L)
    BY ConfigType
  <2> QED
    BY <1>3, <2>1, ZenonT(30) DEF Distinct
<1>5. Len(Potis) <= Len(cfg.potis)
  BY DEF BuildInv
<1> QED
  BY <1>1, <1>4, <1>5

LEMMA HdlNext == TypeInv /\ IInv /\ [Next]_vars => HdlInv'
<1> SUFFICES ASSUME TypeInv, IInv, [Next]_vars PROVE HdlInv'
  OBVIOUS
<1>0. HdlInv /\ EarlyInv /\ BuildInv /\ Len(StopList) \in Nat
      /\ pos \in [Handlers -> Nat \ {0}] /\ hdl = [h \in Handlers |-> hdl[h]]
      /\ dev = [d \in Devices |-> dev[d]]
  BY StopListType DEF IInv, TypeInv
<1>1. CASE InitButtons \/ InitPotis
  <2>1. ~thisBox /\ UNCHANGED <<hdl, pos>>
    BY <1>0, <1>1, GrowStep DEF EarlyInv, Early
  <2>2. \A h \in Handlers : pos[h] = 1 /\ hdl[h] \notin {"stop", "join", "returned"}
    BY <1>0, <2>1 DEF HdlInv
  <2>3. StopList' \in Seq(Devices)
    BY TypeNext DEF TypeInv, StopList
  <2> QED
    BY <2>1, <2>2, <2>3 DEF HdlInv
<1>2. CASE ~InitButtons /\ ~InitPotis
  <2>0. UNCHANGED <<Buttons, Potis, StopList, Started>>
    BY <1>2, ListsFixed
  <2>1. CASE Create \/ InitLights \/ Created \/ MakeClients \/ LeaveLoop \/ Unregister
             \/ DeleteClients \/ DeleteBox \/ Main \/ ServerEnds
    <3>1. UNCHANGED <<hdl, pos, dev>>
      BY <2>1 DEF Create, InitLights, Created, MakeClients, LeaveLoop, Unregister,
           DeleteClients, DeleteBox, Main, ServerEnds, JoinSequence, CloseServer, JoinServer,
           DeleteLog, Exit, devVars, hdlVars
    <3>2. thisBox => thisBox'
      BY <1>0, <2>1 DEF Create, InitLights, Created, MakeClients, LeaveLoop, Unregister,
           DeleteClients, DeleteBox, Main, ServerEnds, JoinSequence, CloseServer, JoinServer,
           DeleteLog, Exit, seqVars, EarlyInv, Early
    <3> QED
      BY <1>0, <2>0, <3>1, <3>2 DEF HdlInv
  <2>2. ASSUME NEW d \in Devices, DeviceRest(d) \/ Read(d) PROVE HdlInv'
    <3>1. /\ UNCHANGED <<thisBox, hdl, pos>> /\ dev[d] # "stopped"
          /\ \E to : dev' = [dev EXCEPT ![d] = to]
      BY <2>2, DeviceStep DEF seqVars, hdlVars
    <3>2. \A e \in Devices : dev[e] = "stopped" => dev'[e] = "stopped"
      BY <1>0, <3>1
    <3>3. \A i \in 1..Len(StopList) : StopList[i] \in Devices
      BY StopListType
    <3> QED
      BY <1>0, <2>0, <3>1, <3>2, <3>3 DEF HdlInv
  <2>3. ASSUME NEW h \in Handlers, Fire(h) PROVE HdlInv'
    <3>1. pos[h] = 1
      BY <1>0, <2>3 DEF Fire, HdlInv
    <3> QED
      BY <1>0, <2>0, <2>3, <3>1 DEF Fire, HdlInv, seqVars, devVars
  <2>4. ASSUME NEW h \in Handlers, StopDevice(h) PROVE HdlInv'
    BY <1>0, <2>0, <2>4 DEF StopDevice, HdlInv, seqVars
  <2>5. ASSUME NEW h \in Handlers, JoinDevice(h) PROVE HdlInv'
    <3>1. /\ hdl[h] = "join" /\ thisBox /\ thisBox' = thisBox /\ dev' = dev
          /\ dev[StopList[pos[h]]] = "stopped"
          /\ hdl' = [hdl EXCEPT ![h] = "stop"]
          /\ pos' = [pos EXCEPT ![h] = pos[h] + 1]
      BY <1>0, <2>5 DEF JoinDevice, HdlInv, seqVars
    <3>2. \A i \in 1..Len(StopList) : i < pos[h] + 1 => i < pos[h] \/ i = pos[h]
      BY <1>0
    <3> QED
      BY <1>0, <2>0, <3>1, <3>2 DEF HdlInv
  <2>6. ASSUME NEW h \in Handlers, JoinTwice(h) PROVE HdlInv'
    BY <1>0, <2>0, <2>6 DEF JoinTwice, HdlInv, seqVars, devVars, hdlVars
  <2>7. ASSUME NEW h \in Handlers, HandlerReturn(h) PROVE HdlInv'
    BY <1>0, <2>0, <2>7 DEF HandlerReturn, HdlInv, seqVars, devVars
  <2>8. CASE UNCHANGED vars
    BY <1>0, <2>0, <2>8 DEF HdlInv, vars, seqVars, devVars, hdlVars
  <2> QED
    BY <1>2, <2>1, <2>2, <2>3, <2>4, <2>5, <2>6, <2>7, <2>8 DEF Next, Sequence, Handler
<1> QED
  BY <1>1, <1>2

LEMMA JoinNext == TypeInv /\ IInv /\ [Next]_vars => JoinInv'
<1> SUFFICES ASSUME TypeInv, IInv, [Next]_vars PROVE JoinInv'
  OBVIOUS
<1>0. JoinInv /\ HdlInv /\ EarlyInv /\ BuildInv /\ Len(StopList) \in Nat
      /\ pos \in [Handlers -> Nat \ {0}] /\ joinable \in [Devices -> BOOLEAN]
  BY StopListType DEF IInv, TypeInv
<1>1. CASE InitButtons \/ InitPotis
  <2>1. \A d \in Started' : joinable'[d]
    BY <1>0, <1>1, GrowStep, EarlyNext DEF EarlyInv, Early
  <2> QED
    BY <2>1 DEF Started, JoinInv
<1>2. CASE ~InitButtons /\ ~InitPotis
  <2>0. UNCHANGED <<Buttons, Potis, StopList, Started>>
    BY <1>2, ListsFixed
  <2>1. CASE UNCHANGED <<joinable, pos>>
    BY <1>0, <2>0, <2>1 DEF JoinInv
  <2>2. ASSUME NEW h \in Handlers, JoinDevice(h) PROVE JoinInv'
    <3>1. /\ hdl[h] = "join"
          /\ joinable' = [joinable EXCEPT ![StopList[pos[h]]] = FALSE]
          /\ pos' = [pos EXCEPT ![h] = pos[h] + 1]
      BY <2>2 DEF JoinDevice
    <3>2. pos[h] \in 1..Len(StopList)
      BY <1>0, <3>1 DEF HdlInv
    <3>3. ASSUME NEW i \in 1..Len(StopList)
          PROVE  joinable'[StopList[i]] \/ \E g \in Handlers : pos'[g] > i
      <4>1. CASE StopList[i] = StopList[pos[h]]
        <5>1. i = pos[h]
          BY <1>0, <3>2, <4>1, ListDistinct
        <5>2. pos'[h] > i
          BY <1>0, <3>1, <5>1
        <5> QED
          BY <5>2
      <4>2. CASE StopList[i] # StopList[pos[h]] /\ joinable[StopList[i]]
        <5>1. StopList[i] \in Devices
          BY StopListType
        <5> QED
          BY <1>0, <3>1, <4>2, <5>1
      <4>3. CASE ~joinable[StopList[i]]
        <5>1. PICK g \in Handlers : pos[g] > i
          BY <1>0, <4>3 DEF JoinInv
        <5>2. pos'[g] > i
          BY <1>0, <3>1, <5>1
        <5> QED
          BY <5>2
      <4> QED
        BY <4>1, <4>2, <4>3
    <3> QED
      BY <2>0, <3>3 DEF JoinInv
  <2>3. ~(\E h \in Handlers : JoinDevice(h)) => UNCHANGED <<joinable, pos>>
    BY <1>2 DEF Next, Sequence, Create, InitLights, Created, MakeClients, LeaveLoop,
         Unregister, DeleteClients, DeleteBox, Main, ServerEnds, JoinSequence, CloseServer,
         JoinServer, DeleteLog, Exit, DeviceRest, Read, Start, Check, Leave, Call, NoteOnly,
         ToLight, Walk, Deliver, DevStep, Fire, Handler, StopDevice, JoinTwice, HandlerReturn,
         vars, devVars, hdlVars
  <2> QED
    BY <2>1, <2>2, <2>3
<1> QED
  BY <1>1, <1>2

LEMMA AbortNext == TypeInv /\ IInv /\ [Next]_vars => AbortNeedsTwo'
<1> SUFFICES ASSUME TypeInv, IInv, [Next]_vars PROVE AbortNeedsTwo'
  OBVIOUS
<1>0. LifeInv /\ HdlInv /\ JoinInv /\ AbortNeedsTwo /\ pos \in [Handlers -> Nat \ {0}]
  BY DEF IInv, TypeInv
<1>1. CASE InitButtons \/ InitPotis
  BY <1>1 DEF InitButtons, InitPotis, StartOne, Running, AbortNeedsTwo
<1>2. CASE Create \/ InitLights \/ Created \/ MakeClients \/ LeaveLoop \/ Unregister
           \/ DeleteClients
  BY <1>2 DEF Create, InitLights, Created, MakeClients, LeaveLoop, Unregister, DeleteClients,
       Running, AbortNeedsTwo
<1>3. CASE DeleteBox
  BY <1>0, <1>3 DEF DeleteBox, MustStop, LifeInv, Late, Running, AbortNeedsTwo
<1>4. CASE Main \/ ServerEnds
  BY <1>0, <1>4 DEF Main, ServerEnds, JoinSequence, CloseServer, JoinServer, DeleteLog, Exit,
                    hdlVars, AbortNeedsTwo
<1>5. ASSUME NEW d \in Devices, DeviceRest(d) \/ Read(d) PROVE AbortNeedsTwo'
  <2>1. Running /\ main' = main
    BY <1>5, DeviceStep
  <2> QED
    BY <2>1 DEF Running, AbortNeedsTwo
<1>6. ASSUME NEW h \in Handlers, Fire(h) \/ StopDevice(h) \/ JoinDevice(h) \/ HandlerReturn(h)
      PROVE  AbortNeedsTwo'
  BY <1>6 DEF Fire, StopDevice, JoinDevice, HandlerReturn, Running, AbortNeedsTwo
<1>7. ASSUME NEW h \in Handlers, JoinTwice(h) PROVE AbortNeedsTwo'
  <2>1. hdl[h] = "join" /\ ~joinable[StopList[pos[h]]] /\ UNCHANGED <<hdl, pos>>
    BY <1>7 DEF JoinTwice, hdlVars
  <2>2. pos[h] \in 1..Len(StopList)
    BY <1>0, <2>1, StopListType DEF HdlInv
  <2>3. PICK g \in Handlers : pos[g] > pos[h]
    BY <1>0, <2>1, <2>2 DEF JoinInv
  <2>4. g # h /\ hdl[g] # "idle"
    BY <1>0, <2>3 DEF HdlInv
  <2> QED
    BY <2>1, <2>3, <2>4 DEF AbortNeedsTwo
<1>8. CASE UNCHANGED vars
  BY <1>0, <1>8 DEF vars, hdlVars, AbortNeedsTwo
<1> QED
  BY <1>1, <1>2, <1>3, <1>4, <1>5, <1>6, <1>7, <1>8 DEF Next, Sequence, Handler

LEMMA Inductive == Spec => [](TypeInv /\ IInv)
<1>1. TypeInv /\ IInv /\ [Next]_vars => (TypeInv /\ IInv)'
  BY TypeNext, LifeNext, BuildNext, EarlyNext, DevNext, HdlNext, JoinNext, AbortNext DEF IInv
<1> QED
  BY <1>1, TypeInit, InitIInv, PTL DEF Spec

-----------------------------------------------------------------------------
(* While nobody has asked to stop, the box, the clients and the log exist, *)
(* for any settings and any number of devices and Ctrl events.             *)
THEOREM Alive == Spec => []AliveUntilStop
<1>1. IInv => AliveUntilStop
  BY DEF IInv, LifeInv, AliveUntilStop
<1> QED
  BY <1>1, Inductive, PTL

(* Once a handler has come through stopEventLoop before the event loop is  *)
(* left, no device there is meets a deleted object: every device with a    *)
(* thread is in the lists, and the handler has waited for each of them.    *)
THEOREM CleanTeardown == Spec => []CleanIfStopFirst
<1>1. IInv => CleanIfStopFirst
  BY DEF IInv, LifeInv, CleanIfStopFirst
<1> QED
  BY <1>1, Inductive, PTL

(* One Ctrl event joins every device once: it takes two inside             *)
(* stopEventLoop to end the program by a second join.                      *)
THEOREM SecondJoinNeedsTwo == Spec => []AbortNeedsTwo
<1>1. IInv => AbortNeedsTwo
  BY DEF IInv
<1> QED
  BY <1>1, Inductive, PTL

(* A handler that has come through stopEventLoop leaves no device running. *)
THEOREM StopIsComplete == Spec => []HandlerStopsAll
<1>1. TypeInv /\ IInv => HandlerStopsAll
  BY ReturnedStops DEF IInv, HandlerStopsAll
<1> QED
  BY <1>1, Inductive, PTL
=============================================================================

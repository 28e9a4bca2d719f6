------------------------------ MODULE ControlBox ------------------------------
(***************************************************************************)
(* The life of the control box: main(), the sequence thread that builds the*)
(* box, runs its event loop and tears it down (runLightLifeBox), the device*)
(* threads that call ControlBox::notify from the moment Init starts them,  *)
(* and the Ctrl handlers that call stopEventLoop.  What a device reads and *)
(* what the light does with a call are the modules Button and PILight, the *)
(* debug server is DebugServer; here a device only matters by the objects  *)
(* it uses and the order things die, the server by the join of its thread. *)
(*                                                                         *)
(* The use of an object that is not there is undefined; it is recorded in  *)
(* `fault` and the thread runs on.                                         *)
(***************************************************************************)
EXTENDS Naturals, Sequences

CONSTANTS
  Devices,    \* the buttons and potis there may be
  Handlers,   \* the Ctrl events that arrive
  Ending,     \* those after which Windows ends the process
  Configs     \* settings and builds considered: a set of Config records

(* buttons, potis: the settings' lists, <<device, its id is positive>>.    *)
(* silent: devices whose read may block for good (a silent test tool).     *)
(* known: the box's name is in the settings.  light: a PILight is listed.  *)
(* interface: a client has an interface to send on.  posix: a handler      *)
(* interrupts the main thread (a signal) and closing a socket wakes nobody *)
(* in accept; on Windows it has a thread of its own and the close does.    *)
Config ==
  [buttons : Seq(Devices \X BOOLEAN), potis : Seq(Devices \X BOOLEAN),
   silent : SUBSET Devices, known : BOOLEAN, light : BOOLEAN,
   interface : BOOLEAN, posix : BOOLEAN]

(* Every entry makes a device of its own.                                  *)
Distinct(list) == \A i, j \in 1..Len(list) : list[i][1] = list[j][1] => i = j

ASSUME CfgAssumption ==
  /\ Ending \subseteq Handlers
  /\ \A c \in Configs : c \in Config /\ Distinct(c.potis \o c.buttons)

VARIABLES
  cfg,              \* settings and build of this behaviour
  main,             \* main(): waits for the sequence thread, tears down, exits
  server,           \* the debug server's thread: "accepting" or "ended"
  seq,              \* the sequence thread
  next,             \* Init's loop index
  Buttons, Potis,   \* the vectors of started devices
  hasLights,        \* Lights is not empty
  clients,          \* "none", "made", "registered" with Lights[0]
  thisBox,          \* the handlers' pointer is set
  isDone,
  dead,             \* the objects deleted
  dev, done, joinable,  \* the device threads
  hdl, pos,         \* each handler and its place in the list of devices
  fault,            \* history: what was used though it is not there
  raced             \* history: teardown began though no handler had come
                    \* through stopEventLoop

seqVars == <<seq, next, Buttons, Potis, hasLights, clients, thisBox, dead, raced>>
devVars == <<dev, done, joinable>>
hdlVars == <<hdl, pos>>
vars == <<cfg, main, server, seqVars, isDone, devVars, hdlVars, fault>>

Objects == {"box", "clients", "log"}
Use(objs) == fault' = fault \cup (objs \cap dead)
HandlerUsesBox == fault' = IF "box" \in dead THEN fault \cup {"handler"} ELSE fault

Running == main \notin {"exited", "aborted"}
StopPotisOnly == Potis         \* a slip: stopEventLoop forgets the buttons
StopList == Potis \o Buttons
Started == {StopList[i] : i \in 1..Len(StopList)}
HandlerActive == \E h \in Handlers : hdl[h] \in {"stop", "join"}
StopReturned == \E h \in Handlers : hdl[h] = "returned"
DevStates ==
  {"none", "start", "check", "read", "call", "notify", "walk", "deliver", "leave", "stopped"}
Late == {"unregister", "deleteClients", "deleteBox", "ended"}   \* the teardown

Init ==
  /\ cfg \in Configs
  /\ main = "wait" /\ server = "accepting" /\ seq = "create" /\ next = 1
  /\ Buttons = <<>> /\ Potis = <<>> /\ hasLights = FALSE /\ clients = "none"
  /\ thisBox = FALSE /\ isDone = FALSE /\ dead = {}
  /\ dev = [d \in Devices |-> "none"]
  /\ done = [d \in Devices |-> FALSE]
  /\ joinable = [d \in Devices |-> FALSE]
  /\ hdl = [h \in Handlers |-> "idle"] /\ pos = [h \in Handlers |-> 1]
  /\ fault = {} /\ raced = FALSE

-----------------------------------------------------------------------------
(* The sequence thread: ControlBox::getInstance and Init.                  *)

(* The name decides whether there is anything to build.                    *)
Create ==
  /\ Running /\ seq = "create"
  /\ seq' = IF cfg.known THEN "buttons" ELSE "created"
  /\ isDone' = ~cfg.known
  /\ UNCHANGED <<cfg, main, server, next, Buttons, Potis, hasLights, clients, thisBox, dead,
                 raced, devVars, hdlVars, fault>>

(* One entry of a list.  The new device is pushed to the back but started  *)
(* through the entry's index: after a skipped entry that is no element.    *)
StartOne(list, vector, after) ==
  LET d == list[next][1] IN
  IF next > Len(list)
  THEN seq' = after /\ next' = 1 /\ UNCHANGED <<main, vector, devVars, fault>>
  ELSE /\ next' = next + 1
       /\ seq' = seq
       /\ CASE ~list[next][2] -> UNCHANGED <<main, vector, devVars, fault>>
            [] list[next][2] /\ next > Len(vector) + 1 ->
                 /\ fault' = fault \cup {"index"} /\ main' = "aborted"
                 /\ UNCHANGED <<vector, devVars>>
            [] OTHER ->
                 /\ vector' = Append(vector, d)
                 /\ dev' = [dev EXCEPT ![d] = "start"]
                 /\ joinable' = [joinable EXCEPT ![d] = TRUE]
                 /\ UNCHANGED <<main, done, fault>>

InitButtons ==
  /\ Running /\ seq = "buttons"
  /\ StartOne(cfg.buttons, Buttons, "potis")
  /\ UNCHANGED <<cfg, server, Potis, hasLights, clients, thisBox, dead, raced, isDone, hdlVars>>

InitPotis ==
  /\ Running /\ seq = "potis"
  /\ StartOne(cfg.potis, Potis, "lights")
  /\ UNCHANGED <<cfg, server, Buttons, hasLights, clients, thisBox, dead, raced, isDone, hdlVars>>

(* The lights come last, when the devices are already notifying.           *)
InitLights ==
  /\ Running /\ seq = "lights"
  /\ hasLights' = cfg.light
  /\ seq' = "created"
  /\ UNCHANGED <<cfg, main, server, next, Buttons, Potis, clients, thisBox, dead, raced, isDone,
                 devVars, hdlVars, fault>>

(* runLightLifeBox from here on.                                           *)
Created ==
  /\ Running /\ seq = "created"
  /\ IF isDone THEN seq' = "deleteBox" /\ UNCHANGED thisBox
               ELSE seq' = "clients" /\ thisBox' = TRUE
  /\ UNCHANGED <<cfg, main, server, next, Buttons, Potis, hasLights, clients, dead, raced, isDone,
                 devVars, hdlVars, fault>>

(* The clients are made; those with an interface are added to Lights[0].   *)
MakeClients ==
  /\ Running /\ seq = "clients"
  /\ clients' = IF cfg.interface /\ hasLights THEN "registered" ELSE "made"
  /\ fault' = IF cfg.interface /\ ~hasLights THEN fault \cup {"noLight"} ELSE fault
  /\ seq' = "loop"
  /\ UNCHANGED <<cfg, main, server, next, Buttons, Potis, hasLights, thisBox, dead, raced, isDone,
                 devVars, hdlVars>>

(* A slip: the event loop does not wait for isDone.                        *)
LeaveLoopAtOnce ==
  /\ Running /\ seq = "loop"
  /\ seq' = "unregister"
  /\ raced' = ~StopReturned
  /\ UNCHANGED <<cfg, main, server, next, Buttons, Potis, hasLights, clients, thisBox, dead,
                 isDone, devVars, hdlVars, fault>>

(* EventLoop polls isDone between sleeps.                                  *)
LeaveLoop ==
  /\ Running /\ seq = "loop" /\ isDone
  /\ seq' = "unregister"
  /\ raced' = ~StopReturned
  /\ UNCHANGED <<cfg, main, server, next, Buttons, Potis, hasLights, clients, thisBox, dead,
                 isDone, devVars, hdlVars, fault>>

Unregister ==
  /\ Running /\ seq = "unregister"
  /\ clients' = "made"
  /\ fault' = IF hasLights THEN fault ELSE fault \cup {"noLight"}
  /\ seq' = "deleteClients"
  /\ UNCHANGED <<cfg, main, server, next, Buttons, Potis, hasLights, thisBox, dead, raced, isDone,
                 devVars, hdlVars>>

DeleteClients ==
  /\ Running /\ seq = "deleteClients"
  /\ dead' = dead \cup {"clients"}
  /\ seq' = "deleteBox"
  /\ UNCHANGED <<cfg, main, server, next, Buttons, Potis, hasLights, clients, thisBox, raced,
                 isDone, devVars, hdlVars, fault>>

AlwaysStop == TRUE   \* a slip: the destructor does not ask isDone

(* The destructor stops the devices only if nobody has asked to stop: a    *)
(* join on a device that was joined already ends the program.              *)
MustStop == ~isDone
DeleteBox ==
  /\ Running /\ seq = "deleteBox"
  /\ IF MustStop /\ \E d \in Started : ~joinable[d]
     THEN main' = "aborted" /\ UNCHANGED <<seq, dead, isDone>>
     ELSE /\ MustStop => \A d \in Started : dev[d] = "stopped"
          /\ isDone' = TRUE
          /\ dead' = dead \cup {"box"} /\ seq' = "ended" /\ main' = main
  /\ UNCHANGED <<cfg, server, next, Buttons, Potis, hasLights, clients, thisBox, raced,
                 devVars, hdlVars, fault>>

Sequence ==
  \/ Create \/ InitButtons \/ InitPotis \/ InitLights \/ Created \/ MakeClients
  \/ LeaveLoop \/ Unregister \/ DeleteClients \/ DeleteBox

-----------------------------------------------------------------------------
(* main() after startSequenceThread; a signal handler running on the main  *)
(* thread holds it up.                                                     *)
MainFree == Running /\ ~(cfg.posix /\ HandlerActive)

JoinSequence ==
  /\ MainFree /\ main = "wait" /\ seq = "ended"
  /\ main' = "teardown"
  /\ UNCHANGED <<cfg, server, seqVars, isDone, devVars, hdlVars, fault>>

(* removeClients, then the debug server's destructor up to the join of its *)
(* thread: its streams and its listening socket are closed.                *)
CloseServer ==
  /\ MainFree /\ main = "teardown"
  /\ main' = "joinServer"
  /\ UNCHANGED <<cfg, server, seqVars, isDone, devVars, hdlVars, fault>>

JoinServer ==
  /\ MainFree /\ main = "joinServer" /\ server = "ended"
  /\ main' = "deleteLog"
  /\ UNCHANGED <<cfg, server, seqVars, isDone, devVars, hdlVars, fault>>

DeleteLog ==
  /\ MainFree /\ main = "deleteLog"
  /\ main' = "return"
  /\ dead' = dead \cup {"log"}
  /\ UNCHANGED <<cfg, server, seq, next, Buttons, Potis, hasLights, clients, thisBox, raced,
                 isDone, devVars, hdlVars, fault>>

(* Returning from main ends every thread that is left.                     *)
Exit ==
  /\ MainFree /\ main = "return"
  /\ main' = "exited"
  /\ UNCHANGED <<cfg, server, seqVars, isDone, devVars, hdlVars, fault>>

Main == JoinSequence \/ CloseServer \/ JoinServer \/ DeleteLog \/ Exit

-----------------------------------------------------------------------------
(* The debug server's thread: it ends when it cannot listen, when accept   *)
(* fails, and on Windows when its socket is closed under the accept.       *)
ServerEnds ==
  /\ Running /\ server = "accepting"
  /\ server' = "ended"
  /\ UNCHANGED <<cfg, main, seqVars, isDone, devVars, hdlVars, fault>>

CloseWakesServer == ~cfg.posix /\ main = "joinServer" /\ ServerEnds

-----------------------------------------------------------------------------
(* A device thread, from its first log line through the reading loop into  *)
(* notify and the light to its last log line.                              *)
DevStep(d, from, to) ==
  /\ Running /\ dev[d] = from
  /\ dev' = [dev EXCEPT ![d] = to]
  /\ UNCHANGED <<cfg, main, server, seqVars, isDone, done, joinable, hdlVars>>

Start(d) == DevStep(d, "start", "check") /\ Use({"log"})
Check(d) == DevStep(d, "check", IF done[d] THEN "leave" ELSE "read") /\ UNCHANGED fault
Leave(d) == DevStep(d, "leave", "stopped") /\ Use({"log"})
Read(d) == \E to \in {"check", "call"} : DevStep(d, "read", to) /\ UNCHANGED fault

(* Logging, then the virtual call of the observer.                         *)
Call(d) == DevStep(d, "call", "notify") /\ Use({"log", "box"})

(* notify ends at its log line or goes on to Lights[0].                    *)
NoteOnly(d) == DevStep(d, "notify", "check") /\ Use({"log", "box"})
ToLight(d) ==
  /\ DevStep(d, "notify", "walk")
  /\ fault' = fault \cup ({"log", "box"} \cap dead)
                    \cup (IF hasLights THEN {} ELSE {"noLight"})

(* The setter's loop over the registered clients.                          *)
Walk(d) ==
  /\ IF clients = "registered" THEN DevStep(d, "walk", "deliver")
                               ELSE DevStep(d, "walk", "check")
  /\ UNCHANGED fault
Deliver(d) == \E to \in {"walk", "check"} : DevStep(d, "deliver", to) /\ Use({"clients"})

DeviceRest(d) ==
  \/ Start(d) \/ Check(d) \/ Leave(d)
  \/ Call(d) \/ NoteOnly(d) \/ ToLight(d) \/ Walk(d) \/ Deliver(d)

-----------------------------------------------------------------------------
Ends(h) == h \in Ending /\ ~cfg.posix

(* A Ctrl handler: stopEventLoop on thisBox, if there is one.              *)
Fire(h) ==
  /\ Running /\ hdl[h] = "idle"
  /\ cfg.posix => ~HandlerActive
  /\ IF thisBox
     THEN /\ isDone' = TRUE
          /\ hdl' = [hdl EXCEPT ![h] = "stop"]
          /\ HandlerUsesBox
          /\ main' = main
     ELSE /\ hdl' = [hdl EXCEPT ![h] = "ignored"]
          /\ main' = IF Ends(h) THEN "exited" ELSE main
          /\ UNCHANGED <<isDone, fault>>
  /\ UNCHANGED <<cfg, server, seqVars, devVars, pos>>

(* A slip: join without done.                                              *)
StopDeviceJoinsOnly(h) ==
  /\ Running /\ hdl[h] = "stop" /\ pos[h] <= Len(StopList)
  /\ hdl' = [hdl EXCEPT ![h] = "join"]
  /\ HandlerUsesBox
  /\ UNCHANGED <<cfg, main, server, seqVars, isDone, devVars, pos>>

(* Button::stop of the next device: done, then join.                       *)
StopDevice(h) ==
  /\ Running /\ hdl[h] = "stop" /\ pos[h] <= Len(StopList)
  /\ done' = [done EXCEPT ![StopList[pos[h]]] = TRUE]
  /\ hdl' = [hdl EXCEPT ![h] = "join"]
  /\ HandlerUsesBox
  /\ UNCHANGED <<cfg, main, server, seqVars, isDone, dev, joinable, pos>>

(* Slips: the thread is detached instead of joined; the list is walked the *)
(* wrong way.                                                              *)
DetachDevice(h) ==
  /\ Running /\ hdl[h] = "join"
  /\ joinable[StopList[pos[h]]]
  /\ joinable' = [joinable EXCEPT ![StopList[pos[h]]] = FALSE]
  /\ hdl' = [hdl EXCEPT ![h] = "stop"]
  /\ pos' = [pos EXCEPT ![h] = @ + 1]
  /\ UNCHANGED <<cfg, main, server, seqVars, isDone, dev, done, fault>>
JoinBackwards(h) ==
  /\ Running /\ hdl[h] = "join"
  /\ dev[StopList[pos[h]]] = "stopped"
  /\ hdl' = [hdl EXCEPT ![h] = "stop"]
  /\ pos' = [pos EXCEPT ![h] = @ - 1]
  /\ UNCHANGED <<cfg, main, server, seqVars, isDone, devVars, fault>>

(* join() returns when the thread has ended.                               *)
JoinDevice(h) ==
  /\ Running /\ hdl[h] = "join"
  /\ LET d == StopList[pos[h]] IN
       /\ joinable[d] /\ dev[d] = "stopped"
       /\ joinable' = [joinable EXCEPT ![d] = FALSE]
  /\ hdl' = [hdl EXCEPT ![h] = "stop"]
  /\ pos' = [pos EXCEPT ![h] = @ + 1]
  /\ UNCHANGED <<cfg, main, server, seqVars, isDone, dev, done, fault>>

(* join() on a thread somebody has joined throws; nobody catches it.       *)
JoinTwice(h) ==
  /\ Running /\ hdl[h] = "join"
  /\ ~joinable[StopList[pos[h]]]
  /\ main' = "aborted"
  /\ UNCHANGED <<cfg, server, seqVars, isDone, devVars, hdlVars, fault>>

HandlerReturn(h) ==
  /\ Running /\ hdl[h] = "stop" /\ pos[h] > Len(StopList)
  /\ hdl' = [hdl EXCEPT ![h] = "returned"]
  /\ main' = IF Ends(h) THEN "exited" ELSE main
  /\ UNCHANGED <<cfg, server, seqVars, isDone, devVars, pos, fault>>

Handler(h) == StopDevice(h) \/ JoinDevice(h) \/ JoinTwice(h) \/ HandlerReturn(h)

-----------------------------------------------------------------------------
Next ==
  \/ Sequence \/ Main \/ ServerEnds
  \/ \E d \in Devices : DeviceRest(d) \/ Read(d)
  \/ \E h \in Handlers : Fire(h) \/ Handler(h)

(* Every thread runs, except a device whose read may block and a server    *)
(* that sits in accept until Windows wakes it; Ctrl events come when they  *)
(* like.                                                                   *)
Fairness ==
  /\ WF_vars(Sequence) /\ WF_vars(Main) /\ WF_vars(CloseWakesServer)
  /\ \A d \in Devices : WF_vars(DeviceRest(d))
  /\ \A d \in Devices : WF_vars(d \notin cfg.silent /\ Read(d))
  /\ \A h \in Handlers : WF_vars(Handler(h))

Spec == Init /\ [][Next]_vars
FairSpec == Spec /\ Fairness

-----------------------------------------------------------------------------
TypeInv ==
  /\ cfg \in Configs
  /\ main \in {"wait", "teardown", "joinServer", "deleteLog", "return", "exited", "aborted"}
  /\ server \in {"accepting", "ended"}
  /\ seq \in {"create", "buttons", "potis", "lights", "created", "clients", "loop",
             "unregister", "deleteClients", "deleteBox", "ended"}
  /\ next \in Nat \ {0}
  /\ Buttons \in Seq(Devices) /\ Potis \in Seq(Devices)
  /\ hasLights \in BOOLEAN /\ thisBox \in BOOLEAN
  /\ isDone \in BOOLEAN /\ raced \in BOOLEAN
  /\ clients \in {"none", "made", "registered"}
  /\ dead \subseteq Objects
  /\ dev \in [Devices -> DevStates]
  /\ done \in [Devices -> BOOLEAN] /\ joinable \in [Devices -> BOOLEAN]
  /\ hdl \in [Handlers -> {"idle", "stop", "join", "returned", "ignored"}]
  /\ pos \in [Handlers -> Nat \ {0}]
  /\ fault \subseteq Objects \cup {"handler", "noLight", "index"}

(* No device uses a deleted object unless the teardown has overtaken the   *)
(* stop: once a handler has come through stopEventLoop, the deletions of   *)
(* runLightLifeBox and main are safe from every device there is.           *)
CleanIfStopFirst == ~raced => fault \cap Objects = {}

(* While nobody has asked to stop, everything the devices use is alive.    *)
AliveUntilStop == ~isDone => dead = {}

(* The program dies of a second join only when two Ctrl events have both   *)
(* gone into stopEventLoop: one Ctrl-C, whatever the box's destructor and  *)
(* the threads do, joins every device once.                                *)
AbortNeedsTwo ==
  main = "aborted" /\ "index" \notin fault =>
    \E h, g \in Handlers :
      h # g /\ hdl[h] # "idle" /\ hdl[g] # "idle" /\ pos[g] > pos[h]

Stopped(d) == dev[d] \in {"none", "stopped"}

(* A handler that came through stopEventLoop leaves no device running.     *)
HandlerStopsAll == StopReturned => \A d \in Devices : Stopped(d)

(* The join in the debug server's destructor waits for a thread nobody     *)
(* wakes: on POSIX closing the socket does not end the accept.             *)
HangsOnServer == cfg.posix /\ main = "joinServer" /\ server = "accepting"

(* Once the stop is asked for, the program ends, with two exceptions: a    *)
(* handler on the main thread waits for a device that never comes back     *)
(* from its read, and main waits for a server thread nobody wakes.         *)
StopEndsProgram ==
  (isDone /\ ~(cfg.posix /\ cfg.silent # {})) ~> (~Running \/ HangsOnServer)

(* "stopEventLoop(); this is done from Ctr-C Handler" (ControlBox.cpp:106):*)
(* when the event loop has been left the devices have been stopped.        *)
TeardownAfterStop == seq \in Late => \A d \in Devices : Stopped(d)
=============================================================================

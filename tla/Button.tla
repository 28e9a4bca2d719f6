-------------------------------- MODULE Button --------------------------------
(***************************************************************************)
(* One input device: the thread of a Button or TastButton (poti), the TCP  *)
(* connection its TestClient reads in the debug builds, the test tool at   *)
(* the other end (ControlBoxTester/TCPServer.cs) and the thread that stops *)
(* the device.                                                             *)
(*                                                                         *)
(* A message is what the tool prints of its Value: "press" is -1,          *)
(* "release" is 1001, "turn" is a poti position 0..255.  A port value is   *)
(* what the device's tests tell apart: "neg" (< 0), "mid" (0..1000),       *)
(* "high" (> 1000).  Nothing separates messages on the connection.         *)
(***************************************************************************)
EXTENDS Naturals, Sequences

CONSTANTS
  Configs,      \* the devices and builds considered: a set of Config records
  MaxGestures,  \* bound: what the user of the test tool does
  MaxNet        \* bound: messages in flight, then the tool's Write blocks

(* poti: the device is a TastButton.  connected: its TestClient's connect()*)
(* succeeded.  stale: digits of an older message may follow a message in   *)
(* the receive buffer, which is not cleared.                               *)
Config == [poti : BOOLEAN, connected : BOOLEAN, stale : BOOLEAN]

ASSUME ButtonAssumption ==
  /\ Configs \subseteq Config
  /\ MaxGestures \in Nat /\ MaxNet \in Nat \ {0}

Message == {"press", "release", "turn"}
PortVals == {"neg", "mid", "high"}
Events == {"none", "DOWN", "UP"}

VARIABLES
  cfg,        \* the device and build of this behaviour
  pc,         \* the device thread
  PortVal, isPressed, done,
  event,      \* the event being notified
  stopper,    \* the thread in Button::stop
  conn, net,  \* the connection and what is on its way to the device
  registered, \* the tool knows the device by its name
  ui,         \* the tool's user interface thread
  value, signal, closing,   \* Value, the auto-reset event and done of SignalButton
  sender, buffer,  \* the tool's thread for this connection, what it is writing
  held, gestures,           \* the user: mouse button down, gestures so far
  told, single,             \* history: last gesture signalled, last read one message
  lastEvent, presses, downs, late  \* history: events notified

device == <<pc, PortVal, isPressed, event>>
tool == <<registered, ui, value, signal, closing, sender, buffer, held,
          gestures, told, presses>>
line == <<conn, net>>
past == <<single, lastEvent, downs, late>>
vars == <<cfg, device, done, stopper, line, tool, past>>

Poti == cfg.poti
Init ==
  /\ cfg \in Configs
  /\ pc = "check" /\ PortVal = "mid" /\ isPressed = FALSE /\ done = FALSE
  /\ event = "none"
  /\ stopper = "idle"
  /\ conn = IF cfg.connected THEN "open" ELSE "none"
  /\ net = <<>>
  /\ registered = FALSE /\ ui = "idle" /\ value = "turn" /\ signal = FALSE
  /\ closing = FALSE /\ sender = "wait" /\ buffer = "none" /\ held = FALSE /\ gestures = 0
  /\ told = FALSE /\ single = TRUE
  /\ lastEvent = "none" /\ presses = 0 /\ downs = 0 /\ late = 0

-----------------------------------------------------------------------------
(* The device thread.                                                      *)

(* A slip: the loop condition is gone.                                     *)
CheckForgotten ==
  /\ pc = "check"
  /\ pc' = "read"
  /\ UNCHANGED <<cfg, PortVal, isPressed, event, done, stopper, line, tool, past>>

(* while (!done)                                                           *)
Check ==
  /\ pc = "check"
  /\ pc' = IF done THEN "stopped" ELSE "read"
  /\ UNCHANGED <<cfg, PortVal, isPressed, event, done, stopper, line, tool, past>>

(* A slip: the sign is lost, a press reads as a small number.              *)
DecodeUnsigned(msgs) ==
  CASE Head(msgs) = "release" -> {"high"}
    [] OTHER                  -> {"mid", "high"}

(* atoi over the bytes of one recv().  A minus sign ends a number, digits  *)
(* lengthen it; numbers of ten digits and more (overflow) are left out.    *)
Decode(msgs) ==
  CASE Head(msgs) = "press"   -> {"neg"}
    [] Head(msgs) = "release" -> {"high"}
    [] OTHER ->
         IF Len(msgs) = 1 THEN IF cfg.stale THEN {"mid", "high"} ELSE {"mid"}
         ELSE CASE msgs[2] = "press"   -> {"mid"}
                [] msgs[2] = "release" -> {"high"}
                [] OTHER               -> {"mid", "high"}

(* getPortVal() on a connection with bytes: recv() takes a prefix of them. *)
ReadMessages ==
  /\ pc = "read"
  /\ \E k \in 1..Len(net) :
       /\ PortVal' \in Decode(SubSeq(net, 1, k))
       /\ net' = SubSeq(net, k + 1, Len(net))
       /\ single' = (k = 1)
  /\ pc' = "act"
  /\ UNCHANGED <<cfg, isPressed, event, done, stopper, conn, tool, lastEvent, downs, late>>

(* Without a connection, or at its end, receive() gives "" and atoi gives 0*)
ReadNothing ==
  /\ pc = "read"
  /\ conn # "open"
  /\ net = <<>>
  /\ PortVal' = "mid"
  /\ pc' = "act"
  /\ UNCHANGED <<cfg, isPressed, event, done, stopper, line, tool, past>>

(* One turn of the loop after the read: at most one event.                 *)
Notifying(e) ==
  /\ event' = e
  /\ pc' = "notify"
  /\ late' = IF done THEN late + 1 ELSE late
  /\ UNCHANGED <<cfg, PortVal, done, stopper, line, tool, single, lastEvent, downs>>

(* Slips: a pressed button goes down again; a release is not remembered.   *)
ButtonDownAgain ==
  /\ pc = "act" /\ PortVal = "neg"
  /\ isPressed' = TRUE
  /\ Notifying("DOWN")
ButtonUpForgotten ==
  /\ pc = "act" /\ isPressed /\ PortVal = "high"
  /\ isPressed' = isPressed
  /\ Notifying("UP")

ButtonDown ==
  /\ pc = "act" /\ ~isPressed /\ PortVal = "neg"
  /\ isPressed' = TRUE
  /\ Notifying("DOWN")

ButtonUp ==
  /\ pc = "act" /\ isPressed /\ PortVal = "high"
  /\ isPressed' = FALSE
  /\ Notifying("UP")

(* OnChange notifies BUTTON_UP, not BUTTON_CHANGE.                         *)
OnChange ==
  /\ pc = "act" /\ Poti /\ PortVal = "mid"
  /\ isPressed' = isPressed
  /\ Notifying("UP")

Ignore ==
  /\ pc = "act"
  /\ ~(~isPressed /\ PortVal = "neg")
  /\ ~(isPressed /\ PortVal = "high")
  /\ ~(Poti /\ PortVal = "mid")
  /\ pc' = "check"
  /\ UNCHANGED <<cfg, PortVal, isPressed, event, done, stopper, line, tool, past>>

(* The observer's notify() has returned.                                   *)
Notified ==
  /\ pc = "notify"
  /\ lastEvent' = event
  /\ downs' = IF event = "DOWN" THEN downs + 1 ELSE downs
  /\ event' = "none"
  /\ pc' = "check"
  /\ UNCHANGED <<cfg, PortVal, isPressed, done, stopper, line, tool, single, late>>

Device ==
  \/ Check \/ ReadMessages \/ ReadNothing \/ ButtonDown \/ ButtonUp \/ OnChange
  \/ Ignore \/ Notified

-----------------------------------------------------------------------------
(* A slip: stop() joins without having set done.                           *)
StopJoinsOnly ==
  /\ stopper = "idle"
  /\ stopper' = "joining"
  /\ UNCHANGED <<cfg, device, done, line, tool, past>>

(* Button::stop, called by the thread that ends the event loop.            *)
Stop ==
  /\ stopper = "idle"
  /\ done' = TRUE
  /\ stopper' = "joining"
  /\ UNCHANGED <<cfg, device, line, tool, past>>

Join ==
  /\ stopper = "joining"
  /\ pc = "stopped"
  /\ stopper' = "joined"
  /\ UNCHANGED <<cfg, device, done, line, tool, past>>

-----------------------------------------------------------------------------
(* The test tool.                                                          *)

(* HandleClientComm has read the device's name and lists it.               *)
Register ==
  /\ conn = "open" /\ ~registered
  /\ registered' = TRUE
  /\ UNCHANGED <<cfg, device, done, stopper, line, ui, value, signal, closing, sender, buffer,
                 held, gestures, told, presses, past>>

(* A gesture sets Value in every listed device of that name ...            *)
Gesture(g) ==
  /\ conn # "none" /\ ui = "idle"
  /\ gestures < MaxGestures
  /\ g = "press" => ~held
  /\ g = "release" => held
  /\ g = "turn" => Poti /\ ~held
  /\ held' = (g = "press")
  /\ gestures' = gestures + 1
  /\ presses' = IF g = "press" THEN presses + 1 ELSE presses
  /\ told' = registered
  /\ IF registered THEN value' = g /\ ui' = "set" ELSE UNCHANGED <<value, ui>>
  /\ UNCHANGED <<cfg, device, done, stopper, line, registered, signal, closing, sender, buffer,
                 past>>

(* ... and then sets the event.                                            *)
Signal ==
  /\ ui = "set"
  /\ signal' = TRUE
  /\ ui' = "idle"
  /\ UNCHANGED <<cfg, device, done, stopper, line, registered, value, closing, sender, buffer,
                 held, gestures, told, presses, past>>

(* The tool's window closes: TCPServer.Close tells the listed devices.     *)
Close ==
  /\ conn # "none" /\ ui = "idle"
  /\ ui' = "gone"
  /\ closing' = registered
  /\ signal' = (registered \/ signal)
  /\ UNCHANGED <<cfg, device, done, stopper, line, registered, value, sender, buffer,
                 held, gestures, told, presses, past>>

(* WaitOne returns and resets the event; a closing tool hangs up.          *)
Wake ==
  /\ sender = "wait" /\ registered /\ signal
  /\ signal' = FALSE
  /\ sender' = IF closing THEN "gone" ELSE "send"
  /\ conn' = IF closing THEN "closed" ELSE conn
  /\ UNCHANGED <<cfg, device, done, stopper, net, registered, ui, value, closing, buffer,
                 held, gestures, told, presses, past>>

(* The Value of this moment is encoded, not the one that was signalled ... *)
Load ==
  /\ sender = "send"
  /\ buffer' = value
  /\ sender' = "write"
  /\ UNCHANGED <<cfg, device, done, stopper, line, registered, ui, value, signal, closing,
                 held, gestures, told, presses, past>>

(* A slip: the event is reset after the write, with what was set meanwhile.*)
WriteThenReset ==
  /\ sender = "write" /\ Len(net) < MaxNet
  /\ net' = Append(net, buffer) /\ buffer' = "none"
  /\ signal' = FALSE
  /\ sender' = IF closing THEN "gone" ELSE "wait"
  /\ conn' = IF closing THEN "closed" ELSE conn
  /\ UNCHANGED <<cfg, device, done, stopper, registered, ui, value, closing,
                 held, gestures, told, presses, past>>

(* ... and written; a tool that has closed meanwhile hangs up.             *)
Write ==
  /\ sender = "write" /\ Len(net) < MaxNet
  /\ net' = Append(net, buffer) /\ buffer' = "none"
  /\ sender' = IF closing THEN "gone" ELSE "wait"
  /\ conn' = IF closing THEN "closed" ELSE conn
  /\ UNCHANGED <<cfg, device, done, stopper, registered, ui, value, signal, closing,
                 held, gestures, told, presses, past>>

Tool == Register \/ Signal \/ Wake \/ Load \/ Write
User == (\E g \in Message : Gesture(g)) \/ Close

-----------------------------------------------------------------------------
Next == Device \/ Stop \/ Join \/ Tool \/ User

(* Threads that can run do run: the device's, the one that joins it and    *)
(* the tool's.  Nothing makes the user act or anybody call stop().         *)
Fairness == WF_vars(Device) /\ WF_vars(Join) /\ WF_vars(Tool)

Spec == Init /\ [][Next]_vars
FairSpec == Spec /\ Fairness

-----------------------------------------------------------------------------
TypeInv ==
  /\ cfg \in Configs
  /\ pc \in {"check", "read", "act", "notify", "stopped"}
  /\ PortVal \in PortVals
  /\ isPressed \in BOOLEAN /\ done \in BOOLEAN
  /\ event \in Events
  /\ stopper \in {"idle", "joining", "joined"}
  /\ conn \in {"none", "open", "closed"}
  /\ net \in Seq(Message)
  /\ registered \in BOOLEAN /\ signal \in BOOLEAN /\ closing \in BOOLEAN
  /\ ui \in {"idle", "set", "gone"}
  /\ value \in Message
  /\ sender \in {"wait", "send", "write", "gone"}
  /\ buffer \in Message \cup {"none"} /\ (sender = "write" => buffer \in Message)
  /\ held \in BOOLEAN /\ told \in BOOLEAN /\ single \in BOOLEAN
  /\ lastEvent \in Events
  /\ gestures \in Nat /\ presses \in Nat /\ downs \in Nat /\ late \in Nat

(* A plain button's observer sees DOWN and UP in turn, DOWN first, whatever*)
(* the tool overwrites, repeats or runs together.                          *)
Alternation ==
  [][pc = "notify" /\ pc' # "notify" /\ ~Poti =>
       (event = "DOWN" <=> lastEvent # "DOWN")]_vars

(* After stop() has set done, the device notifies at most once more: the   *)
(* iteration it is in.  That one call may come while the box is torn down. *)
LateAtMostOnce == late <= 1

(* No DOWN without a press of its own: repeated and merged messages never  *)
(* turn one press into two.                                                *)
DownsHavePresses == downs <= presses

(* Nothing is on its way to the device and it waits for the next message.  *)
Settled ==
  /\ ui = "idle" /\ ~signal /\ sender = "wait" /\ net = <<>> /\ pc = "read"

(* At rest a device, button or poti, has read the Value the tool holds,    *)
(* provided the last gesture found it listed and the last read took one    *)
(* message: Value and event are set in two steps, an event set twice wakes *)
(* the sender once, and still the last gesture is never lost.              *)
LastValueArrives == Settled /\ told /\ single => PortVal \in Decode(<<value>>)

(* A plain button at rest believes what the user's hand does, provided the *)
(* last gesture found the device listed and the last read took one message.*)
(* Values overwritten before they were sent do no harm, and one message    *)
(* read alone heals what a merged read left wrong.                         *)
SettledAgrees == ~Poti /\ Settled /\ told /\ single => isPressed = held

(* stop() comes back unless the device is left reading an open connection. *)
StopReturnsUnlessOpen ==
  (stopper = "joining" /\ conn # "open") ~> (stopper = "joined")

(* A press is noticed, unless the user lets go first, the reads run        *)
(* together, the tool hangs up or the device is stopped.                   *)
PressNoticed ==
  (held /\ told /\ ~Poti) ~> (isPressed \/ ~held \/ ~single \/ closing \/ done)

=============================================================================

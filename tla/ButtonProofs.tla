---------------------------- MODULE ButtonProofs ----------------------------
(***************************************************************************)
(* Proofs about Button: for plain buttons and potis, with or without a     *)
(* test tool, whatever the bounds on gestures and messages in flight.      *)
(***************************************************************************)
EXTENDS Button, SequenceTheorems, TLAPS

LEMMA TypeInit == Init => TypeInv
<1> SUFFICES ASSUME Init PROVE TypeInv
  OBVIOUS
<1>1. conn \in {"none", "open", "closed"}
  BY DEF Init
<1>2. net \in Seq(Message) /\ value \in Message
  BY DEF Init, Message
<1> QED
  BY <1>1, <1>2 DEF Init, TypeInv, PortVals, Events

LEMMA DecodeType == ASSUME NEW msgs PROVE Decode(msgs) \subseteq PortVals
BY DEF Decode, PortVals

LEMMA TailType ==
  ASSUME NEW s \in Seq(Message), NEW k \in 1..Len(s)
  PROVE  SubSeq(s, k + 1, Len(s)) \in Seq(Message)
<1>1. \A i \in (k + 1)..Len(s) : s[i] \in Message
  OBVIOUS
<1> QED
  BY <1>1, SubSeqProperties

LEMMA TypeNext == TypeInv /\ [Next]_vars => TypeInv'
<1> SUFFICES ASSUME TypeInv, [Next]_vars PROVE TypeInv'
  OBVIOUS
<1> USE DEF TypeInv, device, tool, line, past
<1>1. CASE Check
  BY <1>1 DEF Check
<1>2. CASE ReadMessages
  <2> PICK k \in 1..Len(net) : /\ PortVal' \in Decode(SubSeq(net, 1, k))
                               /\ net' = SubSeq(net, k + 1, Len(net))
                               /\ single' = (k = 1)
    BY <1>2 DEF ReadMessages
  <2>1. PortVal' \in PortVals /\ net' \in Seq(Message) /\ single' \in BOOLEAN
    BY DecodeType, TailType
  <2> QED
    BY <1>2, <2>1 DEF ReadMessages
<1>3. CASE ReadNothing
  BY <1>3 DEF ReadNothing, PortVals
<1>4. CASE ButtonDown \/ ButtonUp \/ OnChange
  <2>1. PICK e \in {"DOWN", "UP"} : Notifying(e) /\ isPressed' \in BOOLEAN
    BY <1>4 DEF ButtonDown, ButtonUp, OnChange
  <2>2. late' \in Nat
    BY <2>1 DEF Notifying
  <2> QED
    BY <2>1, <2>2 DEF Notifying, Events
<1>5. CASE Ignore \/ Notified
  BY <1>5 DEF Ignore, Notified, Events
<1>6. CASE Stop \/ Join
  BY <1>6, ZenonT(30) DEF Stop, Join
<1>7. CASE Register \/ Signal
  BY <1>7 DEF Register, Signal
<1>8. ASSUME NEW g \in Message, Gesture(g) PROVE TypeInv'
  <2>1. held' \in BOOLEAN /\ told' \in BOOLEAN /\ value' \in Message
        /\ ui' \in {"idle", "set", "gone"} /\ presses' \in Nat /\ gestures' \in Nat
    BY <1>8 DEF Gesture
  <2> QED
    BY <1>8, <2>1 DEF Gesture
<1>9. CASE Close
  BY <1>9 DEF Close
<1>10. CASE Wake
  BY <1>10, ZenonT(30) DEF Wake
<1>11. CASE Load
  BY <1>11 DEF Load
<1>12. CASE Write
  <2>1. net' \in Seq(Message)
    BY <1>12 DEF Write
  <2> QED
    BY <1>12, <2>1 DEF Write
<1>13. CASE UNCHANGED vars
  BY <1>13 DEF vars
<1> QED
  BY <1>1, <1>2, <1>3, <1>4, <1>5, <1>6, <1>7, <1>8, <1>9, <1>10, <1>11, <1>12, <1>13
  DEF Next, Device, Tool, User

(* The configuration of a behaviour never changes.                         *)
LEMMA ConfigFixed == [Next]_vars => cfg' = cfg
BY DEF Next, Device, Tool, User, Check, ReadMessages, ReadNothing, ButtonDown, ButtonUp,
       OnChange, Notifying, Ignore, Notified, Stop, Join, Register, Signal, Wake, Load, Write,
       Gesture, Close, vars

LEMMA PotiFixed == [Next]_vars => Poti' = Poti
BY ConfigFixed DEF Poti

(* Type correctness of the device, the connection and the test tool.       *)
THEOREM TypeCorrect == Spec => []TypeInv
BY TypeInit, TypeNext, PTL DEF Spec

-----------------------------------------------------------------------------
(* Events after the stop request.  Nothing is late before done is set, and *)
(* a device that has notified late is on its way out of its loop.          *)
LateIInv ==
  /\ late \in {0, 1}
  /\ late = 1 => done /\ pc \in {"notify", "check", "stopped"}

LEMMA LateNext == LateIInv /\ [Next]_vars => LateIInv'
<1> SUFFICES ASSUME LateIInv, [Next]_vars PROVE LateIInv'
  OBVIOUS
<1> USE DEF LateIInv, device, tool, line, past
<1>1. CASE Check
  BY <1>1 DEF Check
<1>2. CASE ReadMessages \/ ReadNothing
  BY <1>2 DEF ReadMessages, ReadNothing
<1>3. CASE ButtonDown \/ ButtonUp \/ OnChange
  BY <1>3 DEF ButtonDown, ButtonUp, OnChange, Notifying
<1>4. CASE Ignore \/ Notified
  BY <1>4 DEF Ignore, Notified
<1>5. CASE Stop \/ Join
  BY <1>5 DEF Stop, Join
<1>6. CASE Tool \/ User
  BY <1>6 DEF Tool, User, Register, Signal, Wake, Load, Write, Gesture,
               Close
<1>7. CASE UNCHANGED vars
  BY <1>7 DEF vars
<1> QED
  BY <1>1, <1>2, <1>3, <1>4, <1>5, <1>6, <1>7 DEF Next, Device

(* Once stop() has been called a device, plain or poti, calls its observer *)
(* at most once more.                                                      *)
THEOREM LateEvents == Spec => []LateAtMostOnce
<1>1. Init => LateIInv
  BY DEF Init, LateIInv
<1>2. LateIInv => LateAtMostOnce
  BY DEF LateIInv, LateAtMostOnce
<1> QED
  BY <1>1, <1>2, LateNext, PTL DEF Spec

-----------------------------------------------------------------------------
(* DOWN and UP in turn.  Between notifications isPressed says which event  *)
(* the observer saw last; during one it is already ahead.                  *)
AlternationIInv ==
  ~Poti =>
    IF pc = "notify"
    THEN (event = "DOWN" <=> lastEvent # "DOWN") /\ (isPressed <=> event = "DOWN")
    ELSE isPressed <=> lastEvent = "DOWN"

LEMMA AlternationNext == TypeInv /\ AlternationIInv /\ [Next]_vars => AlternationIInv'
<1> SUFFICES ASSUME ~Poti, TypeInv, AlternationIInv, [Next]_vars PROVE AlternationIInv'
  BY PotiFixed DEF AlternationIInv
<1> USE DEF AlternationIInv, device, tool, line, past
<1>1. CASE Check
  BY <1>1 DEF Check
<1>2. CASE ReadMessages \/ ReadNothing
  BY <1>2 DEF ReadMessages, ReadNothing
<1>3. CASE ButtonDown
  BY <1>3 DEF ButtonDown, Notifying
<1>4. CASE ButtonUp
  BY <1>4 DEF ButtonUp, Notifying
<1>5. CASE OnChange
  BY <1>5 DEF OnChange
<1>6. CASE Ignore
  BY <1>6 DEF Ignore
<1>7. CASE Notified
  BY <1>7 DEF Notified
<1>8. CASE Stop \/ Join
  BY <1>8 DEF Stop, Join
<1>9. CASE Tool \/ User
  BY <1>9 DEF Tool, User, Register, Signal, Wake, Load, Write, Gesture,
               Close
<1>10. CASE UNCHANGED vars
  BY <1>10 DEF vars
<1> QED
  BY <1>1, <1>2, <1>3, <1>4, <1>5, <1>6, <1>7, <1>8, <1>9, <1>10 DEF Next, Device

(* A plain button's observer sees DOWN and UP strictly in turn, whatever   *)
(* arrives on the connection.                                              *)
THEOREM EventsAlternate == Spec => Alternation
<1>1. Init => AlternationIInv
  BY DEF Init, AlternationIInv
<1>2. AlternationIInv =>
        (pc = "notify" /\ pc' # "notify" /\ ~Poti => (event = "DOWN" <=> lastEvent # "DOWN"))
  BY DEF AlternationIInv
<1> QED
  BY <1>1, <1>2, TypeInit, TypeNext, AlternationNext, PTL DEF Spec, Alternation

-----------------------------------------------------------------------------
(* The last Value.  What the user last did is the tool's Value; until it   *)
(* has been encoded it is pending, then it is in the sender's hand, then   *)
(* the last message on the connection, then the last port value.           *)
Pending == ui = "set" \/ signal \/ sender = "send"

OnItsWay ==
  CASE sender = "write" -> buffer = value
    [] sender # "write" /\ net # <<>> -> net[Len(net)] = value
    [] OTHER -> single => PortVal \in Decode(<<value>>)

ArrivesIInv ==
  /\ conn = "closed" => sender = "gone"
  /\ conn = "none" => ~registered
  /\ told => registered
  /\ told /\ sender # "gone" /\ ~Pending => OnItsWay

LEMMA ReadOnItsWay ==
  ASSUME TypeInv, ReadMessages, net # <<>>, net[Len(net)] = value
  PROVE  /\ net' # <<>> => net'[Len(net')] = value
         /\ net' = <<>> /\ single' => PortVal' \in Decode(<<value>>)
<1> PICK k \in 1..Len(net) : /\ PortVal' \in Decode(SubSeq(net, 1, k))
                             /\ net' = SubSeq(net, k + 1, Len(net))
                             /\ single' = (k = 1)
  BY DEF ReadMessages
<1>1. net \in Seq(Message) /\ Len(net) \in Nat
  BY DEF TypeInv
<1>2. CASE k < Len(net)
  <2>0. \A i \in (k + 1)..Len(net) : net[i] \in Message
    BY <1>1
  <2>1. k \in Nat /\ k + 1 \in Int /\ Len(net) \in Int
    BY <1>1
  <2>2. /\ Len(net') = Len(net) - k
        /\ \A i \in 1..(Len(net) - (k + 1) + 1) : net'[i] = net[k + 1 + i - 1]
    BY <2>0, <2>1, <1>1, <1>2, SubSeqProperties
  <2>3. net'[Len(net) - k] = net[Len(net)]
    BY <2>1, <2>2, <1>2
  <2>4. net'[Len(net')] = value
    BY <2>2, <2>3
  <2>5. net' # <<>>
    <3>1. Len(net') # 0
      BY <2>1, <2>2, <1>2
    <3>2. Len(<<>>) = 0
      OBVIOUS
    <3> QED
      BY <3>1, <3>2, Zenon
  <2> QED
    BY <2>4, <2>5
<1>3. CASE k = Len(net) /\ k = 1
  <2>1. net' = <<>>
    BY <1>1, <1>3
  <2>2. Head(SubSeq(net, 1, k)) = value /\ Len(SubSeq(net, 1, k)) = 1
    BY <1>1, <1>3
  <2>3. Head(<<value>>) = value /\ Len(<<value>>) = 1
    OBVIOUS
  <2>4. PortVal' \in Decode(<<value>>)
    BY <2>2, <2>3 DEF Decode
  <2> QED
    BY <2>1, <2>4
<1>4. CASE k = Len(net) /\ k # 1
  <2>1. net' = <<>>
    BY <1>1, <1>4
  <2> QED
    BY <1>4, <2>1
<1>5. k < Len(net) \/ k = Len(net)
  BY <1>1
<1> QED
  BY <1>2, <1>3, <1>4, <1>5, Zenon

LEMMA ArrivesNext == TypeInv /\ ArrivesIInv /\ [Next]_vars => ArrivesIInv'
<1> SUFFICES ASSUME TypeInv, ArrivesIInv, [Next]_vars PROVE ArrivesIInv'
  OBVIOUS
<1> USE DEF device, tool, line, past
<1>1. CASE Check \/ Ignore \/ Notified \/ Stop \/ Join
  <2>1. UNCHANGED <<tool, line, PortVal, single, cfg>>
    BY <1>1 DEF Check, Ignore, Notified, Stop, Join
  <2> QED
    BY <2>1 DEF ArrivesIInv, OnItsWay, Pending, Decode
<1>2. CASE ReadMessages
  <2>1. net # <<>>
    BY <1>2 DEF ReadMessages, TypeInv
  <2>2. UNCHANGED <<conn, tool, cfg>>
    BY <1>2 DEF ReadMessages
  <2>3. OnItsWay => OnItsWay'
    BY <1>2, <2>1, <2>2, ReadOnItsWay DEF OnItsWay, Decode
  <2> QED
    BY <2>2, <2>3 DEF ArrivesIInv, Pending
<1>3. CASE ReadNothing
  <2>1. conn # "open" /\ UNCHANGED <<conn, net, tool>>
    BY <1>3 DEF ReadNothing
  <2> QED
    BY <2>1 DEF ArrivesIInv, Pending, TypeInv
<1>4. CASE ButtonDown \/ ButtonUp \/ OnChange
  <2>1. UNCHANGED <<tool, line, PortVal, single, cfg>>
    BY <1>4 DEF ButtonDown, ButtonUp, OnChange, Notifying
  <2> QED
    BY <2>1 DEF ArrivesIInv, OnItsWay, Pending, Decode
<1>5. CASE Register
  BY <1>5 DEF Register, ArrivesIInv, OnItsWay, Pending, Decode
<1>6. CASE Signal
  BY <1>6 DEF Signal, ArrivesIInv, Pending
<1>7. ASSUME NEW g \in Message, Gesture(g) PROVE ArrivesIInv'
  BY <1>7 DEF Gesture, ArrivesIInv, Pending
<1>8. CASE Close
  <2>1. registered => signal'
    BY <1>8 DEF Close
  <2> QED
    BY <1>8, <2>1 DEF Close, ArrivesIInv, Pending
<1>9. CASE Wake
  BY <1>9 DEF Wake, ArrivesIInv, Pending, TypeInv
<1>10. CASE Load
  BY <1>10 DEF Load, ArrivesIInv, OnItsWay, Pending
<1>11. CASE Write
  <2>1. /\ net' = Append(net, buffer) /\ sender = "write" /\ sender' \in {"gone", "wait"}
        /\ UNCHANGED <<ui, signal, told, value, registered>>
        /\ conn' = "closed" => sender' = "gone" \/ conn = "closed"
        /\ conn' = "none" => conn = "none"
    BY <1>11 DEF Write
  <2>2. net' # <<>> /\ net'[Len(net')] = buffer
    BY <2>1 DEF TypeInv
  <2>3. OnItsWay => OnItsWay'
    BY <2>1, <2>2 DEF OnItsWay
  <2> QED
    BY <2>1, <2>3 DEF ArrivesIInv, Pending
<1>12. CASE UNCHANGED vars
  BY <1>12 DEF vars, ArrivesIInv, OnItsWay, Pending, Decode
<1> QED
  BY <1>1, <1>2, <1>3, <1>4, <1>5, <1>6, <1>7, <1>8, <1>9, <1>10, <1>11, <1>12
  DEF Next, Device, Tool, User

(* No gesture is lost for good: at rest a button or a poti has read the    *)
(* tool's Value, for any number of gestures and messages in flight.        *)
THEOREM LastGestureArrives == Spec => []LastValueArrives
<1>1. Init => ArrivesIInv
  BY DEF Init, ArrivesIInv
<1>2. ArrivesIInv => LastValueArrives
  BY DEF ArrivesIInv, LastValueArrives, Settled, Pending, OnItsWay
<1> QED
  BY <1>1, <1>2, TypeInit, TypeNext, ArrivesNext, PTL DEF Spec

-----------------------------------------------------------------------------
(* The button and the hand.  The hand is the tool's Value, and a plain     *)
(* button has acted on the last port value before it reads again.          *)
Want == IF held THEN "press" ELSE "release"
WantVal == IF held THEN "neg" ELSE "high"
Read == told /\ sender \notin {"gone", "write"} /\ ~Pending /\ net = <<>> /\ single

HandIInv == ~Poti =>
  /\ told => value = Want
  /\ Read /\ pc # "act" => isPressed = held

(* What the device has read of the hand.                                   *)
LEMMA ReadIsHand ==
  ASSUME ~Poti, ArrivesIInv, HandIInv, Read
  PROVE  PortVal = WantVal
BY DEF ArrivesIInv, HandIInv, Read, OnItsWay, Decode, Want, WantVal

LEMMA HandNext == TypeInv /\ ArrivesIInv /\ HandIInv /\ [Next]_vars => HandIInv'
<1> SUFFICES ASSUME ~Poti, TypeInv, ArrivesIInv, HandIInv, [Next]_vars PROVE HandIInv'
  BY PotiFixed DEF HandIInv
<1> USE DEF device, tool, line, past
<1>1. CASE Check \/ Notified \/ Stop \/ Join
  <2>1. /\ UNCHANGED <<tool, line, single, isPressed>>
        /\ pc # "act" \/ pc' = pc
    BY <1>1 DEF Check, Notified, Stop, Join
  <2> QED
    BY <2>1 DEF HandIInv, Read, Pending, Want
<1>2. CASE ReadMessages \/ ReadNothing
  BY <1>2 DEF ReadMessages, ReadNothing, HandIInv, Want
<1>3. CASE ButtonDown \/ ButtonUp
  <2>1. /\ isPressed' = (PortVal = "neg") /\ PortVal \in {"neg", "high"}
        /\ UNCHANGED <<tool, line, single>>
    BY <1>3 DEF ButtonDown, ButtonUp, Notifying
  <2>2. Read' => Read
    BY <2>1 DEF Read, Pending
  <2> QED
    BY <2>1, <2>2, ReadIsHand DEF HandIInv, Want, WantVal, TypeInv
<1>4. CASE OnChange
  BY <1>4 DEF OnChange
<1>5. CASE Ignore
  <2>1. /\ UNCHANGED <<tool, line, single, isPressed>>
        /\ PortVal = "neg" => isPressed
        /\ PortVal = "high" => ~isPressed
    BY <1>5 DEF Ignore
  <2>2. Read' => Read
    BY <2>1 DEF Read, Pending
  <2> QED
    BY <2>1, <2>2, ReadIsHand DEF HandIInv, Want, WantVal, TypeInv
<1>6. CASE Register \/ Signal
  BY <1>6 DEF Register, Signal, HandIInv, Read, Pending, Want
<1>7. ASSUME NEW g \in Message, Gesture(g) PROVE HandIInv'
  <2>1. g \in {"press", "release"} /\ held' = (g = "press")
    BY <1>7 DEF Gesture, Message
  <2> QED
    BY <1>7, <2>1 DEF Gesture, HandIInv, Read, Pending, Want
<1>8. CASE Close
  BY <1>8 DEF Close, HandIInv, ArrivesIInv, Read, Pending, Want
<1>9. CASE Wake \/ Load
  BY <1>9 DEF Wake, Load, HandIInv, Read, Pending, Want
<1>10. CASE Write
  <2>1. net' # <<>> /\ UNCHANGED <<told, value, held>>
    BY <1>10 DEF Write, TypeInv
  <2> QED
    BY <2>1 DEF HandIInv, Read, Want
<1>11. CASE UNCHANGED vars
  BY <1>11 DEF vars, HandIInv, Read, Pending, Want
<1> QED
  BY <1>1, <1>2, <1>3, <1>4, <1>5, <1>6, <1>7, <1>8, <1>9, <1>10, <1>11
  DEF Next, Device, Tool, User

(* At rest a plain button is pressed exactly when the hand holds it, if its*)
(* last read took a single message: for any number of gestures and any     *)
(* amount of data in flight.                                               *)
THEOREM ButtonFollowsHand == Spec => []SettledAgrees
<1>1. Init => ArrivesIInv /\ HandIInv
  BY DEF Init, ArrivesIInv, HandIInv, Read
<1>2. HandIInv => SettledAgrees
  BY DEF HandIInv, SettledAgrees, Settled, Pending, Read
<1>3. TypeInv /\ ArrivesIInv /\ HandIInv /\ [Next]_vars => HandIInv'
  BY HandNext
<1> QED
  BY <1>1, <1>2, <1>3, TypeInit, TypeNext, ArrivesNext, PTL DEF Spec

-----------------------------------------------------------------------------
(* No DOWN without a press of its own.  Give every message on the          *)
(* connection the number of the press it comes from or follows (from).     *)
(* Along the line from the device through the connection to the tool's     *)
(* Value these numbers never fall, and they rise where a press comes after *)
(* something else.  The device has made at most as many DOWNs as the       *)
(* number at its end, the tool's end has the number of all presses.        *)

(* The device is pressed, or has read that it is.                          *)
Pressed ==
  IF pc = "act" THEN PortVal = "neg" \/ (PortVal = "mid" /\ isPressed) ELSE isPressed

(* The DOWNs made and those that are sure to be.                           *)
Made ==
  IF (pc = "notify" /\ event = "DOWN") \/ (pc = "act" /\ PortVal = "neg" /\ ~isPressed)
    THEN downs + 1
  ELSE downs

(* A place after a press (x) with number a, and one after it with message  *)
(* y and number b.                                                         *)
Follows(x, a, y, b) == a <= b /\ (~x /\ y = "press" => a < b)

(* from numbers the messages msgs between the device (x, a) and the tool's *)
(* Value (y, b).                                                           *)
Numbered(from, x, a, msgs, y, b) ==
  /\ Follows(x, a, y, b)
  /\ \A i \in 1..Len(msgs) :
       /\ Follows(x, a, msgs[i], from[i])
       /\ Follows(msgs[i] = "press", from[i], y, b)
  /\ \A i, j \in 1..Len(msgs) :
       i < j => Follows(msgs[i] = "press", from[i], msgs[j], from[j])

(* The connection and what the tool's sender is writing to it.             *)
Sent == IF sender = "write" THEN Append(net, buffer) ELSE net

CountIInv ==
  \E from \in [1..Len(Sent) -> 0..presses] :
    Numbered(from, Pressed, Made, Sent, value, presses)

LEMMA SentType == ASSUME TypeInv PROVE Sent \in Seq(Message) /\ Len(Sent) \in Nat
BY DEF TypeInv, Sent

(* The device, and the connection, do nothing that counts.                 *)
LEMMA CountKept ==
  ASSUME CountIInv, UNCHANGED <<Sent, value, presses>>, Pressed' = Pressed, Made' = Made
  PROVE  CountIInv'
<1> PICK from \in [1..Len(Sent) -> 0..presses] :
       Numbered(from, Pressed, Made, Sent, value, presses)
  BY DEF CountIInv
<1>1. Numbered(from, Pressed', Made', Sent', value', presses')
  BY DEF Numbered
<1> QED
  BY <1>1 DEF CountIInv

LEMMA FollowsWeaker ==
  ASSUME NEW x \in BOOLEAN, NEW y, NEW a \in Nat, NEW b \in Nat, NEW c \in Nat,
         Follows(x, a, y, b), b <= c
  PROVE  Follows(x, a, y, c)
BY DEF Follows

LEMMA CountGesture ==
  ASSUME TypeInv, CountIInv, NEW g \in Message, Gesture(g)
  PROVE  CountIInv'
<1> PICK from \in [1..Len(Sent) -> 0..presses] :
       Numbered(from, Pressed, Made, Sent, value, presses)
  BY DEF CountIInv
<1>1. /\ UNCHANGED <<device, Sent, downs>>
      /\ presses' = (IF g = "press" THEN presses + 1 ELSE presses)
      /\ value' = (IF registered THEN g ELSE value)
  BY DEF Gesture, Sent, line, past
<1>2. presses \in Nat /\ presses' \in Nat /\ presses <= presses' /\ Made \in Nat
  BY <1>1 DEF TypeInv, Made
<1>3. Pressed' = Pressed /\ Made' = Made
  BY <1>1 DEF Pressed, Made, device
<1>4. ASSUME NEW x, NEW a \in Nat, Follows(x, a, value, presses)
      PROVE  Follows(x, a, value', presses')
  BY <1>1, <1>2, <1>4 DEF Follows
<1>5. \A i \in 1..Len(Sent) : from[i] \in 0..presses'
  BY <1>2
<1>6. Sent' = Sent
  BY <1>1
<1>7. from \in [1..Len(Sent') -> 0..presses']
  BY <1>5, <1>6
<1>8. Follows(Pressed, Made, value', presses')
  BY <1>2, <1>4 DEF Numbered
<1>9. ASSUME NEW i \in 1..Len(Sent)
      PROVE  Follows(Sent[i] = "press", from[i], value', presses')
  <2>1. from[i] \in Nat /\ Follows(Sent[i] = "press", from[i], value, presses)
    BY <1>2 DEF Numbered
  <2> QED
    BY <1>4, <2>1
<1>10. Numbered(from, Pressed, Made, Sent, value', presses')
  BY <1>8, <1>9 DEF Numbered
<1> QED
  BY <1>3, <1>6, <1>7, <1>10 DEF CountIInv

LEMMA CountLoad ==
  ASSUME TypeInv, CountIInv, Load
  PROVE  CountIInv'
<1> PICK from \in [1..Len(Sent) -> 0..presses] :
       Numbered(from, Pressed, Made, Sent, value, presses)
  BY DEF CountIInv
<1> DEFINE n == Len(Sent)
           to == [i \in 1..(n + 1) |-> IF i = n + 1 THEN presses ELSE from[i]]
<1>1. UNCHANGED <<device, value, presses, downs>> /\ Sent' = Append(Sent, value)
  BY DEF Load, Sent, past, line
<1>2. Pressed' = Pressed /\ Made' = Made
  BY <1>1 DEF Pressed, Made, device
<1>3. /\ Sent \in Seq(Message) /\ value \in Message /\ n \in Nat /\ presses \in Nat
  BY SentType DEF TypeInv
<1>4. /\ Len(Sent') = n + 1 /\ Sent'[n + 1] = value
      /\ \A i \in 1..n : Sent'[i] = Sent[i]
  BY <1>1, <1>3, AppendProperties
<1>5. to \in [1..(n + 1) -> 0..presses]
  BY <1>3
<1>6. to[n + 1] = presses /\ \A i \in 1..n : to[i] = from[i]
  BY <1>3
<1> HIDE DEF to
<1>7. \A i \in 1..(n + 1) : i = n + 1 \/ i \in 1..n
  BY <1>3
<1>8. Follows(value = "press", presses, value, presses)
  BY <1>3 DEF Follows
<1>9. ASSUME NEW i \in 1..(n + 1)
      PROVE  /\ Follows(Pressed, Made, Sent'[i], to[i])
             /\ Follows(Sent'[i] = "press", to[i], value, presses)
  BY <1>4, <1>6, <1>7, <1>8 DEF Numbered
<1>10. ASSUME NEW i \in 1..(n + 1), NEW j \in 1..(n + 1), i < j
       PROVE  Follows(Sent'[i] = "press", to[i], Sent'[j], to[j])
  <2>1. CASE j = n + 1
    BY <1>4, <1>6, <1>9, <2>1
  <2>2. CASE j \in 1..n
    <3>1. i \in 1..n
      BY <1>3, <1>10, <2>2
    <3> QED
      BY <1>4, <1>6, <1>10, <2>2, <3>1 DEF Numbered
  <2> QED
    BY <1>7, <2>1, <2>2
<1>11. Numbered(to, Pressed, Made, Sent', value, presses)
  BY <1>4, <1>9, <1>10 DEF Numbered
<1>12. to \in [1..Len(Sent') -> 0..presses]
  BY <1>4, <1>5
<1> QED
  BY <1>1, <1>2, <1>11, <1>12 DEF CountIInv

(* A read takes messages from the head of the line.                        *)
LEMMA SentRead ==
  ASSUME TypeInv, NEW k \in 1..Len(net), net' = SubSeq(net, k + 1, Len(net)),
         UNCHANGED <<sender, buffer>>
  PROVE  /\ k <= Len(Sent) /\ Sent[1] = net[1]
         /\ Len(Sent') = Len(Sent) - k
         /\ \A i \in 1..(Len(Sent) - k) : Sent'[i] = Sent[k + i] /\ k + i \in 1..Len(Sent)
<1> DEFINE n == Len(net)
<1>2. net \in Seq(Message) /\ n \in Nat /\ k \in Nat /\ 1 <= k /\ k <= n
  BY DEF TypeInv
<1>4. net' \in Seq(Message)
  BY TailType, <1>2
<1>5. /\ Len(net') = n - k
      /\ \A i \in 1..(n - k) : net'[i] = net[k + i] /\ k + i \in 1..n
  <2>1. \A i \in (k + 1)..n : net[i] \in Message
    BY <1>2
  <2>2. k + 1 \in Int /\ n \in Int
    BY <1>2
  <2>3. /\ Len(net') = IF k + 1 <= n THEN n - (k + 1) + 1 ELSE 0
        /\ \A i \in 1..(n - (k + 1) + 1) : net'[i] = net[(k + 1) + i - 1]
    BY <2>1, <2>2, SubSeqProperties
  <2> QED
    <3> HIDE DEF n
    <3>1. n - (k + 1) + 1 = n - k /\ (~(k + 1 <= n) => n - k = 0)
      BY <1>2
    <3>2. ASSUME NEW i \in 1..(n - k)
          PROVE  (k + 1) + i - 1 = k + i /\ k + i \in 1..n
      BY <1>2
    <3>3. Len(net') = n - k
      BY <2>3, <3>1
    <3>4. \A i \in 1..(n - k) : net'[i] = net[(k + 1) + i - 1]
      BY <2>3, <3>1
    <3> QED
      BY <3>2, <3>3, <3>4
<1>6. CASE sender # "write"
  BY <1>2, <1>5, <1>6 DEF Sent
<1>7. CASE sender = "write"
  <2>1. buffer \in Message /\ Sent = Append(net, buffer) /\ Sent' = Append(net', buffer)
    BY <1>7 DEF TypeInv, Sent
  <2>2. /\ Len(Sent) = n + 1 /\ Sent[n + 1] = buffer
        /\ \A i \in 1..n : Sent[i] = net[i]
    BY <1>2, <2>1, AppendProperties
  <2>3. /\ Len(Sent') = n - k + 1 /\ Sent'[n - k + 1] = buffer
        /\ \A i \in 1..(n - k) : Sent'[i] = net'[i]
    BY <1>4, <1>5, <2>1, AppendProperties
  <2> HIDE DEF n
  <2>4. ASSUME NEW i \in 1..(n + 1 - k)
        PROVE  Sent'[i] = Sent[k + i] /\ k + i \in 1..(n + 1)
    <3>1. CASE i = n - k + 1
      <4>1. k + i = n + 1
        BY <1>2, <3>1
      <4> QED
        BY <1>2, <2>2, <2>3, <3>1, <4>1
    <3>2. CASE i # n - k + 1
      <4>1. i \in 1..(n - k)
        BY <1>2, <3>2
      <4> QED
        BY <1>2, <1>5, <2>2, <2>3, <4>1
    <3> QED
      BY <3>1, <3>2
  <2>5. 1 \in 1..n /\ n + 1 - k = n - k + 1
    BY <1>2
  <2> QED
    BY <1>2, <2>2, <2>3, <2>4, <2>5
<1> QED
  BY <1>6, <1>7

(* What has been read counts as the first of the messages that were read.  *)
LEMMA CountRead ==
  ASSUME TypeInv, CountIInv, ReadMessages
  PROVE  CountIInv'
<1> PICK from \in [1..Len(Sent) -> 0..presses] :
       Numbered(from, Pressed, Made, Sent, value, presses)
  BY DEF CountIInv
<1> PICK k \in 1..Len(net) : /\ PortVal' \in Decode(SubSeq(net, 1, k))
                             /\ net' = SubSeq(net, k + 1, Len(net))
  BY DEF ReadMessages
<1> DEFINE n == Len(Sent)
           to == [i \in 1..(n - k) |-> from[k + i]]
<1>1. /\ pc = "read" /\ pc' = "act"
      /\ UNCHANGED <<value, presses, downs, isPressed, sender, buffer>>
  BY DEF ReadMessages, tool
<1>2. /\ Sent \in Seq(Message) /\ Sent[1] = net[1] /\ n \in Nat /\ k \in Nat
      /\ presses \in Nat /\ downs \in Nat
      /\ 1 <= k /\ k <= n /\ 1 \in 1..n /\ isPressed \in BOOLEAN
  BY <1>1, SentType, SentRead DEF TypeInv
<1>3. Pressed = isPressed /\ Made = downs
  BY <1>1 DEF Pressed, Made
<1>4. /\ Len(Sent') = n - k
      /\ \A i \in 1..(n - k) : Sent'[i] = Sent[k + i] /\ k + i \in 1..n
  BY <1>1, SentRead DEF tool
<1>5. /\ to \in [1..(n - k) -> 0..presses]
      /\ \A i \in 1..(n - k) : to[i] = from[k + i]
  BY <1>4
<1> HIDE DEF to
<1>6. Head(SubSeq(net, 1, k)) = Sent[1]
  BY <1>2 DEF TypeInv
<1>7. \/ Sent[1] = "press" /\ PortVal' = "neg"
      \/ Sent[1] # "press" /\ PortVal' \in {"mid", "high"}
  BY <1>6 DEF Decode
<1>8. /\ from[1] \in Nat /\ downs <= from[1]
      /\ ~isPressed /\ Sent[1] = "press" => downs < from[1]
  BY <1>2, <1>3, SMTT(30) DEF Numbered, Follows
<1>9. ASSUME NEW y, NEW b \in Nat, Follows(isPressed, downs, y, b), from[1] <= b,
             Sent[1] # "press" /\ y = "press" => from[1] < b
      PROVE  Follows(Pressed', Made', y, b)
  <2>1. CASE Sent[1] = "press"
    <3>1. Pressed' = TRUE /\ Made' = IF isPressed THEN downs ELSE downs + 1
      BY <1>1, <1>7, <2>1 DEF Pressed, Made
    <3>2. CASE isPressed
      BY <1>9, <3>1, <3>2 DEF Follows
    <3>3. CASE ~isPressed
      <4>1. downs + 1 <= b
        BY <1>2, <1>8, <1>9, <2>1, <3>3
      <4> QED
        BY <3>1, <3>3, <4>1 DEF Follows
    <3> QED
      BY <3>2, <3>3
  <2>2. CASE Sent[1] # "press"
    <3>1. Made' = downs
      BY <1>1, <1>7, <2>2 DEF Made
    <3>2. y = "press" => downs < b
      BY <1>2, <1>8, <1>9, <2>2
    <3> QED
      BY <1>9, <3>1, <3>2 DEF Follows
  <2> QED
    BY <2>1, <2>2
<1>10. Follows(Pressed', Made', value, presses)
  BY <1>2, <1>3, <1>9 DEF Numbered, Follows
<1>11. ASSUME NEW i \in 1..(n - k)
       PROVE  /\ Follows(Pressed', Made', Sent'[i], to[i])
              /\ Follows(Sent'[i] = "press", to[i], value, presses)
  <2>1. 1 < k + i /\ k + i \in 1..n /\ Sent'[i] = Sent[k + i] /\ to[i] = from[k + i]
        /\ to[i] \in Nat
    <3>1. k + i \in 1..n /\ Sent'[i] = Sent[k + i] /\ to[i] = from[k + i]
      BY <1>4, <1>5
    <3>2. 1 < k + i
      BY <1>2
    <3>3. from[k + i] \in Nat
      BY <1>2, <3>1
    <3> QED
      BY <3>1, <3>2, <3>3
  <2>2. /\ Follows(isPressed, downs, Sent[k + i], from[k + i])
        /\ Follows(Sent[1] = "press", from[1], Sent[k + i], from[k + i])
        /\ Follows(Sent[k + i] = "press", from[k + i], value, presses)
    BY <1>2, <1>3, <2>1 DEF Numbered
  <2> QED
    BY <1>9, <2>1, <2>2 DEF Follows
<1>12. ASSUME NEW i \in 1..(n - k), NEW j \in 1..(n - k), i < j
       PROVE  Follows(Sent'[i] = "press", to[i], Sent'[j], to[j])
  <2>1. k + i < k + j
    BY <1>2, <1>12
  <2> QED
    BY <1>4, <1>5, <2>1 DEF Numbered
<1>13. Numbered(to, Pressed', Made', Sent', value, presses)
  BY <1>4, <1>10, <1>11, <1>12 DEF Numbered
<1>14. to \in [1..Len(Sent') -> 0..presses]
  BY <1>4, <1>5
<1> QED
  BY <1>1, <1>13, <1>14 DEF CountIInv

LEMMA CountNext == TypeInv /\ CountIInv /\ [Next]_vars => CountIInv'
<1> SUFFICES ASSUME TypeInv, CountIInv, [Next]_vars PROVE CountIInv'
  OBVIOUS
<1> USE DEF device, tool, line, past
<1>1. CASE Check
  BY <1>1, CountKept DEF Check, Sent, Pressed, Made
<1>2. CASE ReadMessages
  BY <1>2, CountRead
<1>3. CASE ReadNothing
  <2>1. UNCHANGED <<Sent, value, presses, isPressed, downs>> /\ pc = "read"
        /\ pc' = "act" /\ PortVal' = "mid"
    BY <1>3 DEF ReadNothing, Sent
  <2>2. isPressed \in BOOLEAN
    BY DEF TypeInv
  <2>3. Pressed' = Pressed
    BY <2>1, <2>2 DEF Pressed
  <2>4. Made' = Made
    BY <2>1 DEF Made
  <2> QED
    BY <2>1, <2>3, <2>4, CountKept
<1>4. CASE ButtonDown \/ ButtonUp \/ OnChange
  <2>1. UNCHANGED <<Sent, value, presses>>
    BY <1>4 DEF ButtonDown, ButtonUp, OnChange, Notifying, Sent
  <2>2. Pressed' = Pressed /\ Made' = Made
    BY <1>4 DEF ButtonDown, ButtonUp, OnChange, Notifying, Pressed, Made, TypeInv
  <2> QED
    BY <2>1, <2>2, CountKept
<1>5. CASE Ignore
  BY <1>5, CountKept DEF Ignore, Sent, Pressed, Made, TypeInv, PortVals
<1>6. CASE Notified
  <2>1. UNCHANGED <<Sent, value, presses>>
    BY <1>6 DEF Notified, Sent
  <2>2. Pressed' = Pressed /\ Made' = Made
    BY <1>6 DEF Notified, Pressed, Made
  <2> QED
    BY <2>1, <2>2, CountKept
<1>7. CASE Stop \/ Join
  BY <1>7, CountKept DEF Stop, Join, Sent, Pressed, Made
<1>8. CASE Register \/ Signal
  BY <1>8, CountKept DEF Register, Signal, Sent, Pressed, Made
<1>9. ASSUME NEW g \in Message, Gesture(g) PROVE CountIInv'
  BY <1>9, CountGesture
<1>10. CASE Close
  BY <1>10, CountKept DEF Close, Sent, Pressed, Made
<1>11. CASE Wake
  BY <1>11, CountKept DEF Wake, Sent, Pressed, Made
<1>12. CASE Load
  BY <1>12, CountLoad
<1>13. CASE Write
  BY <1>13, CountKept DEF Write, Sent, Pressed, Made
<1>14. CASE UNCHANGED vars
  BY <1>14, CountKept DEF vars, Sent, Pressed, Made
<1> QED
  BY <1>1, <1>2, <1>3, <1>4, <1>5, <1>6, <1>7, <1>8, <1>9, <1>10, <1>11, <1>12, <1>13, <1>14
  DEF Next, Device, Tool, User

(* No press is taken for two, by a plain button or a poti, however often   *)
(* the tool sends a Value again and whatever a read runs together.         *)
THEOREM NoDownWithoutPress == Spec => []DownsHavePresses
<1>1. Init => CountIInv
  <2> SUFFICES ASSUME Init PROVE CountIInv
    OBVIOUS
  <2>1. /\ Len(Sent) = 0 /\ presses = 0 /\ downs = 0 /\ value = "turn"
        /\ Made = 0
    BY DEF Init, Made, Sent
  <2>2. Follows(Pressed, Made, value, presses)
    BY <2>1 DEF Follows
  <2>3. \A i \in 1..Len(Sent) : FALSE
    BY <2>1
  <2> DEFINE none == [i \in 1..Len(Sent) |-> 0]
  <2>4. none \in [1..Len(Sent) -> 0..presses]
    BY <2>3
  <2>5. Numbered(none, Pressed, Made, Sent, value, presses)
    BY <2>2, <2>3 DEF Numbered
  <2> QED
    BY <2>4, <2>5 DEF CountIInv
<1>2. TypeInv /\ CountIInv => DownsHavePresses
  <2> SUFFICES ASSUME TypeInv, CountIInv PROVE downs <= presses
    BY DEF DownsHavePresses
  <2>1. Made <= presses
    BY DEF CountIInv, Numbered, Follows
  <2>2. downs \in Nat /\ presses \in Nat
    BY DEF TypeInv
  <2> QED
    BY <2>1, <2>2 DEF Made
<1> QED
  BY <1>1, <1>2, CountNext, TypeInit, TypeNext, PTL DEF Spec
=============================================================================

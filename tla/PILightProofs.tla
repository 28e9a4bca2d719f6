---------------------------- MODULE PILightProofs ----------------------------
(***************************************************************************)
(* Proofs about PILight for every set of senders and of clients.           *)
(***************************************************************************)
EXTENDS PILight, SequenceTheorems, TLAPS

LEMMA StoredType ==
  ASSUME NEW a \in Attr, NEW v \in Int, NEW old \in Int
  PROVE  Stored(a, v, old) \in Int
BY DEF Stored, Attr

LEMMA DefaultType == DefaultBrightness \in Nat /\ DefaultCct \in Nat
BY DefaultAssumption DEF DefaultBrightness, DefaultCct

LEMMA EnterType ==
  ASSUME TypeInv, NEW s \in Senders, NEW a \in Attr, EnterSetter(s, a)
  PROVE  attr' \in [Senders -> Attr] /\ solo' \in [Senders -> BOOLEAN]
BY DEF TypeInv, EnterSetter

LEMMA RemovedType ==
  ASSUME NEW seq \in Seq(Clients), NEW k \in 1..Len(seq)
  PROVE  [i \in 1..(Len(seq) - 1) |-> seq[IF i < k THEN i ELSE i + 1]] \in Seq(Clients)
<1> DEFINE short == [i \in 1..(Len(seq) - 1) |-> seq[IF i < k THEN i ELSE i + 1]]
<1>1. Len(seq) - 1 \in Nat
  OBVIOUS
<1>2. \A i \in 1..(Len(seq) - 1) : seq[IF i < k THEN i ELSE i + 1] \in Clients
  OBVIOUS
<1>3. short \in [1..(Len(seq) - 1) -> Clients]
  BY <1>2
<1> QED
  BY <1>1, <1>3, SeqDef

(* The state variables keep their types: every client index is positive,   *)
(* every history flag a Boolean.                                           *)
LEMMA TypeInit == Init => TypeInv
BY DEF Init, TypeInv, Attr, FirstIndex

LEMMA TypeNext == TypeInv /\ [Next]_vars => TypeInv'
<1> SUFFICES ASSUME TypeInv, [Next]_vars PROVE TypeInv'
  OBVIOUS
<1> USE DEF TypeInv
<1>1. ASSUME NEW s \in Senders, BeginSet(s) PROVE TypeInv'
  <2>1. PICK c \in Calls : /\ op' = [op EXCEPT ![s] = "set"]
                           /\ val' = [val EXCEPT ![s] = c.val]
                           /\ EnterSetter(s, c.attr)
                           /\ synced' = [synced EXCEPT ![c.attr] = FALSE]
    BY <1>1 DEF BeginSet
  <2>2. c.attr \in Attr /\ c.val \in Int
    BY CallsAssumption DEF CallType
  <2>3. attr' \in [Senders -> Attr] /\ solo' \in [Senders -> BOOLEAN]
    BY <2>1, <2>2, EnterType
  <2>4. /\ op' \in [Senders -> {"set", "upDown", "resetDefault"}]
        /\ val' \in [Senders -> Int]
        /\ synced' \in [Attr -> BOOLEAN]
    BY <2>1, <2>2
  <2>5. pc' \in [Senders -> {"idle", "add", "change", "argument", "store", "loop",
                                "deliver"}]
    BY <1>1 DEF BeginSet
  <2>6. UNCHANGED <<light, ComClients, client, idx, tgt, arg>>
    BY <1>1 DEF BeginSet, loop
  <2> QED
    BY <2>3, <2>4, <2>5, <2>6
<1>2. ASSUME NEW s \in Senders, BeginResetDefault(s) PROVE TypeInv'
  <2>1. "cct" \in Attr
    BY DEF Attr
  <2>2. attr' \in [Senders -> Attr] /\ solo' \in [Senders -> BOOLEAN]
    BY <1>2, <2>1, EnterType DEF BeginResetDefault
  <2>3. synced' \in [Attr -> BOOLEAN]
    BY <1>2 DEF BeginResetDefault
  <2>4. val' \in [Senders -> Int]
    BY <1>2, DefaultType DEF BeginResetDefault
  <2>5. pc' \in [Senders -> {"idle", "add", "change", "argument", "store", "loop",
                                "deliver"}]
    BY <1>2 DEF BeginResetDefault
  <2>6. op' \in [Senders -> {"set", "upDown", "resetDefault"}]
    BY <1>2 DEF BeginResetDefault
  <2>7. UNCHANGED <<light, ComClients, client, idx, tgt, arg>>
    BY <1>2 DEF BeginResetDefault, loop
  <2> QED
    BY <2>2, <2>3, <2>4, <2>5, <2>6, <2>7
<1>3. ASSUME NEW s \in Senders, BeginUpDown(s) PROVE TypeInv'
  <2>1. PICK c \in Calls : /\ op' = [op EXCEPT ![s] = "upDown"]
                           /\ val' = [val EXCEPT ![s] = c.val]
                           /\ EnterSetter(s, c.attr)
                           /\ synced' = [synced EXCEPT ![c.attr] = FALSE]
    BY <1>3 DEF BeginUpDown
  <2>2. c.attr \in Attr /\ c.val \in Int
    BY CallsAssumption DEF CallType
  <2>3. attr' \in [Senders -> Attr] /\ solo' \in [Senders -> BOOLEAN]
    BY <2>1, <2>2, EnterType
  <2>4. /\ op' \in [Senders -> {"set", "upDown", "resetDefault"}]
        /\ val' \in [Senders -> Int]
        /\ synced' \in [Attr -> BOOLEAN]
    BY <2>1, <2>2
  <2>5. pc' \in [Senders -> {"idle", "add", "change", "argument", "store", "loop",
                                "deliver"}]
    <3>1. PICK p \in {"add", "argument"} : pc' = [pc EXCEPT ![s] = p]
      BY <1>3 DEF BeginUpDown
    <3> QED
      BY <3>1
  <2>6. UNCHANGED <<light, ComClients, client, idx, tgt, arg>>
    BY <1>3 DEF BeginUpDown, loop
  <2> QED
    BY <2>3, <2>4, <2>5, <2>6
<1>4. ASSUME NEW s \in Senders, Add(s) \/ Change(s) \/ Argument(s) PROVE TypeInv'
  <2>1. CASE Add(s)
    BY <2>1 DEF Add, loop, ghosts
  <2>2. CASE Change(s)
    BY <2>2 DEF Change, call, loop, ghosts
  <2>3. CASE Argument(s)
    BY <2>3 DEF Argument, loop, ghosts
  <2> QED
    BY <1>4, <2>1, <2>2, <2>3
<1>5. ASSUME NEW s \in Senders, Store(s) PROVE TypeInv'
  BY <1>5, StoredType DEF Store, FirstIndex, call, ghosts
<1>6. ASSUME NEW s \in Senders, Load(s) PROVE TypeInv'
  BY <1>6 DEF Load, Handed, call, ghosts
<1>7. ASSUME NEW s \in Senders, Deliver(s) PROVE TypeInv'
  <2>1. Taken(s) \in Int
    BY DEF Taken, Handed, ByReference
  <2>2. client' \in [Clients -> [Attr -> Int \cup {NoValue}]]
    BY <1>7, <2>1 DEF Deliver
  <2> QED
    BY <1>7, <2>2 DEF Deliver, call, ghosts
<1>8. ASSUME NEW s \in Senders, ResetBrightness(s) PROVE TypeInv'
  <2>1. "brightness" \in Attr
    BY DEF Attr
  <2>2. attr' \in [Senders -> Attr] /\ solo' \in [Senders -> BOOLEAN]
    BY <1>8, <2>1, EnterType DEF ResetBrightness
  <2>3. synced' \in [Attr -> BOOLEAN]
    BY <1>8 DEF ResetBrightness
  <2>4. val' \in [Senders -> Int]
    BY <1>8, DefaultType DEF ResetBrightness
  <2>5. pc' \in [Senders -> {"idle", "add", "change", "argument", "store", "loop",
                                "deliver"}]
    BY <1>8 DEF ResetBrightness
  <2>6. op' \in [Senders -> {"set", "upDown", "resetDefault"}]
    BY <1>8 DEF ResetBrightness
  <2>7. UNCHANGED <<light, ComClients, client, idx, tgt, arg>>
    BY <1>8 DEF ResetBrightness, loop
  <2> QED
    BY <2>2, <2>3, <2>4, <2>5, <2>6, <2>7
<1>9. ASSUME NEW s \in Senders, Return(s) PROVE TypeInv'
  <2>1. "brightness" \in Attr
    BY DEF Attr
  <2>2. synced' \in [Attr -> BOOLEAN] /\ attr' \in [Senders -> Attr]
    BY <1>9, <2>1 DEF Return
  <2> QED
    BY <1>9, <2>2 DEF Return, FirstIndex
<1>10. ASSUME NEW c \in Clients, AddComClient(c) PROVE TypeInv'
  BY <1>10 DEF AddComClient, call, loop
<1>11. ASSUME RemoveComClients PROVE TypeInv'
  BY <1>11 DEF RemoveComClients, call, loop
<1>12. ASSUME NEW c \in Clients, RemoveComClient(c) PROVE TypeInv'
  BY <1>12, RemovedType DEF RemoveComClient, call, loop
<1>13. CASE UNCHANGED vars
  BY <1>13 DEF vars, call, loop, ghosts
<1> QED
  BY <1>1, <1>2, <1>3, <1>4, <1>5, <1>6, <1>7, <1>8, <1>9, <1>10, <1>11, <1>12, <1>13
  DEF Next, Begin, Step, Registry

(* Type correctness of the light and of every call in progress.            *)
THEOREM TypeCorrect == Spec => []TypeInv
BY TypeInit, TypeNext, PTL DEF Spec

-----------------------------------------------------------------------------
(* The range of what is stored and sent.  The ...UpDown operations test the*)
(* member and change it in two steps, so with them and several senders the *)
(* ranges do not hold; the calls of ControlBox::notify are the others.     *)
NoUpDown == \A c \in Calls : c.op # "upDown"
UpDownSteps == {"add", "change", "argument"}

RangeIInv ==
  /\ TypeInv
  /\ RangeInv
  /\ \A s \in Senders : pc[s] \notin UpDownSteps /\ val[s] \in Nat

LEMMA StoredInRange ==
  ASSUME NEW a \in Attr, NEW v \in Nat, NEW old \in Int, InRange(a, old)
  PROVE  InRange(a, Stored(a, v, old))
BY DEF Stored, InRange, Attr

LEMMA RangeInit == Init => RangeIInv
<1> SUFFICES ASSUME Init PROVE RangeIInv
  OBVIOUS
<1>1. \A a \in Attr : InRange(a, light[a])
  BY DEF Init, InRange, Attr
<1>2. \A c \in Clients, a \in Attr : client[c][a] = NoValue
  BY DEF Init
<1>3. \A s \in Senders : pc[s] = "idle" /\ val[s] = 0
  BY DEF Init
<1> QED
  BY <1>1, <1>2, <1>3, TypeInit DEF RangeIInv, RangeInv, UpDownSteps

LEMMA RangeNext == NoUpDown /\ RangeIInv /\ [Next]_vars => RangeIInv'
<1> SUFFICES ASSUME NoUpDown, RangeIInv, [Next]_vars PROVE RangeIInv'
  OBVIOUS
<1>t. TypeInv /\ TypeInv'
  BY TypeNext DEF RangeIInv
<1> USE DEF RangeIInv
<1> DEFINE LightOK  == \A a \in Attr : InRange(a, light[a])
           ArgOK    == \A s \in Senders : pc[s] = "deliver" => InRange(attr[s], arg[s])
           ClientOK == \A c \in Clients, a \in Attr :
                         client[c][a] # NoValue => InRange(a, client[c][a])
           CallOK   == \A s \in Senders : pc[s] \notin UpDownSteps /\ val[s] \in Nat
<1>q. LightOK' /\ ArgOK' /\ ClientOK' /\ CallOK' => RangeIInv'
  BY <1>t DEF RangeInv
<1>r. LightOK /\ ArgOK /\ ClientOK /\ CallOK
  BY DEF RangeInv
<1> HIDE DEF LightOK, ArgOK, ClientOK, CallOK
<1> USE DEF UpDownSteps
<1>1. ASSUME NEW s \in Senders, BeginSet(s) PROVE RangeIInv'
  <2>1. UNCHANGED <<light, client, arg>> /\ pc' = [pc EXCEPT ![s] = "store"]
    BY <1>1 DEF BeginSet, loop
  <2>2. \A t \in Senders : pc'[t] = "deliver" => attr'[t] = attr[t] /\ pc[t] = "deliver"
    BY <1>1, <1>t DEF BeginSet, EnterSetter, TypeInv
  <2>3. \A t \in Senders : val'[t] \in Nat
    BY <1>1, <1>r, <1>t, CallsAssumption DEF BeginSet, CallOK, TypeInv
  <2> QED
    BY <2>1, <2>2, <2>3, <1>q, <1>r, <1>t
    DEF LightOK, ArgOK, ClientOK, CallOK, TypeInv
<1>2. ASSUME NEW s \in Senders, BeginResetDefault(s) PROVE RangeIInv'
  <2>1. UNCHANGED <<light, client, arg>> /\ pc' = [pc EXCEPT ![s] = "store"]
    BY <1>2 DEF BeginResetDefault, loop
  <2>2. \A t \in Senders : pc'[t] = "deliver" => attr'[t] = attr[t] /\ pc[t] = "deliver"
    BY <1>2, <1>t DEF BeginResetDefault, EnterSetter, TypeInv
  <2>3. \A t \in Senders : val'[t] \in Nat
    BY <1>2, <1>r, <1>t, DefaultType DEF BeginResetDefault, CallOK, TypeInv
  <2> QED
    BY <2>1, <2>2, <2>3, <1>q, <1>r, <1>t
    DEF LightOK, ArgOK, ClientOK, CallOK, TypeInv
<1>3. ASSUME NEW s \in Senders, BeginUpDown(s) PROVE FALSE
  BY <1>3 DEF BeginUpDown, NoUpDown
<1>4. ASSUME NEW s \in Senders, Add(s) \/ Change(s) \/ Argument(s) PROVE FALSE
  BY <1>4, <1>r DEF Add, Change, Argument, CallOK
<1>5. ASSUME NEW s \in Senders, Store(s) PROVE RangeIInv'
  <2>1. UNCHANGED <<client, arg, attr, val>> /\ pc' = [pc EXCEPT ![s] = "loop"]
    BY <1>5 DEF Store, call
  <2>2. LightOK'
    BY <1>5, <1>r, <1>t, StoredInRange DEF Store, LightOK, CallOK, TypeInv
  <2> QED
    BY <2>1, <2>2, <1>q, <1>r, <1>t DEF ArgOK, ClientOK, CallOK, TypeInv
<1>6. ASSUME NEW s \in Senders, Load(s) PROVE RangeIInv'
  <2>1. /\ UNCHANGED <<light, client, attr, val>>
        /\ pc' = [pc EXCEPT ![s] = "deliver"]
        /\ arg' = [arg EXCEPT ![s] = Handed(s)]
    BY <1>6 DEF Load, call
  <2>a. attr[s] \in Attr
    BY <1>t DEF TypeInv
  <2>2. InRange(attr[s], Handed(s))
    <3>1. CASE attr[s] \in {"brightness", "cct"}
      <4>1. Handed(s) = light[attr[s]]
        BY <3>1 DEF Handed
      <4> QED
        BY <4>1, <2>a, <1>r DEF LightOK
    <3>2. CASE attr[s] \notin {"brightness", "cct"}
      BY <3>2 DEF InRange
    <3> QED
      BY <3>1, <3>2
  <2> QED
    BY <2>1, <2>2, <1>q, <1>r, <1>t DEF LightOK, ArgOK, ClientOK, CallOK, TypeInv
<1>7. ASSUME NEW s \in Senders, Deliver(s) PROVE RangeIInv'
  <2>1. /\ UNCHANGED <<light, attr, val>>
        /\ pc[s] = "deliver"
        /\ pc' = [pc EXCEPT ![s] = "loop"]
        /\ arg' = [arg EXCEPT ![s] = 0]
        /\ client' = [client EXCEPT ![tgt[s]][attr[s]] = Taken(s)]
    BY <1>7 DEF Deliver, call
  <2>2. InRange(attr[s], Taken(s))
    <3>1. InRange(attr[s], arg[s])
      BY <2>1, <1>r DEF ArgOK
    <3>2. ByReference(s) => InRange(attr[s], Taken(s))
      BY DEF ByReference, InRange
    <3> QED
      BY <3>1, <3>2 DEF Taken
  <2>3. ClientOK'
    <3> SUFFICES ASSUME NEW c \in Clients, NEW a \in Attr, client'[c][a] # NoValue
                 PROVE  InRange(a, client'[c][a])
      BY DEF ClientOK
    <3>1. CASE c = tgt[s] /\ a = attr[s]
      BY <3>1, <2>1, <2>2, <1>t DEF TypeInv
    <3>2. CASE ~(c = tgt[s] /\ a = attr[s])
      <4>1. client'[c][a] = client[c][a]
        BY <3>2, <2>1, <1>t DEF TypeInv
      <4> QED
        BY <4>1, <1>r DEF ClientOK
    <3> QED
      BY <3>1, <3>2
  <2> QED
    BY <2>1, <2>3, <1>q, <1>r, <1>t DEF LightOK, ArgOK, CallOK, TypeInv
<1>8. ASSUME NEW s \in Senders, ResetBrightness(s) PROVE RangeIInv'
  <2>1. UNCHANGED <<light, client, arg>> /\ pc' = [pc EXCEPT ![s] = "store"]
    BY <1>8 DEF ResetBrightness, loop
  <2>2. \A t \in Senders : pc'[t] = "deliver" => attr'[t] = attr[t] /\ pc[t] = "deliver"
    BY <1>8, <1>t DEF ResetBrightness, EnterSetter, TypeInv
  <2>3. \A t \in Senders : val'[t] \in Nat
    BY <1>8, <1>r, <1>t, DefaultType DEF ResetBrightness, CallOK, TypeInv
  <2> QED
    BY <2>1, <2>2, <2>3, <1>q, <1>r, <1>t
    DEF LightOK, ArgOK, ClientOK, CallOK, TypeInv
<1>9. ASSUME NEW s \in Senders, Return(s) PROVE RangeIInv'
  BY <1>9, <1>q, <1>r, <1>t DEF Return, LightOK, ArgOK, ClientOK, CallOK, TypeInv
<1>10. ASSUME UNCHANGED <<light, client, pc, call, loop>> PROVE RangeIInv'
  BY <1>10, <1>q, <1>r DEF call, loop, LightOK, ArgOK, ClientOK, CallOK
<1>11. Registry => UNCHANGED <<light, client, pc, call, loop>>
  BY DEF Registry, AddComClient, RemoveComClients, RemoveComClient
<1>12. UNCHANGED vars => UNCHANGED <<light, client, pc, call, loop>>
  BY DEF vars
<1> QED
  BY <1>1, <1>2, <1>3, <1>4, <1>5, <1>6, <1>7, <1>8, <1>9, <1>10, <1>11, <1>12
  DEF Next, Begin, Step

(* However many threads call the light as ControlBox::notify does, and     *)
(* whatever the configured default is, no client is ever given a brightness*)
(* outside 1..255 or a colour temperature outside 2700..6500.              *)
THEOREM RangeSafe == ASSUME NoUpDown PROVE Spec => []RangeInv
<1>1. RangeIInv => RangeInv
  BY DEF RangeIInv
<1>2. NoUpDown
  OBVIOUS
<1>3. RangeIInv /\ [Next]_vars => RangeIInv'
  BY <1>2, RangeNext
<1> QED
  BY <1>1, <1>3, RangeInit, PTL DEF Spec

-----------------------------------------------------------------------------
(* Agreement of the clients with the light.                                *)
AgreeIInv == TypeInv /\ SoloInv /\ SyncInv /\ QuiescentAgreement

Alone(s) == \A t \in Senders : t # s /\ pc[t] # "idle" => attr[t] # attr[s]

(* What a step leaves alone of a setter that it does not belong to.        *)
Untouched(t) ==
  /\ pc'[t] = pc[t] /\ op'[t] = op[t] /\ attr'[t] = attr[t] /\ val'[t] = val[t]
  /\ idx'[t] = idx[t] /\ tgt'[t] = tgt[t] /\ arg'[t] = arg[t]
  /\ solo'[t] => solo[t]

LEMMA SoloFrame ==
  ASSUME TypeInv, NEW t \in Senders, SoloFor(t), Untouched(t),
         ComClients' = ComClients,
         solo'[t] /\ pc[t] # "idle" =>
           /\ Alone(t)'
           /\ light'[attr[t]] = light[attr[t]]
           /\ \A c \in Clients : client'[c][attr[t]] = client[c][attr[t]]
  PROVE  SoloFor(t)'
<1> SUFFICES ASSUME solo'[t], pc'[t] # "idle" PROVE SoloFor(t)'
  BY DEF SoloFor
<1>1. solo[t] /\ pc[t] # "idle" /\ attr[t] \in Attr
  BY DEF Untouched, TypeInv
<1>2. light'[attr[t]] = light[attr[t]]
  BY <1>1
<1>3. Handed(t)' = Handed(t)
  BY <1>1, <1>2 DEF Handed, ByReference, Untouched
<1>4. \A c \in Clients : client'[c][attr[t]] = client[c][attr[t]]
  BY <1>1
<1>5. \A i \in 1..Len(ComClients) : ComClients[i] \in Clients
  BY DEF TypeInv
<1> QED
  BY <1>1, <1>2, <1>3, <1>4, <1>5 DEF SoloFor, Alone, Untouched

(* A step of s within its setter, with its attribute and history kept, can *)
(* disturb no other setter that is alone on its attribute.                 *)
LEMMA OthersUntouched ==
  ASSUME TypeInv, SoloInv, NEW s \in Senders, NEW t \in Senders, t # s,
         pc[s] # "idle", ComClients' = ComClients, attr' = attr,
         \A u \in Senders \ {s} : Untouched(u),
         \A a \in Attr : a # attr[s] =>
           /\ light'[a] = light[a]
           /\ \A c \in Clients : client'[c][a] = client[c][a]
  PROVE  SoloFor(t)'
<1>1. SoloFor(t) /\ Untouched(t) /\ attr[t] \in Attr
  BY DEF SoloInv, TypeInv
<1>2. solo'[t] /\ pc[t] # "idle" =>
        /\ Alone(t)'
        /\ light'[attr[t]] = light[attr[t]]
        /\ \A c \in Clients : client'[c][attr[t]] = client[c][attr[t]]
  <2> SUFFICES ASSUME solo'[t], pc[t] # "idle"
               PROVE  /\ Alone(t)'
                      /\ light'[attr[t]] = light[attr[t]]
                      /\ \A c \in Clients : client'[c][attr[t]] = client[c][attr[t]]
    OBVIOUS
  <2>1. Alone(t)
    BY <1>1 DEF SoloFor, Alone, Untouched
  <2>2. attr[s] # attr[t]
    BY <2>1 DEF Alone
  <2>3. Alone(t)'
    BY <2>1, <2>2 DEF Alone, Untouched
  <2> QED
    BY <2>2, <2>3, <1>1
<1> QED
  BY <1>1, <1>2, SoloFrame

(* Entering a setter: whoever stays solo is alone, and s is if it is solo. *)
LEMMA Entering ==
  ASSUME TypeInv, SoloInv, NEW s \in Senders, NEW a \in Attr, EnterSetter(s, a),
         NEW p \in {"add", "argument", "store"}, pc' = [pc EXCEPT ![s] = p],
         op' = [op EXCEPT ![s] = op'[s]], val' = [val EXCEPT ![s] = val'[s]],
         UNCHANGED <<light, ComClients, client, idx, tgt, arg>>
  PROVE  SoloInv'
<1>1. /\ attr' = [attr EXCEPT ![s] = a]
      /\ \A t \in Senders : t # s => Untouched(t)
  BY DEF EnterSetter, Untouched, TypeInv
<1>2. SoloFor(s)'
  <2> SUFFICES ASSUME solo'[s] PROVE Alone(s)'
    BY DEF SoloFor, Alone, TypeInv
  <2>1. Others(s, a) = {}
    BY DEF EnterSetter
  <2> QED
    BY <1>1, <2>1 DEF Others, Alone, TypeInv, Untouched
<1>3. ASSUME NEW t \in Senders, t # s PROVE SoloFor(t)'
  <2>1. SoloFor(t) /\ Untouched(t)
    BY <1>1, <1>3 DEF SoloInv
  <2>2. solo'[t] /\ pc[t] # "idle" => Alone(t)'
    <3> SUFFICES ASSUME solo'[t], pc[t] # "idle" PROVE Alone(t)'
      OBVIOUS
    <3>1. t \notin Others(s, a)
      BY <1>3 DEF EnterSetter
    <3>2. attr[t] # a
      BY <1>3, <3>1 DEF Others
    <3>3. Alone(t)
      BY <2>1 DEF SoloFor, Alone, Untouched
    <3> QED
      BY <1>1, <1>3, <3>2, <3>3 DEF Alone, Untouched, TypeInv
  <2> QED
    BY <2>1, <2>2, SoloFrame
<1> QED
  BY <1>2, <1>3 DEF SoloInv

LEMMA AgreeInit == Init => AgreeIInv
<1> SUFFICES ASSUME Init PROVE AgreeIInv
  OBVIOUS
<1>1. SoloInv
  BY DEF Init, SoloInv, SoloFor
<1>2. SyncInv /\ QuiescentAgreement
  BY DEF Init, SyncInv, QuiescentAgreement
<1> QED
  BY <1>1, <1>2, TypeInit DEF AgreeIInv

Agree(a) ==
  IF a \in {"rgb", "xy"}
  THEN \A c, d \in Registered : client[c][a] = client[d][a]
  ELSE \A c \in Registered : client[c][a] = light[a]

LEMMA RegisteredClients == ASSUME TypeInv PROVE Registered \subseteq Clients
BY DEF TypeInv, Registered

LEMMA AgreeFrame ==
  ASSUME TypeInv, NEW a \in Attr, Agree(a), Registered' \subseteq Registered,
         light'[a] = light[a],
         \A c \in Clients : client'[c][a] = client[c][a]
  PROVE  Agree(a)'
BY RegisteredClients DEF Agree

(* A step that enters the setter of a: a is no longer synced.              *)
LEMMA EnteringAgree ==
  ASSUME AgreeIInv, NEW s \in Senders, NEW a \in Attr, EnterSetter(s, a),
         NEW p \in {"add", "argument", "store"}, pc' = [pc EXCEPT ![s] = p],
         op' = [op EXCEPT ![s] = op'[s]], val' = [val EXCEPT ![s] = val'[s]],
         synced' \in [Attr -> BOOLEAN], ~synced'[a],
         \A b \in Attr : synced'[b] =>
           Agree(b) /\ \A t \in Senders : t # s /\ pc[t] # "idle" => attr[t] # b,
         UNCHANGED <<light, ComClients, client, idx, tgt, arg>>
  PROVE  SoloInv' /\ SyncInv' /\ QuiescentAgreement'
<1> USE DEF AgreeIInv
<1>1. SoloInv'
  BY Entering
<1>2. attr' = [attr EXCEPT ![s] = a]
  BY DEF EnterSetter
<1>3. SyncInv'
  BY <1>2 DEF SyncInv, TypeInv
<1>4. ASSUME NEW b \in Attr, synced'[b] PROVE Agree(b)'
  <2>1. Agree(b) /\ Registered' = Registered
    BY <1>4 DEF Registered
  <2> QED
    BY <2>1, AgreeFrame
<1>5. QuiescentAgreement'
  BY <1>4 DEF QuiescentAgreement, Agree
<1> QED
  BY <1>1, <1>3, <1>5

(* A step of s within its setter that touches only its own attribute.      *)
LEMMA WithinAgree ==
  ASSUME AgreeIInv, NEW s \in Senders, pc[s] # "idle", pc'[s] # "idle",
         UNCHANGED <<ComClients, attr, synced>>,
         \A u \in Senders \ {s} : Untouched(u),
         \A a \in Attr : a # attr[s] =>
           /\ light'[a] = light[a]
           /\ \A c \in Clients : client'[c][a] = client[c][a],
         SoloFor(s)'
  PROVE  SoloInv' /\ SyncInv' /\ QuiescentAgreement'
<1> USE DEF AgreeIInv
<1>1. SoloInv'
  BY OthersUntouched DEF SoloInv
<1>2. SyncInv'
  BY DEF SyncInv, Untouched
<1>3. ASSUME NEW a \in Attr, synced'[a] PROVE Agree(a)'
  <2>1. a # attr[s]
    BY <1>3 DEF SyncInv
  <2>2. Agree(a) /\ Registered' = Registered
    BY <1>3 DEF QuiescentAgreement, Agree, Registered
  <2> QED
    BY <2>1, <2>2, AgreeFrame
<1>4. QuiescentAgreement'
  BY <1>3 DEF QuiescentAgreement, Agree
<1> QED
  BY <1>1, <1>2, <1>4

(* A solo setter whose loop is over has told every client.                 *)
LEMMA SoloAgrees ==
  ASSUME TypeInv, NEW s \in Senders, SoloFor(s), solo[s], LoopOver(s)
  PROVE  Agree(attr[s]) /\ Alone(s)
<1>1. pc[s] = "loop" /\ attr[s] \in Attr
  BY DEF LoopOver, TypeInv
<1>2. \A i \in 1..Len(ComClients) : client[ComClients[i]][attr[s]] = Handed(s)
  BY <1>1 DEF SoloFor, LoopOver, TypeInv
<1>3. \A c \in Registered : client[c][attr[s]] = Handed(s)
  BY <1>2 DEF Registered
<1>4. attr[s] \notin {"rgb", "xy"} => Handed(s) = light[attr[s]]
  BY <1>1 DEF Handed, Attr, SoloFor
<1>5. Alone(s)
  BY <1>1 DEF SoloFor, Alone
<1> QED
  BY <1>3, <1>4, <1>5 DEF Agree

LEMMA AgreeNext == AgreeIInv /\ [Next]_vars => AgreeIInv'
<1> SUFFICES ASSUME AgreeIInv, [Next]_vars
             PROVE  SoloInv' /\ SyncInv' /\ QuiescentAgreement'
  BY TypeNext DEF AgreeIInv
<1>t. TypeInv /\ TypeInv'
  BY TypeNext DEF AgreeIInv
<1>a. ASSUME NEW b \in Attr, synced[b]
      PROVE  Agree(b) /\ \A t \in Senders : pc[t] # "idle" => attr[t] # b
  BY <1>a DEF AgreeIInv, QuiescentAgreement, Agree, SyncInv
<1> DEFINE Goal == SoloInv' /\ SyncInv' /\ QuiescentAgreement'
<1>1. ASSUME NEW s \in Senders, BeginSet(s) PROVE Goal
  <2> PICK c \in Calls : EnterSetter(s, c.attr) /\ val' = [val EXCEPT ![s] = c.val]
                         /\ synced' = [synced EXCEPT ![c.attr] = FALSE]
    BY <1>1 DEF BeginSet
  <2>1. c.attr \in Attr
    BY CallsAssumption DEF CallType
  <2>2. /\ pc' = [pc EXCEPT ![s] = "store"]
        /\ UNCHANGED <<light, ComClients, client, idx, tgt, arg>>
    BY <1>1 DEF BeginSet, loop
  <2>3. /\ synced' \in [Attr -> BOOLEAN] /\ ~synced'[c.attr]
        /\ \A b \in Attr : synced'[b] => synced[b]
        /\ op' = [op EXCEPT ![s] = op'[s]] /\ val' = [val EXCEPT ![s] = val'[s]]
    BY <2>1, <1>1, <1>t DEF BeginSet, TypeInv
  <2> QED
    BY <2>1, <2>2, <2>3, <1>a, EnteringAgree
<1>2. ASSUME NEW s \in Senders, BeginResetDefault(s) PROVE Goal
  <2>1. "cct" \in Attr
    BY DEF Attr
  <2>2. /\ pc' = [pc EXCEPT ![s] = "store"] /\ EnterSetter(s, "cct")
        /\ UNCHANGED <<light, ComClients, client, idx, tgt, arg>>
    BY <1>2 DEF BeginResetDefault, loop
  <2>3. /\ synced' \in [Attr -> BOOLEAN] /\ ~synced'["cct"]
        /\ \A b \in Attr : synced'[b] => synced[b]
        /\ op' = [op EXCEPT ![s] = op'[s]] /\ val' = [val EXCEPT ![s] = val'[s]]
    BY <2>1, <1>2, <1>t DEF BeginResetDefault, TypeInv
  <2> QED
    BY <2>1, <2>2, <2>3, <1>a, EnteringAgree
<1>3. ASSUME NEW s \in Senders, BeginUpDown(s) PROVE Goal
  <2> PICK c \in Calls : /\ EnterSetter(s, c.attr) /\ val' = [val EXCEPT ![s] = c.val]
                         /\ synced' = [synced EXCEPT ![c.attr] = FALSE]
                         /\ \E p \in {"add", "argument"} : pc' = [pc EXCEPT ![s] = p]
    BY <1>3 DEF BeginUpDown
  <2>1. c.attr \in Attr
    BY CallsAssumption DEF CallType
  <2>2. UNCHANGED <<light, ComClients, client, idx, tgt, arg>>
    BY <1>3 DEF BeginUpDown, loop
  <2>3. /\ synced' \in [Attr -> BOOLEAN] /\ ~synced'[c.attr]
        /\ \A b \in Attr : synced'[b] => synced[b]
        /\ op' = [op EXCEPT ![s] = op'[s]] /\ val' = [val EXCEPT ![s] = val'[s]]
    BY <2>1, <1>3, <1>t DEF BeginUpDown, TypeInv
  <2>4. PICK p \in {"add", "argument"} : pc' = [pc EXCEPT ![s] = p]
    OBVIOUS
  <2> QED
    BY <2>1, <2>2, <2>3, <2>4, <1>a, EnteringAgree
<1>4. ASSUME NEW s \in Senders, Add(s) \/ Change(s) \/ Argument(s) PROVE Goal
  <2> DEFINE Inner == /\ pc[s] \notin {"idle", "loop", "deliver"}
                      /\ pc'[s] \notin {"idle", "loop", "deliver"}
                      /\ UNCHANGED <<ComClients, client, attr, synced, solo>>
                      /\ \A u \in Senders \ {s} : Untouched(u)
                      /\ \A a \in Attr : a # attr[s] => light'[a] = light[a]
  <2>1. Inner
    <3>1. CASE Add(s)
      BY <3>1, <1>t DEF Add, loop, ghosts, Untouched, TypeInv
    <3>2. CASE Change(s)
      BY <3>2, <1>t DEF Change, call, loop, ghosts, Untouched, TypeInv
    <3>3. CASE Argument(s)
      BY <3>3, <1>t DEF Argument, loop, ghosts, Untouched, TypeInv
    <3> QED
      BY <1>4, <3>1, <3>2, <3>3
  <2>2. SoloFor(s) /\ SoloFor(s)'
    BY <2>1 DEF AgreeIInv, SoloInv, SoloFor, Untouched
  <2> QED
    BY <2>1, <2>2, WithinAgree
<1>5. ASSUME NEW s \in Senders, Store(s) PROVE Goal
  <2>1. /\ pc[s] = "store" /\ pc'[s] = "loop" /\ idx'[s] = 1
        /\ UNCHANGED <<ComClients, client, op, attr, synced, solo, val>>
        /\ \A u \in Senders \ {s} : Untouched(u)
        /\ \A a \in Attr : a # attr[s] => light'[a] = light[a]
    BY <1>5, <1>t DEF Store, FirstIndex, call, ghosts, Untouched, TypeInv
  <2>2. attr[s] = "fadetime" => light'["fadetime"] = val[s]
    BY <1>5, <1>t DEF Store, Stored, TypeInv
  <2>3. SoloFor(s)'
    <3> SUFFICES ASSUME solo[s] PROVE SoloFor(s)'
      BY <2>1 DEF SoloFor
    <3>1. Alone(s)
      BY <2>1 DEF AgreeIInv, SoloInv, SoloFor, Alone
    <3>2. Alone(s)'
      BY <2>1, <3>1 DEF Alone, Untouched
    <3>3. Len(ComClients) \in Nat
      BY <1>t DEF TypeInv
    <3>4. pc'[s] # "deliver" /\ attr'[s] = attr[s] /\ val'[s] = val[s]
      BY <2>1
    <3>5. \A i \in 1..Len(ComClients) : ~(i < idx'[s])
      BY <2>1, <3>3
    <3> QED
      BY <2>1, <2>2, <3>2, <3>3, <3>4, <3>5 DEF SoloFor, Alone
  <2> QED
    BY <2>1, <2>3, WithinAgree
<1>6. ASSUME NEW s \in Senders, Load(s) PROVE Goal
  <2>1. /\ pc[s] = "loop" /\ pc'[s] = "deliver" /\ idx[s] <= Len(ComClients)
        /\ tgt'[s] = ComClients[idx[s]] /\ arg'[s] = Handed(s)
        /\ UNCHANGED <<light, ComClients, client, op, attr, synced, solo, val, idx>>
        /\ \A u \in Senders \ {s} : Untouched(u)
    BY <1>6, <1>t DEF Load, call, ghosts, Untouched, TypeInv
  <2>2. Handed(s)' = Handed(s)
    BY <2>1 DEF Handed, ByReference
  <2>3. SoloFor(s) /\ SoloFor(s)'
    BY <2>1, <2>2, <1>t DEF AgreeIInv, SoloInv, SoloFor, Untouched
  <2> QED
    BY <2>1, <2>3, WithinAgree
<1>7. ASSUME NEW s \in Senders, Deliver(s) PROVE Goal
  <2>1. /\ pc[s] = "deliver" /\ pc'[s] = "loop" /\ idx'[s] = idx[s] + 1
        /\ client' = [client EXCEPT ![tgt[s]][attr[s]] = Taken(s)]
        /\ UNCHANGED <<light, ComClients, op, attr, synced, solo, val>>
        /\ \A u \in Senders \ {s} : Untouched(u)
    BY <1>7, <1>t DEF Deliver, call, ghosts, Untouched, TypeInv
  <2>2. Handed(s)' = Handed(s) /\ attr[s] \in Attr
    BY <2>1, <1>t DEF Handed, ByReference, TypeInv
  <2>3. \A a \in Attr, c \in Clients : a # attr[s] => client'[c][a] = client[c][a]
    BY <2>1, <1>t DEF TypeInv
  <2>4. \A c \in Clients : client'[c][attr[s]] =
                             IF c = tgt[s] THEN Taken(s) ELSE client[c][attr[s]]
    BY <2>1, <2>2, <1>t DEF TypeInv
  <2>5. \A i \in 1..Len(ComClients) : ComClients[i] \in Clients
    BY <1>t DEF TypeInv
  <2>6. SoloFor(s)
    BY DEF AgreeIInv, SoloInv
  <2>7. SoloFor(s)'
    <3> SUFFICES ASSUME solo[s] PROVE SoloFor(s)'
      BY <2>1 DEF SoloFor
    <3>1. /\ Taken(s) = Handed(s) /\ idx[s] <= Len(ComClients)
          /\ tgt[s] = ComClients[idx[s]] /\ Alone(s)
          /\ attr[s] = "fadetime" => val[s] = light["fadetime"]
          /\ \A i \in 1..Len(ComClients) :
                i < idx[s] => client[ComClients[i]][attr[s]] = Handed(s)
      BY <2>1, <2>6 DEF SoloFor, Alone, Taken
    <3>2. \A i \in 1..Len(ComClients) :
            i < idx[s] + 1 => client'[ComClients[i]][attr[s]] = Handed(s)
      BY <3>1, <2>4, <2>5, <1>t DEF TypeInv
    <3> QED
      BY <3>1, <3>2, <2>1, <2>2, <1>t DEF SoloFor, Alone, Untouched, TypeInv
  <2> QED
    BY <2>1, <2>3, <2>7, WithinAgree
<1>8. ASSUME NEW s \in Senders, ResetBrightness(s) PROVE Goal
  <2>1. "brightness" \in Attr /\ "cct" \in Attr
    BY DEF Attr
  <2>2. /\ LoopOver(s) /\ attr[s] = "cct"
        /\ pc' = [pc EXCEPT ![s] = "store"] /\ EnterSetter(s, "brightness")
        /\ UNCHANGED <<light, ComClients, client, idx, tgt, arg>>
        /\ synced' = [synced EXCEPT !["cct"] = solo[s], !["brightness"] = FALSE]
    BY <1>8 DEF ResetBrightness, SecondSetter, loop
  <2>b. /\ synced'["brightness"] = FALSE /\ synced'["cct"] = solo[s]
        /\ \A b \in Attr \ {"brightness", "cct"} : synced'[b] = synced[b]
    <3>1. synced \in [Attr -> BOOLEAN] /\ solo[s] \in BOOLEAN
      BY <1>t DEF TypeInv
    <3> QED
      BY <2>1, <2>2, <3>1, Zenon
  <2>3. /\ synced' \in [Attr -> BOOLEAN] /\ ~synced'["brightness"]
        /\ \A b \in Attr : synced'[b] => synced[b] \/ (b = "cct" /\ solo[s])
    <3>1. synced' \in [Attr -> BOOLEAN]
      BY <1>t DEF TypeInv
    <3> QED
      BY <2>b, <3>1
  <2>4. op' = [op EXCEPT ![s] = op'[s]] /\ val' = [val EXCEPT ![s] = val'[s]]
    BY <1>8, <1>t DEF ResetBrightness, TypeInv
  <2>5. solo[s] => Agree("cct") /\ Alone(s)
    BY <2>2, <1>t, SoloAgrees DEF AgreeIInv, SoloInv
  <2>6. \A b \in Attr : synced'[b] =>
          Agree(b) /\ \A t \in Senders : t # s /\ pc[t] # "idle" => attr[t] # b
    BY <2>2, <2>3, <2>5, <1>a DEF Alone
  <2> QED
    BY <2>1, <2>2, <2>3, <2>4, <2>6, EnteringAgree
<1>9. ASSUME NEW s \in Senders, Return(s) PROVE Goal
  <2>1. /\ LoopOver(s) /\ pc[s] = "loop" /\ pc'[s] = "idle" /\ ~solo'[s]
        /\ UNCHANGED <<light, ComClients, client>>
        /\ synced' = [synced EXCEPT ![attr[s]] = solo[s]]
        /\ \A u \in Senders \ {s} : Untouched(u)
    BY <1>9, <1>t DEF Return, LoopOver, Untouched, TypeInv
  <2>2. solo[s] => Agree(attr[s]) /\ Alone(s)
    BY <2>1, <1>t, SoloAgrees DEF AgreeIInv, SoloInv
  <2>3. SoloInv'
    <3> SUFFICES ASSUME NEW t \in Senders, solo'[t], pc'[t] # "idle" PROVE SoloFor(t)'
      BY DEF SoloInv, SoloFor
    <3>1. t # s /\ Untouched(t) /\ SoloFor(t)
      BY <2>1 DEF AgreeIInv, SoloInv
    <3>2. Alone(t)
      BY <3>1 DEF SoloFor, Alone, Untouched
    <3>3. Alone(t)'
      BY <3>1, <3>2, <2>1 DEF Alone, Untouched
    <3> QED
      BY <3>1, <3>3, <2>1, <1>t, SoloFrame
  <2>4. ASSUME NEW b \in Attr, synced'[b]
        PROVE  Agree(b) /\ \A t \in Senders \ {s} : pc[t] # "idle" => attr[t] # b
    BY <2>1, <2>2, <2>4, <1>a, <1>t DEF Alone, TypeInv
  <2>5. SyncInv'
    BY <2>1, <2>4 DEF SyncInv, Untouched
  <2>6. \A b \in Attr : synced'[b] => Agree(b)'
    BY <2>1, <2>4, <1>t, AgreeFrame DEF Registered
  <2> QED
    BY <2>3, <2>5, <2>6 DEF QuiescentAgreement, Agree
<1>10. ASSUME NEW c \in Clients, AddComClient(c) PROVE Goal
  <2>1. /\ ComClients' = Append(ComClients, c) /\ synced' = [a \in Attr |-> FALSE]
        /\ UNCHANGED <<light, client, pc, op, attr, val, idx, tgt, arg, solo>>
    BY <1>10 DEF AddComClient, call, loop
  <2>2. /\ Len(ComClients') = Len(ComClients) + 1 /\ Len(ComClients) \in Nat
        /\ \A i \in 1..Len(ComClients) : ComClients'[i] = ComClients[i]
    BY <2>1, <1>t DEF TypeInv
  <2>3. SoloInv'
    <3> SUFFICES ASSUME NEW s \in Senders PROVE SoloFor(s)'
      BY DEF SoloInv
    <3>1. SoloFor(s) /\ Handed(s)' = Handed(s)
      BY <2>1 DEF AgreeIInv, SoloInv, Handed, ByReference
    <3> QED
      BY <2>1, <2>2, <3>1, <1>t DEF SoloFor, TypeInv
  <2> QED
    BY <2>1, <2>3 DEF SyncInv, QuiescentAgreement
<1>11. ASSUME solo' = [s \in Senders |-> FALSE], UNCHANGED <<light, client, pc, attr, synced>>,
              Registered' \subseteq Registered
       PROVE  Goal
  <2>1. SoloInv' /\ SyncInv'
    BY <1>11 DEF SoloInv, SoloFor, SyncInv, AgreeIInv
  <2>2. \A b \in Attr : synced'[b] => Agree(b)'
    BY <1>11, <1>a, <1>t, AgreeFrame
  <2> QED
    BY <2>1, <2>2 DEF QuiescentAgreement, Agree
<1>12. ASSUME RemoveComClients PROVE Goal
  <2>1. Registered' = {}
    BY <1>12 DEF RemoveComClients, Registered
  <2> QED
    BY <1>12, <2>1, <1>11 DEF RemoveComClients, call
<1>13. ASSUME NEW c \in Clients, RemoveComClient(c) PROVE Goal
  <2> PICK k \in 1..Len(ComClients) :
         ComClients' = [i \in 1..(Len(ComClients) - 1) |->
                          ComClients[IF i < k THEN i ELSE i + 1]]
    BY <1>13 DEF RemoveComClient
  <2>1. Len(ComClients) \in Nat /\ Len(ComClients') = Len(ComClients) - 1
    BY <1>t DEF TypeInv
  <2>2. Registered' \subseteq Registered
    BY <2>1 DEF Registered
  <2> QED
    BY <1>13, <2>2, <1>11 DEF RemoveComClient, call
<1>14. CASE UNCHANGED vars
  BY <1>14 DEF vars, call, loop, ghosts, AgreeIInv, SoloInv, SoloFor, SyncInv, Handed,
               ByReference, QuiescentAgreement, Registered
<1> QED
  BY <1>1, <1>2, <1>3, <1>4, <1>5, <1>6, <1>7, <1>8, <1>9, <1>10, <1>12, <1>13, <1>14
  DEF Next, Begin, Step, Registry

(* However many threads call the light, with every call of its interface   *)
(* and clients coming and going: once the last setter on an attribute that *)
(* ran alone has returned, every registered client agrees with the light.  *)
THEOREM Agreement == Spec => []QuiescentAgreement
<1>1. AgreeIInv => QuiescentAgreement
  BY DEF AgreeIInv
<1> QED
  BY <1>1, AgreeInit, AgreeNext, PTL DEF Spec
=============================================================================

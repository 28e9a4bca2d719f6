--------------------------- MODULE DebugServerProofs ---------------------------
(***************************************************************************)
(* Proofs about DebugServer: for any number of tools, of logging threads   *)
(* and of lines.                                                           *)
(***************************************************************************)
EXTENDS DebugServer, SequenceTheorems, TLAPS

LEMMA RemoveAtProperties ==
  ASSUME NEW S, NEW s \in Seq(S), NEW k \in 1..Len(s)
  PROVE  /\ RemoveAt(s, k) \in Seq(S)
         /\ Len(RemoveAt(s, k)) = Len(s) - 1
         /\ \A j \in 1..(Len(s) - 1) :
              RemoveAt(s, k)[j] = IF j < k THEN s[j] ELSE s[j + 1]
<1> DEFINE a == SubSeq(s, 1, k - 1)
           b == SubSeq(s, k + 1, Len(s))
<1>1. a \in Seq(S) /\ Len(a) = k - 1 /\ \A j \in 1..(k - 1) : a[j] = s[j]
  BY SubSeqProperties
<1>2. b \in Seq(S) /\ Len(b) = Len(s) - k /\ \A j \in 1..(Len(s) - k) : b[j] = s[k + j]
  BY SubSeqProperties
<1>3. /\ a \o b \in Seq(S)
      /\ Len(a \o b) = Len(a) + Len(b)
      /\ \A j \in 1..(Len(a) + Len(b)) :
           (a \o b)[j] = IF j <= Len(a) THEN a[j] ELSE b[j - Len(a)]
  BY <1>1, <1>2, ConcatProperties
<1> HIDE DEF a, b
<1>4. RemoveAt(s, k) = a \o b
  BY DEF RemoveAt, a, b
<1>5. Len(a \o b) = Len(s) - 1
  BY <1>1, <1>2, <1>3
<1>6. ASSUME NEW j \in 1..(Len(s) - 1)
      PROVE  (a \o b)[j] = IF j < k THEN s[j] ELSE s[j + 1]
  <2>1. CASE j < k
    BY <1>1, <1>2, <1>3, <2>1
  <2>2. CASE j >= k
    <3>1. (a \o b)[j] = b[j - (k - 1)]
      BY <1>1, <1>2, <1>3, <2>2
    <3>2. PICK i \in Int : i = j - (k - 1)
      BY <2>2
    <3>3. i \in 1..(Len(s) - k) /\ k + i = j + 1
      BY <2>2, <3>2
    <3>4. b[i] = s[k + i]
      BY <1>2, <3>3
    <3> QED
      BY <2>2, <3>1, <3>2, <3>3, <3>4
  <2>3. j < k \/ j >= k
    OBVIOUS
  <2> QED
    BY <2>1, <2>2, <2>3
<1> QED
  BY <1>3, <1>4, <1>5, <1>6

-----------------------------------------------------------------------------
(* Type correctness.                                                       *)

LEMMA TypeInit == Init => TypeInv
<1> SUFFICES ASSUME Init PROVE TypeInv
  OBVIOUS
<1>1. /\ conn \in [Peers -> {"none", "pending", "accepted"}]
      /\ up \in [Peers -> BOOLEAN] /\ closed \in [Peers -> BOOLEAN]
  BY DEF Init
<1>2. /\ call \in [Threads -> {"out", "walk", "erase", "clear"}]
      /\ at \in [Threads -> Nat] /\ lines \in [Threads -> Nat]
  BY DEF Init
<1>3. owed \in [Threads -> SUBSET Peers] /\ disturbed \in [Threads -> BOOLEAN]
  BY DEF Init
<1>4. DebugClients \in Seq(Peers) /\ listofDowns \in Seq(Nat)
  BY DEF Init
<1>5. /\ build \in Builds /\ listening \in {"none", "start"} /\ hand = NoPeer
      /\ listener = "wild" /\ registered /\ main = "wait" /\ cnt = 0 /\ pos = 0
      /\ ~thrown /\ ~gone /\ fault = {} /\ ~crashed
  BY DEF Init
<1>6. /\ registered \in BOOLEAN /\ thrown \in BOOLEAN /\ gone \in BOOLEAN
      /\ crashed \in BOOLEAN
  BY DEF Init
<1> QED
  BY <1>1, <1>2, <1>3, <1>4, <1>5, <1>6 DEF TypeInv

(* A line entered: the frame of Cout and of main's own lines.              *)
LEMMA EnterType ==
  ASSUME TypeInv, NEW t \in Threads, EnterCall(t)
  PROVE  /\ call' \in [Threads -> {"out", "walk", "erase", "clear"}]
         /\ at' \in [Threads -> Nat] /\ lines' \in [Threads -> Nat]
         /\ owed' \in [Threads -> SUBSET Peers] /\ disturbed' \in [Threads -> BOOLEAN]
<1>1. ToSet(DebugClients) \in SUBSET Peers
  BY DEF TypeInv, ToSet
<1>2. CASE registered
  <2>1. at' \in [Threads -> Nat] /\ lines' \in [Threads -> Nat]
    BY <1>2 DEF TypeInv, EnterCall
  <2>2. /\ call' \in [Threads -> {"out", "walk", "erase", "clear"}]
        /\ disturbed' \in [Threads -> BOOLEAN]
    BY <1>2 DEF TypeInv, EnterCall
  <2>3. owed' \in [Threads -> SUBSET Peers]
    <3>1. owed' = [owed EXCEPT ![t] = ToSet(DebugClients)]
      BY <1>2 DEF EnterCall
    <3> QED
      BY <1>1, <3>1 DEF TypeInv
  <2> QED
    BY <2>1, <2>2, <2>3
<1>3. CASE ~registered
  BY <1>3 DEF TypeInv, EnterCall
<1> QED
  BY <1>2, <1>3

LEMMA ListenType ==
  ASSUME TypeInv, ListenStep \/ AcceptFails PROVE TypeInv'
<1> USE DEF TypeInv, lstOthers, callVars, mainVars, histVars, Undefined
<1>1. CASE NewAcceptor \/ Listen \/ CallAccept \/ Woken \/ AcceptFails
  <2>1. CASE NewAcceptor
    BY <2>1 DEF NewAcceptor
  <2>2. CASE Listen
    BY <2>2 DEF Listen
  <2>3. CASE CallAccept
    BY <2>3 DEF CallAccept
  <2>4. CASE Woken \/ AcceptFails
    BY <2>4, ZenonT(30) DEF Woken, AcceptFails, AfterFailure
  <2> QED
    BY <1>1, <2>1, <2>2, <2>3, <2>4
<1>2. ASSUME NEW p \in Peers, Accept(p) PROVE TypeInv'
  BY <1>2 DEF Accept
<1>3. CASE Push
  BY <1>3 DEF Push
<1> QED
  BY <1>1, <1>2, <1>3 DEF ListenStep

LEMMA CallType ==
  ASSUME TypeInv, NEW t \in Threads, CallStep(t) PROVE TypeInv'
<1> USE DEF TypeInv, callOthers, netVars, mainVars, lstVars, histVars, Undefined, Crash
<1>1. CASE UseGone(t)
  BY <1>1 DEF UseGone
<1>2. CASE Send(t)
  <2>1. listofDowns' \in Seq(Nat)
    <3>1. at[t] \in Nat
      OBVIOUS
    <3>2. listofDowns' = listofDowns \/ listofDowns' = Append(listofDowns, at[t])
      BY <1>2 DEF Send, Down
    <3>3. Append(listofDowns, at[t]) \in Seq(Nat)
      BY <3>1
    <3> QED
      BY <3>2, <3>3
  <2>2. at' \in [Threads -> Nat] /\ owed' \in [Threads -> SUBSET Peers]
    BY <1>2 DEF Send
  <2>3. /\ fault' \subseteq {"listener", "server", "stream", "sigpipe", "erase", "double",
                            "index", "wild", "join"}
        /\ crashed' \in BOOLEAN
    BY <1>2 DEF Send
  <2> QED
    BY <1>2, <2>1, <2>2, <2>3 DEF Send
<1>3. CASE EndWalk(t)
  BY <1>3 DEF EndWalk
<1>5. CASE EndErase(t)
  BY <1>5 DEF EndErase
<1>6. CASE Clear(t)
  BY <1>6 DEF Clear, ClearDowns
<1>4. CASE Erase(t)
  <2>1. DebugClients' \in Seq(Peers)
    <3>1. listofDowns[at[t] + 1] \in Nat
      BY <1>4 DEF Erase
    <3>2. CASE listofDowns[at[t] + 1] < Len(DebugClients)
      BY <1>4, <3>1, <3>2, RemoveAtProperties DEF Erase
    <3>3. CASE DebugClients' = DebugClients
      BY <3>3
    <3> QED
      BY <1>4, <3>2, <3>3 DEF Erase
  <2>2. at' \in [Threads -> Nat] /\ disturbed' \in [Threads -> BOOLEAN]
    BY <1>4 DEF Erase
  <2>3. /\ fault' \subseteq {"listener", "server", "stream", "sigpipe", "erase", "double",
                            "index", "wild", "join"}
        /\ crashed' \in BOOLEAN
    BY <1>4 DEF Erase
  <2> QED
    BY <1>4, <2>1, <2>2, <2>3 DEF Erase
<1> QED
  BY <1>1, <1>2, <1>3, <1>4, <1>5, <1>6 DEF CallStep

LEMMA SayType ==
  ASSUME TypeInv, NEW from, Say(from, main')
  PROVE  main' \in {"what", "destroy", "join", "delete"} => TypeInv'
<1>1. Main \in Threads /\ EnterCall(Main)
  BY DEF Threads, Say
<1> QED
  BY <1>1, EnterType DEF TypeInv, Say, mainOthers, lstVars

LEMMA MainType ==
  ASSUME TypeInv, SequenceEnds \/ Throw \/ Teardown PROVE TypeInv'
<1> USE DEF mainOthers, noCall, lstVars, callVars, histVars, Undefined, Crash
<1>1. CASE SequenceEnds \/ Throw \/ Unregister \/ Delete
  BY <1>1, ZenonT(30) DEF SequenceEnds, Throw, Unregister, RemoveClients, Delete, TypeInv
<1>2. CASE Sorry \/ Waiting \/ Deleted
  BY <1>2, SayType DEF Sorry, Waiting, Deleted, Say
<1>3. CASE Destroy \/ Join
  <2>1. cnt' \in Nat /\ pos' \in Nat
    BY <1>3 DEF Destroy, Join, TypeInv
  <2>2. main' \in {"shut", "stopped", "deleted", "join"}
    BY <1>3 DEF Destroy, Join, TypeInv
  <2>3. /\ fault' \subseteq {"listener", "server", "stream", "sigpipe", "erase", "double",
                            "index", "wild", "join"}
        /\ crashed' \in BOOLEAN
    BY <1>3 DEF Destroy, Join, TypeInv
  <2>4. /\ UNCHANGED <<mainOthers, listener, closed, thrown, gone, registered, noCall>>
    BY <1>3 DEF Destroy, Join
  <2> QED
    BY <2>1, <2>2, <2>3, <2>4 DEF TypeInv
<1>4. CASE Shut
  <2>1. closed' \in [Peers -> BOOLEAN]
    <3>1. pos < Len(DebugClients) => DebugClients[pos + 1] \in Peers
      BY DEF TypeInv
    <3> QED
      BY <1>4, <3>1 DEF Shut, TypeInv
  <2>2. /\ fault' \subseteq {"listener", "server", "stream", "sigpipe", "erase", "double",
                            "index", "wild", "join"}
        /\ crashed' \in BOOLEAN
    BY <1>4 DEF Shut, TypeInv
  <2> QED
    BY <1>4, <2>1, <2>2 DEF Shut, TypeInv
<1>5. CASE DeleteListener
  BY <1>5 DEF DeleteListener, CloseListener, TypeInv
<1> QED
  BY <1>1, <1>2, <1>3, <1>4, <1>5 DEF Teardown

LEMMA TypeNext == TypeInv /\ [Next]_vars => TypeInv'
<1> SUFFICES ASSUME TypeInv, [Next]_vars PROVE TypeInv'
  OBVIOUS
<1>1. ASSUME NEW p \in Peers, Connect(p) \/ Hangup(p) PROVE TypeInv'
  <2> USE DEF TypeInv, lstVars, callVars, mainVars, histVars
  <2>1. CASE Connect(p)
    BY <2>1 DEF Connect
  <2>2. CASE Hangup(p)
    BY <2>2 DEF Hangup
  <2> QED
    BY <1>1, <2>1, <2>2
<1>2. ASSUME NEW t \in Loggers, Cout(t) PROVE TypeInv'
  <2>1. t \in Threads /\ EnterCall(t)
    BY <1>2 DEF Threads, Cout
  <2> QED
    BY <1>2, <2>1, EnterType DEF TypeInv, Cout, callOthers, lstVars, netVars, mainVars
<1>3. CASE UNCHANGED vars
  BY <1>3 DEF TypeInv, vars, lstVars, netVars, callVars, mainVars, histVars
<1> QED
  BY <1>1, <1>2, <1>3, ListenType, CallType, MainType DEF Next

(* Every variable keeps its type, and no null stream enters DebugClients.  *)
THEOREM TypeCorrect == Spec => []TypeInv
  BY TypeInit, TypeNext, PTL DEF Spec

-----------------------------------------------------------------------------
(* Which variables a step leaves alone.                                    *)

LEMMA VectorFrame ==
  ASSUME TypeInv, [Next]_vars
  PROVE  \/ UNCHANGED DebugClients
         \/ Push
         \/ \E t \in Threads : Erase(t) /\ ~crashed
<1> USE DEF mainOthers, lstOthers, callOthers
<1>1. ASSUME NEW p \in Peers, Connect(p) \/ Hangup(p) PROVE UNCHANGED DebugClients
  BY <1>1 DEF Connect, Hangup
<1>2. CASE ListenStep \/ AcceptFails
  BY <1>2 DEF ListenStep, AcceptFails, NewAcceptor, Listen, CallAccept, Accept, Woken
<1>3. ASSUME NEW t \in Loggers, Cout(t) PROVE UNCHANGED DebugClients
  BY <1>3 DEF Cout
<1>4. ASSUME NEW t \in Threads, CallStep(t), ~Erase(t) PROVE UNCHANGED DebugClients
  BY <1>4 DEF CallStep, UseGone, Send, EndWalk, EndErase, Clear
<1>5. CASE SequenceEnds \/ Throw
  BY <1>5 DEF SequenceEnds, Throw
<1>6. CASE Teardown
  BY <1>6 DEF Teardown, Sorry, Waiting, Deleted, Say, Unregister, Destroy, Shut,
              DeleteListener, Join, Delete
<1>7. CASE UNCHANGED vars
  BY <1>7 DEF vars
<1> QED
  BY <1>1, <1>2, <1>3, <1>4, <1>5, <1>6, <1>7 DEF Next

(* A step outside updateClient leaves the callers' state alone, or has one *)
(* thread enter a call.                                                    *)
LEMMA CallFrame ==
  ASSUME TypeInv, [Next]_vars
  PROVE  \/ UNCHANGED <<call, at, owed, disturbed, listofDowns>>
         \/ \E t \in Threads : /\ EnterCall(t) /\ call[t] = "out"
                              /\ UNCHANGED <<listofDowns, DebugClients, gone, up, closed>>
         \/ \E t \in Threads : CallStep(t)
<1> USE DEF mainOthers, lstOthers, callOthers, noCall, callVars, histVars, netVars, mainVars
<1>1. ASSUME NEW p \in Peers, Connect(p) \/ Hangup(p)
      PROVE  UNCHANGED <<call, at, owed, disturbed, listofDowns>>
  BY <1>1 DEF Connect, Hangup
<1>2. CASE ListenStep \/ AcceptFails
  BY <1>2 DEF ListenStep, AcceptFails, NewAcceptor, Listen, CallAccept, Accept, Woken, Push
<1>3. ASSUME NEW t \in Loggers, Cout(t)
      PROVE  /\ EnterCall(t) /\ call[t] = "out" /\ t \in Threads
             /\ UNCHANGED <<listofDowns, DebugClients, gone, up, closed>>
  BY <1>3 DEF Cout, Threads
<1>4. CASE SequenceEnds \/ Throw \/ Unregister \/ Destroy \/ Shut \/ DeleteListener
             \/ Join \/ Delete
  BY <1>4 DEF SequenceEnds, Throw, Unregister, Destroy, Shut, DeleteListener, Join, Delete
<1>5. CASE Sorry \/ Waiting \/ Deleted
  BY <1>5 DEF Sorry, Waiting, Deleted, Say, Threads, Run
<1>6. CASE UNCHANGED vars
  BY <1>6 DEF vars
<1> QED
  BY <1>1, <1>2, <1>3, <1>4, <1>5, <1>6 DEF Next, Teardown

-----------------------------------------------------------------------------
(* The walk: what an undisturbed one has still to try lies ahead of it.    *)

Ahead(t) == \A p \in owed[t] : \E k \in 1..Len(DebugClients) : k > at[t] /\ DebugClients[k] = p

WalkInv ==
  \A t \in Threads : ~disturbed[t] =>
    /\ call[t] = "walk" => Ahead(t)
    /\ call[t] \in {"erase", "clear"} => owed[t] = {}

LEMMA AheadGrows ==
  ASSUME TypeInv, TypeInv', NEW t \in Threads, Ahead(t),
         UNCHANGED DebugClients \/ Push, at'[t] = at[t], owed'[t] = owed[t]
  PROVE  Ahead(t)'
<1>1. /\ Len(DebugClients) <= Len(DebugClients')
      /\ \A k \in 1..Len(DebugClients) : DebugClients'[k] = DebugClients[k]
  BY DEF Push, TypeInv
<1>2. Len(DebugClients) \in Nat /\ Len(DebugClients') \in Nat
  BY DEF TypeInv
<1> QED
  BY <1>1, <1>2 DEF Ahead

LEMMA WalkNext ==
  TypeInv /\ TypeInv' /\ WalkInv /\ [Next]_vars => WalkInv'
<1> SUFFICES ASSUME TypeInv, TypeInv', WalkInv, [Next]_vars,
                    NEW u \in Threads, ~disturbed'[u]
             PROVE  /\ call'[u] = "walk" => Ahead(u)'
                    /\ call'[u] \in {"erase", "clear"} => owed'[u] = {}
  BY DEF WalkInv
<1>1. CASE UNCHANGED <<call, at, owed, disturbed, listofDowns>>
  <2>1. CASE UNCHANGED DebugClients \/ Push
    BY <1>1, <2>1, AheadGrows DEF WalkInv
  <2>2. ASSUME NEW t \in Threads, Erase(t) PROVE FALSE
    BY <1>1, <2>2 DEF Erase, TypeInv
  <2> QED
    BY <2>1, <2>2, VectorFrame
<1>2. ASSUME NEW t \in Threads, EnterCall(t), call[t] = "out",
             UNCHANGED <<listofDowns, DebugClients, gone, up, closed>>
      PROVE  /\ call'[u] = "walk" => Ahead(u)'
             /\ call'[u] \in {"erase", "clear"} => owed'[u] = {}
  <2>1. CASE u # t
    BY <1>2, <2>1, AheadGrows DEF WalkInv, EnterCall, TypeInv
  <2>2. CASE u = t /\ registered
    <3>1. /\ call'[u] = "walk" /\ at'[u] = 0 /\ owed'[u] = ToSet(DebugClients)
      BY <1>2, <2>2 DEF EnterCall, TypeInv
    <3>2. \A p \in ToSet(DebugClients) : \E k \in 1..Len(DebugClients) :
            k > 0 /\ DebugClients[k] = p
      BY DEF ToSet, TypeInv
    <3> QED
      BY <1>2, <3>1, <3>2 DEF Ahead
  <2>3. CASE u = t /\ ~registered
    BY <1>2, <2>3 DEF EnterCall
  <2> QED
    BY <2>1, <2>2, <2>3
<1>3. ASSUME NEW t \in Threads, CallStep(t)
      PROVE  /\ call'[u] = "walk" => Ahead(u)'
             /\ call'[u] \in {"erase", "clear"} => owed'[u] = {}
  <2> USE DEF histVars
  <2>1. CASE UseGone(t)
    BY <2>1, AheadGrows DEF UseGone, WalkInv, TypeInv
  <2>2. CASE Send(t)
    <3>1. CASE u # t
      BY <2>2, <3>1, AheadGrows DEF Send, WalkInv, TypeInv
    <3>2. CASE u = t
      <4>1. /\ call[u] = "walk" /\ call'[u] = "walk" /\ ~disturbed[u]
            /\ at'[u] = at[u] + 1 /\ owed'[u] = owed[u] \ {DebugClients[at[u] + 1]}
            /\ UNCHANGED DebugClients
        BY <2>2, <3>2 DEF Send, TypeInv
      <4>2. Ahead(u) /\ at[u] \in Nat /\ Len(DebugClients) \in Nat
        BY <4>1 DEF WalkInv, TypeInv
      <4>3. ASSUME NEW p \in owed'[u]
            PROVE  \E k \in 1..Len(DebugClients) : k > at[u] + 1 /\ DebugClients[k] = p
        <5>1. PICK k \in 1..Len(DebugClients) : k > at[u] /\ DebugClients[k] = p
          BY <4>1, <4>2, <4>3 DEF Ahead
        <5>2. k # at[u] + 1
          BY <4>1, <4>3, <5>1
        <5> QED
          BY <4>2, <5>1, <5>2
      <4> QED
        BY <4>1, <4>3 DEF Ahead
    <3> QED
      BY <3>1, <3>2
  <2>3. CASE EndWalk(t)
    <3>1. CASE u # t
      BY <2>3, <3>1, AheadGrows DEF EndWalk, WalkInv, TypeInv
    <3>2. CASE u = t
      <4>1. /\ call[u] = "walk" /\ call'[u] = "erase" /\ ~disturbed[u]
            /\ at[u] >= Len(DebugClients) /\ owed'[u] = owed[u]
        BY <2>3, <3>2 DEF EndWalk, Unsent, TypeInv
      <4>2. Ahead(u) /\ at[u] \in Nat /\ Len(DebugClients) \in Nat
        BY <4>1 DEF WalkInv, TypeInv
      <4>3. owed[u] = {}
        BY <4>1, <4>2 DEF Ahead
      <4> QED
        BY <4>1, <4>3
    <3> QED
      BY <3>1, <3>2
  <2>4. CASE Erase(t)
    <3>1. u = t /\ ~disturbed[u]
      BY <2>4 DEF Erase
    <3> QED
      BY <2>4, <3>1 DEF Erase, WalkInv
  <2>5. CASE EndErase(t)
    BY <2>5, AheadGrows DEF EndErase, WalkInv, TypeInv
  <2>6. CASE Clear(t)
    BY <2>6, AheadGrows DEF Clear, WalkInv, TypeInv
  <2> QED
    BY <1>3, <2>1, <2>2, <2>3, <2>4, <2>5, <2>6 DEF CallStep
<1> QED
  BY <1>1, <1>2, <1>3, CallFrame

(* A walk no other thread erased from has tried every client there was when*)
(* the line was written.                                                   *)
THEOREM CompleteWalk == Spec => []WalkIsComplete
<1>1. Init => WalkInv
  BY DEF Init, WalkInv
<1>2. WalkInv => WalkIsComplete
  BY DEF WalkInv, WalkIsComplete, Erasing
<1> QED
  BY <1>1, <1>2, TypeInit, TypeNext, WalkNext, PTL DEF Spec

-----------------------------------------------------------------------------
(* Dropping: while nobody has erased yet, an only entry of listofDowns is  *)
(* the index of a client that is down.                                     *)

NobodyErased == \A t \in Threads : call[t] # "clear" /\ (call[t] = "erase" => at[t] = 0)

PointsAtDown ==
  /\ listofDowns[1] < Len(DebugClients)
  /\ ~up[DebugClients[listofDowns[1] + 1]] \/ closed[DebugClients[listofDowns[1] + 1]]

DropInv == ~gone /\ Len(listofDowns) = 1 /\ NobodyErased => PointsAtDown

(* A tool that hung up stays down, a deleted stream deleted.               *)
LEMMA DownForGood ==
  ASSUME TypeInv, [Next]_vars
  PROVE  /\ \A p \in Peers : up'[p] => up[p]
         /\ \A p \in Peers : closed[p] => closed'[p]
         /\ gone => gone'
<1> USE DEF mainOthers, lstOthers, callOthers, noCall, callVars, histVars, netVars, mainVars
<1>1. ASSUME NEW p \in Peers, Connect(p) \/ Hangup(p)
      PROVE  (\A q \in Peers : up'[q] => up[q]) /\ UNCHANGED <<closed, gone>>
  BY <1>1 DEF Connect, Hangup, TypeInv
<1>2. CASE ListenStep \/ AcceptFails
  BY <1>2 DEF ListenStep, AcceptFails, NewAcceptor, Listen, CallAccept, Accept, Woken, Push
<1>3. ASSUME NEW t \in Threads, (t \in Loggers /\ Cout(t)) \/ CallStep(t)
      PROVE  UNCHANGED <<up, closed, gone>>
  BY <1>3 DEF Cout, CallStep, UseGone, Send, EndWalk, Erase, EndErase, Clear
<1>4. CASE SequenceEnds \/ Throw \/ Unregister \/ Destroy \/ DeleteListener \/ Join
  BY <1>4 DEF SequenceEnds, Throw, Unregister, Destroy, DeleteListener, Join
<1>5. CASE Delete
  BY <1>5 DEF Delete, TypeInv
<1>6. CASE Shut
  BY <1>6 DEF Shut, TypeInv
<1>7. CASE Sorry \/ Waiting \/ Deleted
  BY <1>7 DEF Sorry, Waiting, Deleted, Say
<1>8. CASE UNCHANGED vars
  BY <1>8 DEF vars
<1>9. Loggers \subseteq Threads
  BY DEF Threads
<1> QED
  BY <1>1, <1>2, <1>3, <1>4, <1>5, <1>6, <1>7, <1>8, <1>9 DEF Next, Teardown

LEMMA OnlyEntry ==
  ASSUME TypeInv, Len(listofDowns) = 1, listofDowns[1] < Len(DebugClients)
  PROVE  listofDowns[1] \in Nat /\ listofDowns[1] + 1 \in 1..Len(DebugClients)
<1>1. listofDowns \in Seq(Nat) /\ Len(DebugClients) \in Nat
  BY DEF TypeInv
<1>2. \A j \in 1..Len(listofDowns) : listofDowns[j] \in Nat
  BY <1>1, ElementOfSeq
<1>3. 1 \in 1..Len(listofDowns)
  OBVIOUS
<1> QED
  BY <1>1, <1>2, <1>3

LEMMA StillDown ==
  ASSUME TypeInv, [Next]_vars, UNCHANGED DebugClients \/ Push, UNCHANGED listofDowns,
         Len(listofDowns) = 1, PointsAtDown
  PROVE  PointsAtDown'
<1>1. listofDowns[1] \in Nat /\ listofDowns[1] + 1 \in 1..Len(DebugClients)
  BY OnlyEntry DEF PointsAtDown
<1>2. /\ DebugClients'[listofDowns[1] + 1] = DebugClients[listofDowns[1] + 1]
      /\ listofDowns[1] < Len(DebugClients')
  BY <1>1 DEF Push, TypeInv
<1>3. DebugClients[listofDowns[1] + 1] \in Peers
  BY <1>1 DEF TypeInv
<1> QED
  BY <1>2, <1>3, DownForGood DEF PointsAtDown

LEMMA DropNext ==
  TypeInv /\ DropInv /\ [Next]_vars => DropInv'
<1> SUFFICES ASSUME TypeInv, DropInv, [Next]_vars,
                    ~gone', Len(listofDowns') = 1, NobodyErased'
             PROVE  PointsAtDown'
  BY DEF DropInv
<1>1. ~gone
  BY DownForGood
<1>2. CASE UNCHANGED <<call, at, owed, disturbed, listofDowns>>
  <2>1. NobodyErased /\ Len(listofDowns) = 1
    BY <1>2 DEF NobodyErased
  <2>2. ASSUME NEW t \in Threads, Erase(t) PROVE FALSE
    BY <1>2, <2>2 DEF Erase, TypeInv
  <2> QED
    BY <1>1, <1>2, <2>1, <2>2, StillDown, VectorFrame DEF DropInv
<1>3. ASSUME NEW t \in Threads, EnterCall(t), call[t] = "out",
             UNCHANGED <<listofDowns, DebugClients, gone, up, closed>>
      PROVE  PointsAtDown'
  <2>1. NobodyErased
    <3> SUFFICES ASSUME NEW u \in Threads
                 PROVE  call[u] # "clear" /\ (call[u] = "erase" => at[u] = 0)
      BY DEF NobodyErased
    <3>1. u # t => call'[u] = call[u] /\ at'[u] = at[u]
      BY <1>3 DEF EnterCall, TypeInv
    <3> QED
      BY <1>3, <3>1 DEF NobodyErased
  <2> QED
    BY <1>1, <1>3, <2>1, StillDown DEF DropInv
<1>4. ASSUME NEW t \in Threads, CallStep(t) PROVE PointsAtDown'
  <2>1. CASE UseGone(t)
    BY <1>1, <2>1 DEF UseGone
  <2>2. CASE Send(t)
    <3>1. NobodyErased /\ UNCHANGED DebugClients
      <4>1. \A u \in Threads : call'[u] = call[u] /\ (call[u] = "erase" => at'[u] = at[u])
        BY <2>2 DEF Send, TypeInv
      <4> QED
        BY <2>2, <4>1 DEF NobodyErased, Send
    <3>2. CASE UNCHANGED listofDowns
      BY <1>1, <3>1, <3>2, StillDown DEF DropInv
    <3>3. CASE Down(at[t])
      <4>1. at[t] \in Nat /\ at[t] < Len(DebugClients)
        BY <2>2 DEF Send, Unsent, TypeInv
      <4>2. Len(listofDowns) = 0 /\ listofDowns'[1] = at[t]
        <5>1. listofDowns \in Seq(Nat) /\ listofDowns' = Append(listofDowns, at[t])
          BY <3>3 DEF Down, TypeInv
        <5>2. Len(listofDowns') = Len(listofDowns) + 1 /\ Len(listofDowns) \in Nat
          BY <4>1, <5>1
        <5>3. listofDowns'[Len(listofDowns) + 1] = at[t]
          BY <4>1, <5>1
        <5>4. \A n \in Nat : n + 1 = 1 => n = 0
          OBVIOUS
        <5>5. Len(listofDowns) = 0
          BY <5>2, <5>4, Zenon
        <5> QED
          BY ONLY <5>3, <5>5
      <4>3. \/ ~up[DebugClients[at[t] + 1]] \/ closed[DebugClients[at[t] + 1]]
            \/ UNCHANGED listofDowns
        BY <2>2 DEF Send
      <4>4. listofDowns'[1] = at[t] /\ ~UNCHANGED listofDowns
        BY <4>2
      <4> QED
        BY <2>2, <3>1, <4>1, <4>3, <4>4 DEF PointsAtDown, Send, callOthers, netVars
    <3> QED
      BY <2>2, <3>2, <3>3 DEF Send
  <2>3. CASE EndWalk(t)
    <3>1. NobodyErased
      <4>1. \A u \in Threads : u # t => call'[u] = call[u] /\ at'[u] = at[u]
        BY <2>3 DEF EndWalk, TypeInv
      <4> QED
        BY <2>3, <4>1 DEF NobodyErased, EndWalk
    <3> QED
      BY <1>1, <2>3, <3>1, StillDown DEF DropInv, EndWalk
  <2>4. CASE Erase(t)
    <3>1. call'[t] = "erase" /\ at'[t] = at[t] + 1 /\ at[t] \in Nat
      BY <2>4 DEF Erase, TypeInv
    <3> QED
      BY <3>1 DEF NobodyErased
  <2>5. CASE EndErase(t)
    <3>1. call'[t] = "clear"
      BY <2>5 DEF EndErase, TypeInv
    <3> QED
      BY <3>1 DEF NobodyErased
  <2>6. CASE Clear(t)
    BY <2>6 DEF Clear, ClearDowns
  <2> QED
    BY <1>4, <2>1, <2>2, <2>3, <2>4, <2>5, <2>6 DEF CallStep
<1> QED
  BY <1>2, <1>3, <1>4, CallFrame

LEMMA FaultFrame ==
  ASSUME TypeInv, [Next]_vars, ErasesPastEnd
  PROVE  \E t \in Threads : Erase(t)
<1> USE DEF ErasesPastEnd, Undefined
<1>1. ASSUME NEW p \in Peers, Connect(p) \/ Hangup(p) PROVE FALSE
  BY <1>1 DEF Connect, Hangup
<1>2. CASE ListenStep \/ AcceptFails
  BY <1>2 DEF ListenStep, AcceptFails, NewAcceptor, Listen, CallAccept, Accept, Woken, Push
<1>3. ASSUME NEW t \in Loggers, Cout(t) PROVE FALSE
  BY <1>3 DEF Cout
<1>4. ASSUME NEW t \in Threads, CallStep(t), ~Erase(t) PROVE FALSE
  BY <1>4 DEF CallStep, UseGone, Send, EndWalk, EndErase, Clear
<1>5. CASE SequenceEnds \/ Throw \/ Unregister \/ Delete
  BY <1>5 DEF SequenceEnds, Throw, Unregister, Delete
<1>6. CASE Sorry \/ Waiting \/ Deleted
  BY <1>6 DEF Sorry, Waiting, Deleted, Say
<1>7. CASE Destroy \/ Shut \/ DeleteListener \/ Join
  BY <1>7 DEF Destroy, Shut, DeleteListener, Join
<1>8. CASE UNCHANGED vars
  BY <1>8 DEF vars
<1> QED
  BY <1>1, <1>2, <1>3, <1>4, <1>5, <1>6, <1>7, <1>8 DEF Next, Teardown

LEMMA DropStep ==
  TypeInv /\ DropInv /\ [Next]_vars =>
    (DropsUp \/ ErasesPastEnd => Len(listofDowns) > 1 \/ \E t, u \in Erasing : t # u)
<1> SUFFICES ASSUME TypeInv, DropInv, [Next]_vars, DropsUp \/ ErasesPastEnd,
                    ~(Len(listofDowns) > 1), ~ \E t, u \in Erasing : t # u
             PROVE  FALSE
  OBVIOUS
<1>1. PICK t \in Threads : Erase(t)
  <2>1. CASE DropsUp
    <3>1. ~UNCHANGED DebugClients
      BY <2>1 DEF DropsUp
    <3>2. ~Push
      <4> SUFFICES ASSUME Push PROVE FALSE
        OBVIOUS
      <4>1. ToSet(DebugClients) \subseteq ToSet(DebugClients')
        <5>1. DebugClients \in Seq(Peers) /\ DebugClients' = Append(DebugClients, hand)
              /\ hand \in Peers
          BY DEF Push, TypeInv
        <5>2. \A j \in 1..Len(DebugClients) :
                j \in 1..Len(DebugClients') /\ DebugClients'[j] = DebugClients[j]
          BY <5>1
        <5>3. /\ DOMAIN DebugClients = 1..Len(DebugClients)
              /\ DOMAIN DebugClients' = 1..Len(DebugClients')
          BY <5>1
        <5> QED
          BY <5>2, <5>3 DEF ToSet
      <4> QED
        BY <2>1, <4>1 DEF DropsUp
    <3> QED
      BY <3>1, <3>2, VectorFrame
  <2> QED
    BY <2>1, FaultFrame
<1>2. /\ at[t] = 0 /\ Len(listofDowns) = 1 /\ call[t] = "erase" /\ ~gone
  <2>1. at[t] \in Nat /\ Len(listofDowns) \in Nat
    BY DEF TypeInv
  <2>2. call[t] = "erase" /\ ~gone /\ at[t] < Len(listofDowns)
    BY <1>1 DEF Erase
  <2>3. ASSUME NEW a \in Nat, NEW n \in Nat, a < n, ~(n > 1) PROVE n = 1 /\ a = 0
    BY <2>3
  <2>4. Len(listofDowns) = 1 /\ at[t] = 0
    BY ONLY <2>1, <2>2, <2>3, ~(Len(listofDowns) > 1)
  <2> QED
    BY <2>2, <2>4
<1>3. \A u \in Threads : u # t => call[u] \notin {"erase", "clear"}
  BY <1>2 DEF Erasing
<1>4. NobodyErased
  BY <1>2, <1>3 DEF NobodyErased
<1>5. PointsAtDown
  BY <1>2, <1>4 DEF DropInv
<1> DEFINE k == listofDowns[1]
<1>6. k \in Nat /\ k < Len(DebugClients) /\ k + 1 \in 1..Len(DebugClients)
  BY <1>2, <1>5, OnlyEntry DEF PointsAtDown
<1>7. DebugClients' = RemoveAt(DebugClients, k + 1) /\ UNCHANGED fault
  BY <1>1, <1>2, <1>6 DEF Erase
<1>8. DropsUp
  BY <1>7 DEF ErasesPastEnd
<1>9. PICK p \in ToSet(DebugClients) \ ToSet(DebugClients') : up[p] /\ ~closed[p]
  BY <1>8 DEF DropsUp
<1>10. PICK i \in 1..Len(DebugClients) : DebugClients[i] = p
  <2>1. DebugClients \in Seq(Peers)
    BY DEF TypeInv
  <2>2. p \in {DebugClients[j] : j \in DOMAIN DebugClients}
    BY ONLY <1>9 DEF ToSet
  <2> QED
    BY ONLY <2>1, <2>2
<1>11. i # k + 1
  BY <1>5, <1>9, <1>10 DEF PointsAtDown
<1>12. /\ DebugClients' \in Seq(Peers) /\ Len(DebugClients') = Len(DebugClients) - 1
       /\ \A j \in 1..(Len(DebugClients) - 1) :
            DebugClients'[j] = IF j < k + 1 THEN DebugClients[j] ELSE DebugClients[j + 1]
  BY <1>6, <1>7, RemoveAtProperties, SMTT(30) DEF TypeInv
<1>13. \E j \in 1..Len(DebugClients') : DebugClients'[j] = p
  <2> HIDE DEF k
  <2>1. Len(DebugClients) \in Nat
    BY DEF TypeInv
  <2>2. CASE i < k + 1
    <3>1. i \in 1..(Len(DebugClients) - 1)
      BY <1>6, <2>1, <2>2
    <3>2. DebugClients'[i] = p
      BY <1>10, <1>12, <2>2, <3>1
    <3> QED
      BY <1>12, <3>1, <3>2
  <2>3. CASE i > k + 1
    <3>1. PICK j \in Int : j = i - 1
      OBVIOUS
    <3>2. j \in 1..(Len(DebugClients) - 1) /\ j + 1 = i /\ ~(j < k + 1)
      BY <1>6, <2>1, <2>3, <3>1
    <3>3. DebugClients'[j] = p
      BY <1>10, <1>12, <3>2
    <3> QED
      BY <1>12, <3>2, <3>3
  <2> QED
    BY <1>6, <1>11, <2>2, <2>3
<1> QED
  BY <1>9, <1>12, <1>13 DEF ToSet

(* updateClient drops a client that is up, or erases past the end, only    *)
(* with two clients down in one walk or two threads dropping at once.      *)
THEOREM DropsNeedTwo == Spec => WrongDropNeedsTwo
<1>1. Init => DropInv
  BY DEF Init, DropInv
<1>2. TypeInv /\ DropInv /\ [Next]_vars =>
        [DropsUp \/ ErasesPastEnd =>
           Len(listofDowns) > 1 \/ \E t, u \in Erasing : t # u]_vars
  BY DropStep
<1> QED
  BY <1>1, <1>2, TypeInit, TypeNext, DropNext, PTL DEF Spec, WrongDropNeedsTwo

-----------------------------------------------------------------------------
(* The teardown without late threads and without an exception: when main   *)
(* leaves its wait nobody is in a call, and main's own lines meet a logger *)
(* without clients.                                                        *)

Quiet == build.late = {} /\ ~thrown
AfterDelete == {"server", "stream", "index", "double"}

QuietInv ==
  /\ main \in {"sorry", "what"} => thrown
  /\ Quiet =>
       /\ fault \cap AfterDelete = {}
       /\ main # "wait" => \A t \in Threads : call[t] = "out"
       /\ main = "wait" => ~gone /\ (\A p \in Peers : ~closed[p]) /\ call[Main] = "out"
       /\ main \notin {"wait", "unregister"} => ~registered
       /\ gone => main = "stopped"
       /\ main = "shut" => cnt <= Len(DebugClients)

LEMMA QuietListen ==
  ASSUME TypeInv, TypeInv', QuietInv, ListenStep \/ AcceptFails PROVE QuietInv'
<1> USE DEF lstOthers, callVars, mainVars
<1>1. fault' \subseteq fault \cup {"listener"}
  BY DEF ListenStep, AcceptFails, NewAcceptor, Listen, CallAccept, Accept, Woken, Push, Undefined
<1>2. UNCHANGED <<build, thrown, main, call, gone, closed, registered, cnt>>
  BY DEF ListenStep, AcceptFails, NewAcceptor, Listen, CallAccept, Accept, Woken, Push
<1>3. UNCHANGED DebugClients \/ Push
  BY DEF ListenStep, AcceptFails, NewAcceptor, Listen, CallAccept, Accept, Woken
<1>4. Len(DebugClients) <= Len(DebugClients')
  BY <1>3 DEF Push, TypeInv
<1>5. cnt \in Nat /\ Len(DebugClients) \in Nat /\ Len(DebugClients') \in Nat
  BY DEF TypeInv
<1>6. cnt <= Len(DebugClients) => cnt <= Len(DebugClients')
  BY <1>4, <1>5
<1> QED
  BY <1>1, <1>2, <1>6 DEF QuietInv, Quiet, AfterDelete

LEMMA QuietCall ==
  ASSUME TypeInv, TypeInv', QuietInv, NEW t \in Threads, CallStep(t) PROVE QuietInv'
<1> USE DEF callOthers, mainVars, netVars
<1>1. /\ UNCHANGED <<build, thrown, main, gone, closed, registered, cnt>>
      /\ call[t] # "out"
  BY DEF CallStep, UseGone, Send, EndWalk, Erase, EndErase, Clear
<1> SUFFICES ASSUME Quiet PROVE QuietInv'
  BY <1>1 DEF QuietInv, Quiet
<1>2. main = "wait" /\ ~gone /\ (\A p \in Peers : ~closed[p]) /\ t # Main
  BY <1>1 DEF QuietInv
<1>3. call'[Main] = "out"
  <2>1. Main \in Threads /\ call[Main] = "out"
    BY <1>2 DEF QuietInv, Threads
  <2>2. \A u \in Threads : u # t => call'[u] = call[u]
    BY DEF CallStep, UseGone, Send, EndWalk, Erase, EndErase, Clear, TypeInv
  <2> QED
    BY <1>2, <2>1, <2>2
<1>4. fault' \subseteq fault \cup {"sigpipe", "erase"}
  <2>1. CASE Send(t)
    <3>1. DebugClients[at[t] + 1] \in Peers
      BY <2>1 DEF Send, Unsent, TypeInv
    <3> QED
      BY <1>2, <2>1, <3>1 DEF Send, Undefined
  <2>2. ~UseGone(t)
    BY <1>2 DEF UseGone
  <2> QED
    BY <2>1, <2>2 DEF CallStep, EndWalk, Erase, EndErase, Clear, Undefined
<1> QED
  BY <1>1, <1>2, <1>3, <1>4 DEF QuietInv, AfterDelete

LEMMA QuietSay ==
  ASSUME TypeInv, QuietInv, NEW from, NEW to, Say(from, to),
         from \in {"waiting", "deleted"}, to \in {"join", "delete"}
  PROVE  QuietInv'
<1>1. /\ UNCHANGED <<build, thrown, gone, closed, registered, cnt, fault, DebugClients>>
      /\ main = from /\ main' = to /\ EnterCall(Main)
  BY DEF Say, mainOthers
<1>2. Quiet => ~registered
  BY <1>1 DEF QuietInv
<1>3. Quiet => UNCHANGED call
  BY <1>1, <1>2 DEF EnterCall
<1>4. Quiet => ~gone
  BY <1>1 DEF QuietInv
<1> QED
  BY <1>1, <1>2, <1>3, <1>4 DEF QuietInv, Quiet

LEMMA QuietNext ==
  TypeInv /\ TypeInv' /\ QuietInv /\ [Next]_vars => QuietInv'
<1> SUFFICES ASSUME TypeInv, TypeInv', QuietInv, [Next]_vars PROVE QuietInv'
  OBVIOUS
<1> USE DEF mainOthers, noCall, callVars, histVars, mainVars, netVars, lstVars
<1>1. ASSUME NEW p \in Peers, Connect(p) \/ Hangup(p) PROVE QuietInv'
  <2>1. UNCHANGED <<build, thrown, main, call, gone, closed, registered, cnt, fault, DebugClients>>
    BY <1>1 DEF Connect, Hangup
  <2> QED
    BY <2>1 DEF QuietInv, Quiet
<1>2. ASSUME NEW t \in Loggers, Cout(t) PROVE QuietInv'
  <2>1. /\ UNCHANGED <<build, thrown, main, gone, closed, registered, cnt, fault, DebugClients>>
        /\ EnterCall(t)
        /\ (main = "wait" \/ t \in build.late)
    BY <1>2 DEF Cout, callOthers
  <2>2. Quiet => main = "wait"
    BY <1>2, <2>1 DEF Quiet, Cout
  <2>3. Main \in Threads /\ t # Main /\ EnterCall(t)
    BY <1>2, NamesAssumption DEF Threads, Cout
  <2>4. call'[Main] = call[Main]
    BY <2>3 DEF EnterCall, TypeInv
  <2> QED
    BY <1>2, <2>2, <2>4 DEF QuietInv, Quiet, Cout, callOthers
<1>3. CASE SequenceEnds
  <2>1. /\ UNCHANGED <<build, thrown, gone, call, closed, registered, cnt, fault, DebugClients>>
        /\ main = "wait" /\ main' = "unregister"
        /\ \A t \in Loggers \ build.late : call[t] = "out"
    BY <1>3 DEF SequenceEnds
  <2>2. Quiet => \A t \in Threads : call[t] = "out"
    BY <2>1 DEF Quiet, QuietInv, Threads
  <2> QED
    BY <2>1, <2>2 DEF QuietInv, Quiet
<1>4. CASE Throw \/ Sorry
  <2>1. thrown'
    <3>1. Sorry => thrown
      BY DEF Sorry, Say, QuietInv
    <3> QED
      BY <1>4, <3>1 DEF Throw, Sorry, Say
  <2> QED
    BY <2>1 DEF QuietInv, Quiet
<1>5. CASE Unregister
  <2>1. /\ UNCHANGED <<build, thrown, gone, call, closed, cnt, fault, DebugClients>>
        /\ main = "unregister" /\ main' = "destroy" /\ registered' = FALSE
    BY <1>5 DEF Unregister, RemoveClients
  <2> QED
    BY <2>1 DEF QuietInv, Quiet
<1>6. CASE Destroy
  <2>1. /\ UNCHANGED <<build, thrown, gone, call, closed, registered, DebugClients>>
        /\ main = "destroy" /\ main' \in {"shut", "stopped"}
    BY <1>6 DEF Destroy
  <2>2. Quiet => ~gone
    BY <2>1 DEF QuietInv
  <2>3. ~gone => main' = "shut" /\ cnt' = Len(DebugClients) /\ UNCHANGED fault
    BY <1>6 DEF Destroy
  <2>4. Len(DebugClients) \in Nat
    BY DEF TypeInv
  <2> QED
    BY <2>1, <2>2, <2>3, <2>4 DEF QuietInv, Quiet
<1>7. CASE Shut
  <2>1. /\ UNCHANGED <<build, thrown, gone, call, cnt, registered, main, DebugClients>>
        /\ main = "shut" /\ pos < cnt
    BY <1>7 DEF Shut
  <2>2. Quiet => pos < Len(DebugClients)
    <3>1. Quiet => cnt <= Len(DebugClients)
      BY <2>1 DEF QuietInv
    <3>2. cnt \in Nat /\ pos \in Nat /\ Len(DebugClients) \in Nat
      BY DEF TypeInv
    <3> QED
      BY <2>1, <3>1, <3>2
  <2>3. Quiet => UNCHANGED fault
    <3>1. pos \in Nat /\ Len(DebugClients) \in Nat
      BY DEF TypeInv
    <3> QED
      BY <1>7, <2>2, <3>1 DEF Shut
  <2> QED
    BY <2>1, <2>3 DEF QuietInv, Quiet
<1>8. CASE DeleteListener
  <2>1. /\ UNCHANGED <<build, thrown, gone, call, closed, registered, cnt, DebugClients>>
        /\ main = "shut" /\ main' = "waiting" /\ fault' \subseteq fault \cup {"wild"}
    BY <1>8 DEF DeleteListener, Undefined
  <2> QED
    BY <2>1 DEF QuietInv, Quiet, AfterDelete
<1>9. CASE Waiting \/ Deleted
  BY <1>9, QuietSay DEF Waiting, Deleted
<1>10. CASE Join
  <2>1. /\ UNCHANGED <<build, thrown, gone, call, closed, registered, cnt, DebugClients>>
        /\ main = "join" /\ main' \in {"join", "deleted"}
        /\ fault' \subseteq fault \cup {"join"}
    BY <1>10 DEF Join, Undefined
  <2> QED
    BY <2>1 DEF QuietInv, Quiet, AfterDelete
<1>11. CASE Delete
  <2>1. /\ UNCHANGED <<build, thrown, call, closed, registered, cnt, fault, DebugClients>>
        /\ main = "delete" /\ main' = IF thrown THEN "unregister" ELSE "stopped"
    BY <1>11 DEF Delete
  <2> QED
    BY <2>1 DEF QuietInv, Quiet
<1>12. CASE UNCHANGED vars
  BY <1>12 DEF QuietInv, Quiet, vars
<1> QED
  BY <1>1, <1>2, <1>3, <1>4, <1>5, <1>6, <1>7, <1>8, <1>9, <1>10, <1>11, <1>12,
     QuietListen, QuietCall DEF Next, Teardown

(* Without late threads and exceptions nobody uses the server or a stream  *)
(* after its deletion, whatever tools come and go meanwhile.               *)
THEOREM SafeTeardown == Spec => []QuietTeardown
<1>1. Init => QuietInv
  <2> SUFFICES ASSUME Init PROVE QuietInv
    OBVIOUS
  <2>1. /\ fault = {} /\ main = "wait" /\ ~gone
        /\ \A p \in Peers : ~closed[p]
        /\ call[Main] = "out"
    BY DEF Init, Threads
  <2> QED
    BY <2>1 DEF QuietInv
<1>2. TypeInv /\ QuietInv => QuietTeardown
  BY DEF QuietInv, QuietTeardown, Quiet, AfterDelete, TypeInv
<1> QED
  BY <1>1, <1>2, TypeInit, TypeNext, QuietNext, PTL DEF Spec

=============================================================================

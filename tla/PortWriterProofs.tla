--------------------------- MODULE PortWriterProofs ---------------------------
(***************************************************************************)
(* Proofs about PortWriter: for both classes and platforms, any frames and *)
(* any number of writes and pulls of the plug.                             *)
(***************************************************************************)
EXTENDS PortWriter, TLAPS

LEMMA TypeInit == Init => TypeInv
<1> SUFFICES ASSUME Init PROVE TypeInv
  OBVIOUS
<1>1. mBuffer \in Frames \cup {Wild} /\ mCnt \in Members
  BY DEF Init, Members
<1>2. sent \in (Members \cup {Unloaded}) \X (Members \cup {Unloaded})
  BY DEF Init
<1> QED
  BY <1>1, <1>2 DEF Init, TypeInv

LEMMA TypeNext == TypeInv /\ [Next]_vars => TypeInv'
<1> SUFFICES ASSUME TypeInv, [Next]_vars PROVE TypeInv'
  OBVIOUS
<1> USE DEF TypeInv, Members, ownVars, wrtVars, memVars, devVars, wrtOthers
<1>1. CASE Unplug \/ Plug
  <2>1. CASE Unplug
    <3>1. plugged' \in BOOLEAN /\ fresh' \in BOOLEAN
      BY <2>1 DEF Unplug
    <3>2. pulls' \in Nat
      BY <2>1 DEF Unplug
    <3> QED
      BY <2>1, <3>1, <3>2 DEF Unplug
  <2>2. CASE Plug
    BY <2>2 DEF Plug
  <2> QED
    BY <1>1, <2>1, <2>2
<1>2. CASE Construct \/ DoOpen
  <2>1. CASE Construct
    BY <2>1 DEF Construct
  <2>2. CASE Reset
    BY <2>2 DEF Reset
  <2>5. CASE Reopen
    <3>1. ftStatus' \in BOOLEAN /\ fresh' \in BOOLEAN
      BY <2>5 DEF Reopen
    <3> QED
      BY <2>5, <3>1 DEF Reopen
  <2>3. CASE Opened
    <3>1. isOpen' \in BOOLEAN
      BY <2>3 DEF Opened
    <3> QED
      BY <2>3, <3>1 DEF Opened
  <2>4. CASE Return
    BY <2>4 DEF Return
  <2>6. CASE StoreResult
    BY <2>6 DEF StoreResult
  <2> QED
    BY <1>2, <2>1, <2>2, <2>3, <2>4, <2>5, <2>6 DEF DoOpen
<1>3. ASSUME NEW f \in Frames, BeginWrite(f) PROVE TypeInv'
  BY <1>3 DEF BeginWrite
<1>4. CASE StorePointer
  BY <1>4 DEF StorePointer, SetPointer, Loading
<1>5. CASE StoreCount
  BY <1>5 DEF StoreCount, SetCount, Loading
<1>6. CASE EndWrite
  BY <1>6 DEF EndWrite
<1>7. CASE Destroy \/ Wait \/ Close \/ Delete
  <2>1. CASE Destroy
    BY <2>1 DEF Destroy
  <2>2. CASE Wait
    BY <2>2 DEF Wait
  <2>3. CASE Close
    <3>1. isOpen' \in BOOLEAN /\ fresh' \in BOOLEAN /\ ftStatus' \in BOOLEAN
      BY <2>3 DEF Close
    <3> QED
      BY <2>3, <3>1 DEF Close
  <2>4. CASE Delete
    BY <2>4 DEF Delete
  <2> QED
    BY <1>7, <2>1, <2>2, <2>3, <2>4
<1>8. CASE StartThread \/ CheckDone \/ SetLine \/ StoreStatus \/ Test
  <2>1. CASE StartThread
    <3>1. done' \in BOOLEAN
      BY <2>1 DEF StartThread
    <3> QED
      BY <2>1, <3>1 DEF StartThread
  <2>2. CASE CheckDone
    BY <2>2 DEF CheckDone
  <2>3. CASE SetLine
    BY <2>3 DEF SetLine
  <2>4. CASE Test
    BY <2>4 DEF Test
  <2>5. CASE StoreStatus
    BY <2>5 DEF StoreStatus, SetStatus
  <2> QED
    BY <1>8, <2>1, <2>2, <2>3, <2>4, <2>5
<1>9. CASE Load
  <2>1. /\ buf' \in Members \cup {Unloaded} /\ cnt' \in Members \cup {Unloaded}
        /\ writer' \in {"load", "send"}
        /\ writer' = "send" => Unloaded \notin {buf', cnt'}
    BY <1>9 DEF Load, Loaded
  <2> QED
    BY <1>9, <2>1 DEF Load
<1>10. CASE Send
  <2>1. /\ sent' \in (Members \cup {Unloaded}) \X (Members \cup {Unloaded})
        /\ fault' \subseteq {"wild", "closed", "gone"}
        /\ answer' \in BOOLEAN
    BY <1>10 DEF Send
  <2> QED
    BY <1>10, <2>1 DEF Send
<1>11. CASE Stray
  BY <1>11 DEF Stray
<1>12. CASE UNCHANGED vars
  BY <1>12 DEF vars
<1> QED
  BY <1>1, <1>2, <1>3, <1>4, <1>5, <1>6, <1>7, <1>8, <1>9, <1>10, <1>11, <1>12
  DEF Next, Owner, Writer

(* Type correctness of port, thread and device.                            *)
THEOREM TypeCorrect == Spec => []TypeInv
BY TypeInit, TypeNext, PTL DEF Spec

LEMMA BuildFixed == [Next]_vars => build' = build
BY DEF Next, Owner, DoOpen, Writer, vars, wrtOthers, Unplug, Plug, Construct, Reset, Reopen,
       Opened, Return, StoreResult, BeginWrite, StorePointer, StoreCount, EndWrite, Destroy,
       Wait, Close, Delete, StartThread, CheckDone, SetLine, StoreStatus, Test, Load, Send,
       Stray

-----------------------------------------------------------------------------
(* What ftdi sends was given.  The count is the thread's permission to     *)
(* send, and once there is a count there is a pointer.                     *)
GivenInv ==
  build.ftdi =>
    /\ mCnt \in Frames \cup {Zero}
    /\ mCnt \in Frames \/ owner = "count" => mBuffer \in Frames
    /\ Loading => /\ mCnt \in Frames
                  /\ buf \in Frames \cup {Unloaded} /\ cnt \in Frames \cup {Unloaded}
    /\ "wild" \notin fault

LEMMA GivenNext == TypeInv /\ GivenInv /\ [Next]_vars => GivenInv'
<1> SUFFICES ASSUME build.ftdi, TypeInv, GivenInv, [Next]_vars PROVE GivenInv'
  BY BuildFixed DEF GivenInv
<1> USE DEF GivenInv, Loading, ownVars, wrtVars, memVars, devVars, wrtOthers
<1>1. CASE Unplug \/ Plug
  BY <1>1 DEF Unplug, Plug
<1>2. CASE Construct \/ DoOpen
  BY <1>2 DEF Construct, DoOpen, Reset, Reopen, Opened, Return, StoreResult
<1>3. ASSUME NEW f \in Frames, BeginWrite(f) PROVE GivenInv'
  BY <1>3 DEF BeginWrite
<1>4. CASE StorePointer
  BY <1>4 DEF StorePointer, SetPointer, TypeInv
<1>5. CASE StoreCount
  BY <1>5 DEF StoreCount, SetCount, TypeInv
<1>6. CASE EndWrite \/ Destroy \/ Wait \/ Close \/ Delete
  BY <1>6 DEF EndWrite, Destroy, Wait, Close, Delete
<1>7. CASE StartThread \/ CheckDone \/ SetLine \/ StoreStatus
  BY <1>7 DEF StartThread, CheckDone, SetLine, StoreStatus
<1>8. CASE Test
  BY <1>8 DEF Test, Sends
<1>9. CASE Load
  BY <1>9 DEF Load, Loaded
<1>10. CASE Send
  <2>1. Wild \notin {buf, cnt}
    BY <1>10, PortAssumption DEF Send
  <2> QED
    BY <1>10, <2>1 DEF Send
<1>11. CASE Stray
  BY <1>11 DEF Stray
<1>12. CASE UNCHANGED vars
  BY <1>12 DEF vars
<1> QED
  BY <1>1, <1>2, <1>3, <1>4, <1>5, <1>6, <1>7, <1>8, <1>9, <1>10, <1>11, <1>12
  DEF Next, Owner, Writer

(* ftdi never hands the driver a pointer or a count nobody gave, however   *)
(* the stores of write and the loads of the thread interleave.             *)
THEOREM SendsGiven == Spec => []FtdiSendsGiven
<1>1. Init => GivenInv
  BY PortAssumption DEF Init, GivenInv, Loading
<1>2. GivenInv => FtdiSendsGiven
  BY DEF GivenInv, FtdiSendsGiven
<1> QED
  BY <1>1, <1>2, TypeInit, TypeNext, GivenNext, PTL DEF Spec

-----------------------------------------------------------------------------
(* Torn pairs.  Except between the two stores the members belong together  *)
(* once there is a count, and what the thread has loaded without an overlap*)
(* is what they hold.                                                      *)
TornInv ==
  /\ IF owner = "count" THEN mBuffer = frame ELSE mBuffer = mCnt \/ mCnt = Zero
  /\ ~build.ftdi \/ Loading => mCnt # Zero
  /\ Loading /\ ~overlap => /\ owner # "count"
                            /\ buf \in {mBuffer, Unloaded}
                            /\ cnt \in {mCnt, Unloaded}

LEMMA TornNext == TypeInv /\ TornInv /\ [Next]_vars => TornInv'
<1> SUFFICES ASSUME TypeInv, TornInv, [Next]_vars PROVE TornInv'
  OBVIOUS
<1>0. build' = build
  BY BuildFixed
<1> USE <1>0, PortAssumption DEF TornInv, Loading, ownVars, wrtVars, memVars, devVars, wrtOthers
<1>1. CASE Unplug \/ Plug
  BY <1>1 DEF Unplug, Plug
<1>2. CASE Construct \/ DoOpen
  BY <1>2 DEF Construct, DoOpen, Reset, Reopen, Opened, Return, StoreResult
<1>3. ASSUME NEW f \in Frames, BeginWrite(f) PROVE TornInv'
  BY <1>3 DEF BeginWrite
<1>4. CASE StorePointer
  BY <1>4 DEF StorePointer, SetPointer
<1>5. CASE StoreCount
  BY <1>5 DEF StoreCount, SetCount, TypeInv
<1>6. CASE EndWrite \/ Destroy \/ Wait \/ Close \/ Delete
  BY <1>6 DEF EndWrite, Destroy, Wait, Close, Delete
<1>7. CASE StartThread \/ CheckDone \/ SetLine \/ StoreStatus
  BY <1>7 DEF StartThread, CheckDone, SetLine, StoreStatus
<1>8. CASE Test
  BY <1>8 DEF Test, Sends, TypeInv
<1>9. CASE Load
  BY <1>9 DEF Load, Loaded, TypeInv
<1>10. CASE Send \/ Stray
  BY <1>10 DEF Send, Stray
<1>11. CASE UNCHANGED vars
  BY <1>11 DEF vars
<1> QED
  BY <1>1, <1>2, <1>3, <1>4, <1>5, <1>6, <1>7, <1>8, <1>9, <1>10, <1>11
  DEF Next, Owner, Writer

(* What goes out is one frame, and the one given last, unless one of the   *)
(* two stores of a write fell between the thread's test and its send.      *)
THEOREM TornFrames == Spec => []TornNeedsOverlap
<1>1. Init => TornInv
  BY PortAssumption DEF Init, TornInv, Loading
<1>2. TypeInv /\ TornInv => TornNeedsOverlap
  BY PortAssumption DEF TypeInv, TornInv, TornNeedsOverlap, Loading
<1> QED
  BY <1>1, <1>2, TypeInit, TypeNext, TornNext, PTL DEF Spec

-----------------------------------------------------------------------------
(* Stray threads.  Without a limit to the wait the thread has ended before *)
(* the port is closed.                                                     *)
StrayInv ==
  ~build.win => /\ owner \in {"close", "closed", "gone"} => writer = "ended"
                /\ fault \cap {"closed", "gone"} = {}

LEMMA StrayNext == StrayInv /\ [Next]_vars => StrayInv'
<1> SUFFICES ASSUME ~build.win, StrayInv, [Next]_vars PROVE StrayInv'
  BY BuildFixed DEF StrayInv
<1> USE DEF StrayInv, ownVars, wrtVars, memVars, devVars, wrtOthers
<1>1. CASE Unplug \/ Plug
  BY <1>1 DEF Unplug, Plug
<1>2. CASE Construct \/ DoOpen \/ \E f \in Frames : BeginWrite(f)
  BY <1>2 DEF Construct, DoOpen, Reset, Reopen, Opened, Return, StoreResult, BeginWrite
<1>3. CASE StorePointer \/ StoreCount \/ EndWrite
  BY <1>3 DEF StorePointer, StoreCount, EndWrite
<1>4. CASE Destroy \/ Wait \/ Close \/ Delete
  BY <1>4 DEF Destroy, Wait, Joined, Close, Delete
<1>5. CASE StartThread \/ CheckDone \/ SetLine \/ StoreStatus
  BY <1>5 DEF StartThread, CheckDone, SetLine, StoreStatus
<1>6. CASE Test \/ Load
  BY <1>6 DEF Test, Load, Loaded
<1>7. CASE Send \/ Stray
  BY <1>7 DEF Send, Stray
<1>8. CASE UNCHANGED vars
  BY <1>8 DEF vars
<1> QED
  BY <1>1, <1>2, <1>3, <1>4, <1>5, <1>6, <1>7, <1>8 DEF Next, Owner, Writer

(* Only where the wait for the thread has a limit does the thread use the  *)
(* port or the object after the destructor is through.                     *)
THEOREM StrayThread == Spec => []StrayNeedsTimeout
<1>1. Init => StrayInv
  BY DEF Init, StrayInv
<1>2. StrayInv => StrayNeedsTimeout
  BY DEF StrayInv, StrayNeedsTimeout
<1> QED
  BY <1>1, <1>2, StrayNext, PTL DEF Spec
=============================================================================

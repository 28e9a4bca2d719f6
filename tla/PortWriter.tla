------------------------------ MODULE PortWriter ------------------------------
(***************************************************************************)
(* A port and its writer thread: serialib (serial port) and ftdi (FTDI     *)
(* device), which share one scheme.  The owner, a client of the light,     *)
(* stores a pointer and a count; the writer thread sends what they say     *)
(* every 100 ms until `done`; the destructor sets done, waits for the      *)
(* thread (on Windows for 200 ms at most) and closes the port.             *)
(*                                                                         *)
(* A frame stands for its buffer and for its count, so that a pair made of *)
(* two frames can be told.  The driver is external: its calls succeed while*)
(* the handle is that of the device plugged in; opening a device that is   *)
(* there may fail, because an older handle still holds it, and then keeps  *)
(* or spoils the handle.  The six calls that set a line up are one.        *)
(***************************************************************************)
EXTENDS Naturals

CONSTANTS
  Frames,
  Wild,       \* a member nothing was stored in
  Zero,       \* ftdi's mCnt = 0
  Unloaded,
  Builds,     \* the class and the platform
  MaxWrites,  \* bound: calls of write
  MaxPulls    \* bound: times the device is unplugged

ASSUME PortAssumption ==
  /\ {Wild, Zero, Unloaded} \cap Frames = {} /\ Wild # Zero
  /\ Unloaded \notin {Wild, Zero}
  /\ Builds \subseteq [ftdi : BOOLEAN, win : BOOLEAN]
  /\ MaxWrites \in Nat /\ MaxPulls \in Nat

VARIABLES
  build,
  owner, frame, writes,   \* the owner, the frame of its call, its calls so far
  result,                 \* what doOpen returns, until it is stored
  writer, buf, cnt,       \* the thread, the arguments it has loaded
  answer,                 \* the driver's answer to the thread, until it is stored
  mBuffer, mCnt, done,
  isOpen,                 \* serialib::isOpen, ftdi::isConnected
  ftStatus,               \* ftdi: the last driver call succeeded
  plugged, fresh, pulls,  \* the device; the handle is its own
  sent,                   \* what was last sent: buffer and count
  overlap,                \* history: a store fell between the writer's loads
  fault                   \* history: undefined uses

ownVars == <<owner, frame, writes, result>>
wrtVars == <<writer, buf, cnt, answer, sent>>
memVars == <<mBuffer, mCnt, done, isOpen>>
devVars == <<plugged, fresh, pulls>>
vars == <<build, ownVars, wrtVars, memVars, ftStatus, devVars, overlap, fault>>

Init ==
  /\ build \in Builds
  /\ owner = "construct" /\ frame = Unloaded /\ writes = 0 /\ result = TRUE
  /\ writer = "none" /\ buf = Unloaded /\ cnt = Unloaded /\ answer = TRUE
  /\ mBuffer = Wild /\ mCnt = (IF build.ftdi THEN Zero ELSE Wild)
  /\ done \in BOOLEAN                    \* not initialised
  /\ isOpen = FALSE /\ ftStatus = TRUE
  /\ plugged \in BOOLEAN /\ fresh = FALSE /\ pulls = 0
  /\ sent = <<Unloaded, Unloaded>>
  /\ overlap = FALSE /\ fault = {}

-----------------------------------------------------------------------------
(* The device.                                                             *)

Unplug ==
  /\ plugged /\ pulls < MaxPulls
  /\ plugged' = FALSE /\ fresh' = FALSE /\ pulls' = pulls + 1
  /\ UNCHANGED <<build, ownVars, wrtVars, memVars, ftStatus, overlap, fault>>

Plug ==
  /\ ~plugged
  /\ plugged' = TRUE
  /\ UNCHANGED <<build, ownVars, wrtVars, memVars, ftStatus, fresh, pulls, overlap,
                 fault>>

-----------------------------------------------------------------------------
(* The owner.                                                              *)

(* The constructor.  serialib opens the port and starts the thread if it   *)
(* opens; ftdi tries a device that was listed at the start.                *)
Construct ==
  /\ owner = "construct"
  /\ \/ /\ ~build.ftdi
        /\ isOpen' = plugged /\ fresh' = plugged
        /\ writer' = IF plugged THEN "start" ELSE "none"
        /\ owner' = "idle"
     \/ /\ build.ftdi
        /\ owner' \in {"reset", "idle"}
        /\ UNCHANGED <<isOpen, fresh, writer>>
  /\ UNCHANGED <<build, frame, writes, result, buf, cnt, answer, sent, mBuffer, mCnt,
                 done,
                 ftStatus, plugged, pulls, overlap, fault>>

(* ftdi's doOpen.  Each of its driver calls stores its answer in ftStatus, *)
(* as the thread's do: it tests, and returns, what stands there by then.   *)
Reset ==
  /\ owner = "reset"
  /\ ftStatus' = fresh
  /\ owner' = "reopen"
  /\ UNCHANGED <<build, frame, writes, result, wrtVars, memVars, devVars, overlap,
                 fault>>

Reopen ==
  /\ owner = "reopen"
  /\ \/ plugged /\ ftStatus' = TRUE /\ fresh' = TRUE
     \/ ftStatus' = FALSE /\ fresh' \in {fresh, FALSE}
  /\ owner' = "opened"
  /\ UNCHANGED <<build, frame, writes, result, wrtVars, memVars, plugged, pulls, overlap,
                 fault>>

(* Only the constructor, before any write, has the thread started.         *)
Opened ==
  /\ owner = "opened"
  /\ isOpen' = (isOpen \/ ftStatus)
  /\ writer' = IF ftStatus /\ writes = 0 THEN "start" ELSE writer
  /\ owner' = "return"
  /\ UNCHANGED <<build, frame, writes, result, buf, cnt, answer, sent, mBuffer, mCnt,
                 done,
                 ftStatus, devVars, overlap, fault>>

Return ==
  /\ owner = "return"
  /\ result' = ftStatus
  /\ owner' = "result"
  /\ UNCHANGED <<build, frame, writes, wrtVars, memVars, ftStatus, devVars, overlap,
                 fault>>

StoreResult ==
  /\ owner = "result"
  /\ ftStatus' = result
  /\ owner' = "idle"
  /\ UNCHANGED <<build, frame, writes, result, wrtVars, memVars, devVars, overlap,
                 fault>>

Loading == writer \in {"load", "send"}

BeginWrite(f) ==
  /\ owner = "idle" /\ writes < MaxWrites
  /\ frame' = f /\ writes' = writes + 1
  /\ owner' = "pointer"
  /\ UNCHANGED <<build, result, wrtVars, memVars, ftStatus, devVars, overlap, fault>>

(* Slips: the members are set by the first call only.                      *)
KeepPointer == mBuffer' = IF mBuffer \in Frames THEN mBuffer ELSE frame
KeepCount == mCnt' = IF mCnt \in Frames THEN mCnt ELSE frame

SetPointer == mBuffer' = frame
SetCount == mCnt' = frame

StorePointer ==
  /\ owner = "pointer"
  /\ SetPointer
  /\ owner' = "count"
  /\ overlap' = (overlap \/ Loading)
  /\ UNCHANGED <<build, frame, writes, result, wrtVars, mCnt, done, isOpen, ftStatus,
                 devVars, fault>>

StoreCount ==
  /\ owner = "count"
  /\ SetCount
  /\ owner' = "status"
  /\ overlap' = (overlap \/ Loading)
  /\ UNCHANGED <<build, frame, writes, result, wrtVars, mBuffer, done, isOpen, ftStatus,
                 devVars, fault>>

(* ftdi opens the device again when it is not connected or the last driver *)
(* call failed, without starting a thread; serialib only logs.             *)
MustReopen == build.ftdi /\ (~isOpen \/ ~ftStatus)

EndWrite ==
  /\ owner = "status"
  /\ owner' = IF MustReopen THEN "reset" ELSE "idle"
  /\ UNCHANGED <<build, frame, writes, result, wrtVars, memVars, ftStatus, devVars,
                 overlap,
                 fault>>

Destroy ==
  /\ owner = "idle"
  /\ done' = TRUE
  /\ owner' = "wait"
  /\ UNCHANGED <<build, frame, writes, result, wrtVars, mBuffer, mCnt, isOpen, ftStatus,
                 devVars,
                 overlap, fault>>

NoJoin == TRUE   \* a slip: nobody waits for the thread
Joined == writer = "ended"

(* join(); with no thread behind it, it throws inside the destructor.  The *)
(* wait on Windows also ends after 200 ms, and at once on a wild handle.   *)
Wait ==
  /\ owner = "wait"
  /\ \/ (Joined \/ build.win) /\ owner' = "close"
     \/ writer = "none" /\ ~build.win /\ owner' = "aborted"
  /\ UNCHANGED <<build, frame, writes, result, wrtVars, memVars, ftStatus, devVars,
                 overlap, fault>>

Close ==
  /\ owner = "close"
  /\ isOpen' = FALSE /\ fresh' = FALSE
  /\ ftStatus' = IF build.ftdi THEN fresh ELSE ftStatus     \* ResetDevice
  /\ owner' = "closed"
  /\ UNCHANGED <<build, frame, writes, result, wrtVars, mBuffer, mCnt, done, plugged,
                 pulls,
                 overlap, fault>>

(* The destructor has returned: the object is no more.                     *)
Delete ==
  /\ owner = "closed"
  /\ owner' = "gone"
  /\ UNCHANGED <<build, frame, writes, result, wrtVars, memVars, ftStatus, devVars,
                 overlap, fault>>

-----------------------------------------------------------------------------
(* The writer thread, writeData and writeDataToUSB.                        *)

Alive == owner \notin {"gone", "aborted"}
wrtOthers == <<build, ownVars, mBuffer, mCnt, isOpen, devVars>>

StartThread ==
  /\ writer = "start" /\ Alive
  /\ done' = FALSE
  /\ writer' = "check"
  /\ UNCHANGED <<wrtOthers, buf, cnt, answer, sent, ftStatus, overlap, fault>>

StopsWhenClosed == ~isOpen   \* a slip: the loop tests isOpen instead of done
Stops == done

CheckDone ==
  /\ writer = "check" /\ Alive
  /\ writer' = IF Stops THEN "ended" ELSE "line"
  /\ UNCHANGED <<wrtOthers, buf, cnt, answer, sent, done, ftStatus, overlap, fault>>

(* ftdiSomething sets the line up in every turn; serialib has no such call.*)
SetLine ==
  /\ writer = "line" /\ Alive
  /\ answer' = fresh
  /\ writer' = IF build.ftdi THEN "lined" ELSE "test"
  /\ UNCHANGED <<wrtOthers, buf, cnt, sent, done, ftStatus, overlap, fault>>

UnsetStatus == ftStatus' = IF writer = "lined" THEN ftStatus ELSE answer   \* a slip
SetStatus == ftStatus' = answer

(* What the driver answered reaches the member later.                      *)
StoreStatus ==
  /\ writer \in {"lined", "written"} /\ Alive
  /\ SetStatus
  /\ writer' = IF writer = "lined" THEN "test" ELSE "check"   \* check: after 100 ms
  /\ UNCHANGED <<wrtOthers, buf, cnt, answer, sent, done, overlap, fault>>

SendsUncounted == isOpen /\ (build.ftdi => ftStatus)   \* a slip: mCnt > 0 is not asked

(* serialib sends whatever the members hold, ftdi asks for a count.        *)
Sends == isOpen /\ (build.ftdi => ftStatus /\ mCnt # Zero)

Test ==
  /\ writer = "test" /\ Alive
  /\ writer' = IF Sends THEN "load" ELSE "check"
  /\ buf' = Unloaded /\ cnt' = Unloaded
  /\ overlap' = (owner \in {"pointer", "count"})
  /\ UNCHANGED <<wrtOthers, answer, sent, done, ftStatus, fault>>

Loaded(b, c) ==
  /\ buf' = b /\ cnt' = c
  /\ writer' = IF Unloaded \in {b, c} THEN "load" ELSE "send"

(* The arguments of the driver's call are read in either order.            *)
Load ==
  /\ writer = "load" /\ Alive
  /\ \/ buf = Unloaded /\ Loaded(mBuffer, cnt)
     \/ cnt = Unloaded /\ Loaded(buf, mCnt)
  /\ overlap' = (overlap \/ owner \in {"pointer", "count"})
  /\ UNCHANGED <<wrtOthers, answer, sent, done, ftStatus, fault>>

(* A failing driver call sends nothing.                                    *)
Send ==
  /\ writer = "send" /\ Alive
  /\ sent' = IF fresh THEN <<buf, cnt>> ELSE sent
  /\ answer' = fresh
  /\ fault' = fault \cup (IF Wild \in {buf, cnt} THEN {"wild"} ELSE {})
                    \cup (IF owner = "closed" THEN {"closed"} ELSE {})
  /\ writer' = IF build.ftdi THEN "written" ELSE "check"
  /\ UNCHANGED <<wrtOthers, buf, cnt, done, ftStatus, overlap>>

(* The thread goes on with a deleted object.                               *)
Stray ==
  /\ writer \notin {"none", "ended"} /\ owner = "gone"
  /\ fault' = fault \cup {"gone"}
  /\ writer' = "ended"
  /\ UNCHANGED <<wrtOthers, buf, cnt, answer, sent, done, ftStatus, overlap>>

-----------------------------------------------------------------------------
DoOpen == Reset \/ Reopen \/ Opened \/ Return \/ StoreResult
Owner == DoOpen \/ StorePointer \/ StoreCount \/ EndWrite \/ Wait \/ Close \/ Delete
Writer == StartThread \/ CheckDone \/ SetLine \/ StoreStatus \/ Test \/ Load \/ Send \/ Stray

Next ==
  \/ Unplug \/ Plug
  \/ Construct \/ Destroy \/ \E f \in Frames : BeginWrite(f)
  \/ Owner
  \/ Writer

Spec == Init /\ [][Next]_vars

(* A call and a destructor that began go on, the thread runs and the driver*)
(* returns; nobody need write, delete, plug or unplug.                     *)
FairSpec == Spec /\ WF_vars(Owner) /\ WF_vars(Writer)

-----------------------------------------------------------------------------
Members == Frames \cup {Wild, Zero}

TypeInv ==
  /\ build \in Builds
  /\ owner \in {"construct", "idle", "pointer", "count", "status", "reset", "reopen",
                "opened", "return", "result", "wait", "close", "closed", "gone", "aborted"}
  /\ frame \in Frames \cup {Unloaded}
  /\ owner \in {"pointer", "count", "status"} => frame \in Frames
  /\ writes \in Nat /\ pulls \in Nat /\ result \in BOOLEAN /\ answer \in BOOLEAN
  /\ writer \in {"none", "start", "check", "line", "lined", "test", "load", "send",
                 "written", "ended"}
  /\ buf \in Members \cup {Unloaded} /\ cnt \in Members \cup {Unloaded}
  /\ writer = "send" => Unloaded \notin {buf, cnt}
  /\ mBuffer \in Frames \cup {Wild} /\ mCnt \in Members
  /\ done \in BOOLEAN /\ isOpen \in BOOLEAN /\ ftStatus \in BOOLEAN
  /\ plugged \in BOOLEAN /\ fresh \in BOOLEAN /\ overlap \in BOOLEAN
  /\ sent \in (Members \cup {Unloaded}) \X (Members \cup {Unloaded})
  /\ fault \subseteq {"wild", "closed", "gone"}

(* ftdi never hands the driver a pointer or a count nobody gave: the pointer*)
(* is stored before the count the thread asks for.  (serialib does, until  *)
(* the first writeBuf.)                                                    *)
FtdiSendsGiven == build.ftdi => "wild" \notin fault

(* What goes out is one frame, and the one given last (before the first    *)
(* write, what stood in the members), unless a write was under way while   *)
(* the thread read buffer and count.                                       *)
TornNeedsOverlap ==
  writer = "send" /\ ~overlap => buf = cnt /\ buf = mBuffer

(* Only on Windows, where the wait for the thread has a limit, does the    *)
(* thread use the port or the object after the destructor is through.      *)
StrayNeedsTimeout == fault \cap {"closed", "gone"} # {} => build.win

(* The destructor comes to an end once the thread has seen its own start.  *)
(* (A destructor that sets done before the thread clears it waits for good *)
(* on POSIX.)                                                              *)
DestructorReturns ==
  owner = "wait" /\ done /\ writer \notin {"none", "start"} ~> owner = "gone"

(* The last frame given goes out, as long as the handle stays good and the *)
(* port is not deleted, even if an earlier frame failed.                   *)
LastFrameGoesOut ==
  \A f \in Frames :
    owner = "idle" /\ frame = f /\ fresh /\ writer # "none"
      ~> sent = <<f, f>> \/ frame # f \/ ~fresh \/ owner = "wait"

(* A pulled device is noticed: with nothing to send too, ftStatus comes to *)
(* say so, and still does when a write that was under way is over, so that *)
(* the next write opens the device again.                                  *)
PullIsNoticed ==
  build.ftdi /\ owner = "idle" /\ ~fresh /\ writer \notin {"none", "ended"}
    ~> (owner = "idle" /\ ~ftStatus) \/ fresh \/ owner = "wait"
=============================================================================

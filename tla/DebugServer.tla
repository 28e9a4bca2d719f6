------------------------------ MODULE DebugServer ------------------------------
(***************************************************************************)
(* The debug server and the logger in front of it: the listening thread    *)
(* that accepts tools and appends their streams to DebugClients, the       *)
(* threads that log and, through Logger::cout, walk that vector to send the*)
(* line and drop the clients that are down, and main(), which registers the*)
(* server with the logger, deletes it at the end and joins the listening   *)
(* thread.  No lock guards any of it.                                      *)
(*                                                                         *)
(* One call on a vector is one step; two threads inside the same vector's  *)
(* push_back are not modelled.  Indices are those of the code, from 0.     *)
(***************************************************************************)
EXTENDS Naturals, Sequences, SequencesExt

CONSTANTS
  Peers,      \* tools that may connect, once each
  NoPeer,
  Loggers,    \* the threads that log while the box runs
  Main,
  Builds,     \* platform, and the threads the sequence thread leaves running
  MaxLines    \* bound: how many lines each logger writes

ASSUME NamesAssumption ==
  /\ NoPeer \notin Peers /\ Main \notin Loggers
  /\ Builds \subseteq [win : BOOLEAN, late : SUBSET Loggers] /\ MaxLines \in [Loggers -> Nat]

VARIABLES
  build,
  listening,      \* the listening thread: startListen
  hand,           \* the stream accept() returned
  listener,       \* the pointer and its object: "wild", "live", "deleted"
  DebugClients, listofDowns,
  conn, up, closed,   \* each tool: its connection, whether it is there, our stream deleted
  registered,     \* the server is in the logger's logClients
  call, at, lines,    \* each thread in updateClient, its index, its lines so far
  main, cnt, pos,     \* main() and the destructor's locals
  thrown,         \* main() took its exception path
  gone,           \* the server object is deleted
  fault,          \* history: what was used though it is not there
  crashed,
  owed, disturbed \* history: of a walk, the clients not yet tried; another erased

netVars == <<conn, up, closed>>
lstVars == <<listening, hand>>
callVars == <<call, at, lines>>
mainVars == <<main, cnt, pos, thrown, gone, registered>>
histVars == <<owed, disturbed>>
vars == <<build, lstVars, listener, DebugClients, listofDowns, netVars, callVars,
          mainVars, fault, crashed, histVars>>

Threads == Loggers \cup {Main}

Init ==
  /\ build \in Builds
  /\ listening \in {"none", "start"}      \* std::thread's constructor may throw
  /\ hand = NoPeer /\ listener = "wild" /\ DebugClients = <<>> /\ listofDowns = <<>>
  /\ conn = [p \in Peers |-> "none"] /\ up = [p \in Peers |-> TRUE]
  /\ closed = [p \in Peers |-> FALSE]
  /\ registered = TRUE                    \* addClient, before any thread that logs
  /\ call = [t \in Threads |-> "out"] /\ at = [t \in Threads |-> 0]
  /\ lines = [t \in Threads |-> 0] /\ main = "wait" /\ cnt = 0 /\ pos = 0
  /\ thrown = FALSE /\ gone = FALSE /\ fault = {} /\ crashed = FALSE
  /\ owed = [t \in Threads |-> {}] /\ disturbed = [t \in Threads |-> FALSE]

(* Undefined behaviour: it is recorded, and the program may die of it.     *)
Undefined(f) == fault' = fault \cup {f}
Crash == crashed' = TRUE

-----------------------------------------------------------------------------
(* The tools.                                                              *)

Listens == listening \in {"call", "blocked", "push"} /\ listener = "live"

Connect(p) ==
  /\ Listens /\ conn[p] = "none"
  /\ conn' = [conn EXCEPT ![p] = "pending"]
  /\ UNCHANGED <<build, lstVars, listener, DebugClients, listofDowns, up, closed,
                 callVars, mainVars, fault, crashed, histVars>>

Hangup(p) ==
  /\ conn[p] # "none" /\ up[p]
  /\ up' = [up EXCEPT ![p] = FALSE]
  /\ UNCHANGED <<build, lstVars, listener, DebugClients, listofDowns, conn, closed,
                 callVars, mainVars, fault, crashed, histVars>>

-----------------------------------------------------------------------------
(* The listening thread.                                                   *)

lstOthers == <<build, listofDowns, up, closed, callVars, mainVars, histVars>>

NewAcceptor ==
  /\ listening = "start"
  /\ listener' = "live" /\ listening' = "listen"
  /\ UNCHANGED <<lstOthers, hand, DebugClients, conn, fault, crashed>>

(* start() may fail.  On a deleted acceptor it may as well open a socket of*)
(* its own in the freed memory.                                            *)
Listen ==
  /\ listening = "listen"
  /\ \/ /\ listener = "live"
        /\ UNCHANGED <<fault, crashed>>
     \/ /\ listener = "deleted"
        /\ Undefined("listener")
        /\ crashed' \in BOOLEAN
  /\ listening' \in {"call", "ended"}
  /\ UNCHANGED <<lstOthers, hand, listener, DebugClients, conn>>

(* Entering TCPAcceptor::accept reads the acceptor's members.              *)
CallAccept ==
  /\ listening = "call"
  /\ \/ /\ listener = "live"
        /\ listening' = "blocked"
        /\ UNCHANGED <<fault, crashed>>
     \/ /\ listener = "deleted"
        /\ Undefined("listener")
        /\ crashed' \in BOOLEAN
        /\ listening' \in {"blocked", "ended"}
  /\ UNCHANGED <<lstOthers, hand, listener, DebugClients, conn>>

Accept(p) ==
  /\ listening = "blocked" /\ conn[p] = "pending"
  /\ listener = "live" \/ ~build.win
  /\ conn' = [conn EXCEPT ![p] = "accepted"] /\ hand' = p /\ listening' = "push"
  /\ UNCHANGED <<lstOthers, listener, DebugClients, fault, crashed>>

PushFailure == "push"     \* a slip: the stream is not compared with NULL
AfterFailure == "ended"

(* Any failure of accept() counts as the server's shutdown.                *)
AcceptFails ==
  /\ listening = "blocked" /\ listener = "live"
  /\ listening' = AfterFailure
  /\ UNCHANGED <<lstOthers, hand, listener, DebugClients, conn, fault, crashed>>

(* Closing the socket ends a pending accept() on Windows; POSIX leaves it  *)
(* blocked.                                                                *)
Woken ==
  /\ listening = "blocked" /\ listener = "deleted" /\ build.win
  /\ listening' = "ended"
  /\ UNCHANGED <<lstOthers, hand, listener, DebugClients, conn, fault, crashed>>

Push ==
  /\ listening = "push"
  /\ DebugClients' = Append(DebugClients, hand) /\ listening' = "call"
  /\ UNCHANGED <<lstOthers, hand, listener, conn, fault, crashed>>

-----------------------------------------------------------------------------
(* Logger::cout and DebugServer::updateClient, in any thread.              *)

callOthers == <<build, lstVars, listener, netVars, mainVars>>

(* The logger's own loop: the server is its one client.                    *)
EnterCall(t) ==
  /\ IF registered
     THEN /\ call' = [call EXCEPT ![t] = "walk"]
          /\ owed' = [owed EXCEPT ![t] = ToSet(DebugClients)]
          /\ disturbed' = [disturbed EXCEPT ![t] = FALSE]
     ELSE UNCHANGED <<call, owed, disturbed>>
  /\ at' = [at EXCEPT ![t] = 0] /\ lines' = [lines EXCEPT ![t] = @ + 1]

(* The threads of the box log until the sequence thread has ended, those of*)
(* build.late after that too.                                              *)
Cout(t) ==
  /\ call[t] = "out" /\ lines[t] < MaxLines[t] /\ ~thrown
  /\ main = "wait" \/ t \in build.late
  /\ EnterCall(t)
  /\ UNCHANGED <<callOthers, DebugClients, listofDowns, fault, crashed>>

(* updateClient on a deleted server: the caller gets out, or dies.         *)
UseGone(t) ==
  /\ call[t] # "out" /\ gone
  /\ Undefined("server") /\ crashed' \in BOOLEAN
  /\ call' = [call EXCEPT ![t] = "out"]
  /\ UNCHANGED <<callOthers, at, lines, DebugClients, listofDowns, histVars>>

Down(i) == listofDowns' = Append(listofDowns, i)

UnsentShort(t) == at[t] + 1 < Len(DebugClients)   \* a slip: the last one is left out
Unsent(t) == at[t] < Len(DebugClients)

(* One turn of the sending loop.  A tool that hung up may be noticed or    *)
(* not; noticing it on POSIX may be SIGPIPE, which nothing in the program  *)
(* handles.  A deleted stream's socket is closed: the send fails.          *)
Send(t) ==
  /\ call[t] = "walk" /\ ~gone /\ Unsent(t)
  /\ LET p == DebugClients[at[t] + 1] IN
       /\ \/ /\ ~closed[p]
             /\ UNCHANGED <<listofDowns, fault, crashed>>
          \/ /\ ~closed[p]
             /\ ~up[p]
             /\ \/ Down(at[t]) /\ UNCHANGED <<fault, crashed>>
                \/ ~build.win /\ Undefined("sigpipe") /\ Crash /\ UNCHANGED listofDowns
          \/ /\ closed[p]
             /\ Down(at[t])
             /\ Undefined("stream")
             /\ crashed' \in BOOLEAN
       /\ owed' = [owed EXCEPT ![t] = @ \ {p}]
  /\ at' = [at EXCEPT ![t] = @ + 1]
  /\ UNCHANGED <<callOthers, call, lines, DebugClients, disturbed>>

EndWalk(t) ==
  /\ call[t] = "walk" /\ ~gone /\ ~Unsent(t)
  /\ call' = [call EXCEPT ![t] = "erase"] /\ at' = [at EXCEPT ![t] = 0]
  /\ UNCHANGED <<callOthers, lines, DebugClients, listofDowns, fault, crashed, histVars>>

(* One turn of the erasing loop; the stream itself is not deleted.         *)
Erase(t) ==
  /\ call[t] = "erase" /\ ~gone /\ at[t] < Len(listofDowns)
  /\ LET k == listofDowns[at[t] + 1] IN
       \/ /\ k < Len(DebugClients)
          /\ DebugClients' = RemoveAt(DebugClients, k + 1)
          /\ UNCHANGED <<fault, crashed>>
       \/ /\ k >= Len(DebugClients)
          /\ Undefined("erase")
          /\ Crash
          /\ UNCHANGED DebugClients
  /\ at' = [at EXCEPT ![t] = @ + 1]
  /\ disturbed' = [u \in Threads |-> disturbed[u] \/ u # t]
  /\ UNCHANGED <<callOthers, call, lines, listofDowns, owed>>

EndErase(t) ==
  /\ call[t] = "erase" /\ ~gone /\ at[t] >= Len(listofDowns)
  /\ call' = [call EXCEPT ![t] = "clear"]
  /\ UNCHANGED <<callOthers, at, lines, DebugClients, listofDowns, fault, crashed, histVars>>

KeepDowns == UNCHANGED listofDowns   \* a slip: the list is not cleared
ClearDowns == listofDowns' = <<>>

Clear(t) ==
  /\ call[t] = "clear" /\ ~gone
  /\ ClearDowns /\ call' = [call EXCEPT ![t] = "out"]
  /\ UNCHANGED <<callOthers, at, lines, DebugClients, fault, crashed, histVars>>

-----------------------------------------------------------------------------
(* main() and the destructor.  Main's own lines go through the same code:  *)
(* it goes on when call[Main] is "out" again.                              *)

Run == call[Main] = "out"
mainOthers == <<build, lstVars, DebugClients, listofDowns, conn, up>>
noCall == <<callVars, histVars>>

(* main's line: `to` is where it stands when the line is written.          *)
Say(from, to) ==
  /\ main = from /\ Run
  /\ main' = to /\ EnterCall(Main)
  /\ UNCHANGED <<mainOthers, listener, closed, cnt, pos, thrown, gone, registered,
                 fault, crashed>>

(* waitSequenceThread returns: all threads but the late ones have left.    *)
SequenceEnds ==
  /\ main = "wait" /\ ~thrown
  /\ \A t \in Loggers \ build.late : call[t] = "out"
  /\ main' = "unregister"
  /\ UNCHANGED <<mainOthers, listener, closed, cnt, pos, thrown, gone, registered,
                 noCall, fault, crashed>>

(* The sequence thread could not be started (std::system_error).           *)
Throw ==
  /\ main = "wait" /\ ~build.win
  /\ \A t \in Loggers : lines[t] = 0
  /\ thrown' = TRUE /\ main' = "sorry"
  /\ UNCHANGED <<mainOthers, listener, closed, cnt, pos, gone, registered, noCall,
                 fault, crashed>>

Sorry == Say("sorry", "what") \/ Say("what", "destroy")

StayRegistered == UNCHANGED registered   \* a slip: removeClients is forgotten

(* log->removeClients.                                                     *)
RemoveClients == registered' = FALSE

Unregister ==
  /\ main = "unregister" /\ Run
  /\ RemoveClients /\ main' = "destroy"
  /\ UNCHANGED <<mainOthers, listener, closed, cnt, pos, thrown, gone, noCall,
                 fault, crashed>>

(* The destructor is entered; after an exception, a second time.           *)
Destroy ==
  /\ main = "destroy" /\ Run
  /\ \/ /\ ~gone
        /\ cnt' = Len(DebugClients)
        /\ pos' = 0
        /\ main' = "shut"
        /\ UNCHANGED <<fault, crashed>>
     \/ /\ gone
        /\ Undefined("double")
        /\ crashed' \in BOOLEAN
        /\ main' = "stopped"
        /\ UNCHANGED <<cnt, pos>>
  /\ UNCHANGED <<mainOthers, listener, closed, thrown, gone, registered, noCall>>

(* doShutdown and delete, by index up to the size read at the start.       *)
Shut ==
  /\ main = "shut" /\ pos < cnt
  /\ \/ /\ pos < Len(DebugClients)
        /\ closed' = [closed EXCEPT ![DebugClients[pos + 1]] = TRUE]
        /\ UNCHANGED <<fault, crashed>>
     \/ /\ pos >= Len(DebugClients)
        /\ Undefined("index")
        /\ Crash
        /\ UNCHANGED closed
  /\ pos' = pos + 1
  /\ UNCHANGED <<mainOthers, listener, cnt, main, thrown, gone, registered, noCall>>

LeaveListener == UNCHANGED listener      \* a slip: the socket stays open
CloseListener == listener' = IF listener = "live" THEN "deleted" ELSE listener

DeleteListener ==
  /\ main = "shut" /\ pos >= cnt
  /\ \/ /\ listener = "live"
        /\ UNCHANGED <<fault, crashed>>
     \/ /\ listener = "wild"
        /\ Undefined("wild")
        /\ crashed' \in BOOLEAN
  /\ CloseListener /\ main' = "waiting"
  /\ UNCHANGED <<mainOthers, closed, cnt, pos, thrown, gone, registered, noCall>>

Waiting == Say("waiting", "join")

(* join() waits for startListen; with no thread behind it, it throws, which*)
(* in a destructor ends the program.                                       *)
Join ==
  /\ main = "join" /\ Run
  /\ \/ listening = "ended" /\ main' = "deleted" /\ UNCHANGED <<fault, crashed>>
     \/ listening = "none" /\ Undefined("join") /\ Crash /\ UNCHANGED main
  /\ UNCHANGED <<mainOthers, listener, closed, cnt, pos, thrown, gone, registered, noCall>>

Deleted == Say("deleted", "delete")

(* The memory is given back; after an exception main deletes again.        *)
Delete ==
  /\ main = "delete" /\ Run
  /\ gone' = TRUE
  /\ main' = IF thrown THEN "unregister" ELSE "stopped"
  /\ UNCHANGED <<mainOthers, listener, closed, cnt, pos, thrown, registered, noCall,
                 fault, crashed>>

-----------------------------------------------------------------------------
ListenStep ==
  NewAcceptor \/ Listen \/ CallAccept \/ (\E p \in Peers : Accept(p)) \/ Woken \/ Push

CallStep(t) ==
  UseGone(t) \/ Send(t) \/ EndWalk(t) \/ Erase(t) \/ EndErase(t) \/ Clear(t)

Teardown ==
  Sorry \/ Unregister \/ Destroy \/ Shut \/ DeleteListener \/ Waiting \/ Join
    \/ Deleted \/ Delete

Next ==
  /\ ~crashed
  /\ \/ \E p \in Peers : Connect(p) \/ Hangup(p)
     \/ ListenStep
     \/ AcceptFails
     \/ \E t \in Loggers : Cout(t)
     \/ \E t \in Threads : CallStep(t)
     \/ SequenceEnds
     \/ Throw
     \/ Teardown

Spec == Init /\ [][Next]_vars

(* Runnable threads run; nobody need connect, hang up, log or end the box. *)
FairSpec ==
  /\ Spec /\ WF_vars(~crashed /\ ListenStep)
  /\ \A t \in Threads : WF_vars(~crashed /\ CallStep(t))
  /\ WF_vars(~crashed /\ Teardown)

-----------------------------------------------------------------------------
(* Every variable has its type; DebugClients holds streams, no null.       *)
TypeInv ==
  /\ build \in Builds
  /\ listening \in {"none", "start", "listen", "call", "blocked", "push", "ended"}
  /\ hand \in Peers \cup {NoPeer}
  /\ listening = "push" => hand \in Peers
  /\ listener \in {"wild", "live", "deleted"}
  /\ DebugClients \in Seq(Peers)
  /\ listofDowns \in Seq(Nat)
  /\ conn \in [Peers -> {"none", "pending", "accepted"}]
  /\ up \in [Peers -> BOOLEAN]
  /\ closed \in [Peers -> BOOLEAN]
  /\ registered \in BOOLEAN
  /\ call \in [Threads -> {"out", "walk", "erase", "clear"}]
  /\ at \in [Threads -> Nat]
  /\ lines \in [Threads -> Nat]
  /\ main \in {"wait", "sorry", "what", "unregister", "destroy", "shut", "waiting",
               "join", "deleted", "delete", "stopped"}
  /\ cnt \in Nat /\ pos \in Nat /\ thrown \in BOOLEAN /\ gone \in BOOLEAN
  /\ fault \subseteq {"listener", "server", "stream", "sigpipe", "erase", "double",
                      "index", "wild", "join"}
  /\ crashed \in BOOLEAN
  /\ owed \in [Threads -> SUBSET Peers]
  /\ disturbed \in [Threads -> BOOLEAN]

Erasing == {t \in Threads : call[t] \in {"erase", "clear"}}
DropsUp == \E p \in ToSet(DebugClients) \ ToSet(DebugClients') : up[p] /\ ~closed[p]
ErasesPastEnd == "erase" \in fault' \ fault

(* updateClient drops a client that is up, or erases past the end of the   *)
(* vector, only when two clients were down in one walk or two threads drop *)
(* at once: with one down client and one logging thread it drops the right *)
(* one.                                                                    *)
WrongDropNeedsTwo ==
  [][DropsUp \/ ErasesPastEnd =>
       Len(listofDowns) > 1 \/ \E t, u \in Erasing : t # u]_vars

(* A walk no other thread has erased from has tried every client that was  *)
(* registered when the line was written, although the listening thread     *)
(* appends to the vector meanwhile.                                        *)
WalkIsComplete == \A t \in Erasing : ~disturbed[t] => owed[t] = {}

(* Tools may come and go while the server is deleted: as long as no thread *)
(* of the box outlives the sequence thread and main took no exception, no  *)
(* one uses the server or a stream after its deletion, and the destructor  *)
(* stays inside the vector.                                                *)
QuietTeardown ==
  fault \cap {"server", "stream", "index", "double"} # {} => build.late # {} \/ thrown

(* On Windows a destructor entered while the listening thread accepts comes*)
(* to an end: the join returns.                                            *)
DestructorReturns ==
  build.win /\ main = "shut" /\ listening \in {"call", "blocked", "push", "ended"}
    ~> main = "stopped" \/ crashed

(* "Client down" (DebugServer.cpp:105): what is dropped is a client that is*)
(* down.                                                                   *)
OnlyDownDropped == [][~DropsUp]_vars
=============================================================================

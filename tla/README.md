# TLA+ models of the Light Life control box

LightLifeBox is a small C++ program for a box with buttons and rotary knobs
("potis") that drives lamps over DMX, ZigBee Light Link (ZLL) and DALI. It runs
on Windows and, through Cygwin's API, on a Raspberry Pi. A C# test tool
(`ControlBoxTester`) plays the hardware in debug builds. The program has a thread
per input device, a sequence thread, a debug server thread, writer threads for
the serial and FTDI ports and a Ctrl-C handler, and not one lock on the C++ side.
These modules model what those threads do to each other.

## 1. Inventory

| Component | State | Operations | Talks to |
|---|---|---|---|
| `PILight` (00_LightLifeBox) | brightness, cct, fadetime, rgb, xy, `ComClients` | setters, ...UpDown, `resetDefault`, add/remove clients | calls every client in `ComClients`; called by device threads through `ControlBox::notify` |
| `Button`, `TastButton` | `isPressed`, `PortVal`, `done`, a thread, a `TestClient` | `startListen`, `ButtonDown/Up`, `OnChange`, `stop` | `notify` on the box, TCP to the test tool |
| `TestClient` (05_Test) | a TCP stream | `receive`, `getPortVal` | test tool |
| `ControlBoxTester` | `Buttons` list; per button `Value`, auto-reset event, `done` | form events, `SetButton/SetPoti`, sender loop, `Close` | one TCP connection per device |
| `ControlBox` | `isDone`, `Buttons`, `Potis`, `Lights` | `Init`, `EventLoop`, `stopEventLoop`, `notify`, destructor | all of the above |
| `main`, sequence thread | clients, box, log, debug server | start, wait, tear down | `ControlBox`, platform layer |
| Platform layer | `thisBox`, thread handle | Ctrl handler, thread start/wait | `stopEventLoop` |
| `DebugServer`, `tcp*` | `DebugClients`, `listofDowns`, listening thread | accept, `updateClient`, destructor | log lines to TCP clients |
| `Logger` | `logClients`, level, file | `cout`, `log`, add/remove clients | `DebugServer` |
| `Settings`, `splitstring` | the parsed XML, a current node | typed reads with defaults | everybody's constructor |
| `PILEDScene` | mode, values and times of a scene | `getData` from an entry of the settings | the clients' `updateData` |
| `IXMLParser` | pull parser: text, place; DOM parser: nodes, shared arrays, levels; editable nodes: reference counts, element arrays, order | `nextToken`, `genericParse`, searches, `getString`, `addChild` and the like | `Settings`, `PILEDScene` |
| `DMXClient`, `ZLLClient`, `DaliClient`, `IBaseClient` | buffers, frames, ports | setters, `updateData` | serial, FTDI, UDP |
| `serialib`, `ftdi` | buffer, count, `done`, a writer thread | open, write, close | the port |
| FTDI headers, form designer | | vendored or generated | |

What is hard, component by component, and what makes it correct:

* **PILight.** Several devices call setters at once. A setter stores the member,
  then walks the clients by index and re-reads the member for each. Correct
  means: values stay in the lamp's range, all clients end with what the light
  holds, every call returns.
* **Button and test tool.** A shared `Value` overwritten before it is sent, an
  auto-reset event that merges signals, TCP reads that merge or keep stale
  bytes, a blocking read under a stop request. Correct means: DOWN and UP
  alternate, no event without a gesture, a button at rest agrees with the hand,
  at most one event after stop, stop returns.
* **Life cycle.** Devices start before the box is complete and run while it is
  torn down; Ctrl handlers come at any time, several at once, on a thread of
  their own (Windows) or on the main thread (POSIX). Correct means: nothing is
  used after it is deleted, nothing is deleted while nobody asked to stop, no
  device is joined twice, a stop ends the program.
* **Debug server and logger.** A vector of streams that the listening thread
  appends to, every logging thread walks and erases from, and the destructor
  walks, with one shared list of indices to erase. Correct means: the line goes
  to every client, only clients that are down are dropped, nothing is used after
  the teardown, the destructor returns.
* **Ports.** A pointer and a count stored by one thread and loaded by another, a
  `done` flag both write, a device that may be pulled. Correct means: what goes
  out was given, buffer and count belong together, the last frame goes out, the
  thread ends before the port does.
* **DMX and ZLL clients.** Frames that several threads write byte by byte. Correct
  means: no byte outside a lamp's channels, frame and packet alike, both clients
  show the same light.
* **Settings and scenes.** Entries that are missing, empty or no number, on two
  platforms that convert differently; one scene object filled over and over.
  Correct means: a read gives what the file says, or the default.
* **IXMLParser.** A recursive descent whose levels share three arrays, a scanner that
  must end on any text, searches that go on from cursors, a writer that first
  counts and then writes, trees of counted nodes with four arrays that must
  agree. Correct means: the tree is what the text says, the text is what the tree
  says, no node goes while it is held, order and elements belong together.

## 2. Modules

| Module | Models | Reads |
|---|---|---|
| `PILight` | PILight.cpp and the clients as registers | Store / Load / Deliver per setter |
| `PILightProofs` | theorems about `PILight` | |
| `MCPILight` | an instance, and a statement of the settings file | |
| `Button` | Button.cpp, TastButton.cpp, IPClient.cpp, TCPServer.cs | one device, its line, its tool, its stopper |
| `ButtonProofs` | theorems about `Button` | |
| `MCButton` | three device/build configurations | |
| `ControlBox` | ControlBox.cpp, main.cpp, Ctrl handlers | the life cycle |
| `ControlBoxProofs` | theorems about `ControlBox` | |
| `MCControlBox` | settings and platforms | |
| `DebugServer` | DebugServer.cpp, tcpacceptor.cpp, tcpstream.cpp, Logger::cout, main's teardown and exception path | listening thread, logging threads, main |
| `DebugServerProofs` | theorems about `DebugServer` | |
| `MCDebugServer` | platforms, threads that log too late | |
| `PortWriter` | serialib.cpp, ftdi.cpp | a port's owner, its writer thread, the device |
| `PortWriterProofs` | theorems about `PortWriter` | |
| `MCPortWriter` | both classes on both platforms | |
| `Clients` | DMXClient.cpp, ZLLClient.cpp and .h, intToBytes | senders' stores into both clients |
| `ClientsProofs` | theorems about `Clients` | |
| `MCClients` | lamps' addresses, calls and scenes | |
| `PullParser` | IXMLPullParser | one token out of a text |
| `TreeBuilder` | what a reader of XML expects of a parser | tokens into a tree, without arrays |
| `DomParser` | IXMLDomParser::genericParseRecur; implements `TreeBuilder` | one token or one returning level per step |
| `DomParserProofs` | theorems about the XML modules: `DomParser` implements `TreeBuilder`, parsing ends, the writer's room, searches in order | |
| `XmlLookup` | navigation of ITCXMLNode, `genericParse` | searches in a parsed tree |
| `Settings` | Settings.cpp, helpers.cpp, the platforms' conversions | choice of file, parse, reads |
| `PILEDScene` | PILEDScene.cpp | `getData` |
| `Renderer` | ToIXMLStringTool, IXMLRenderer | length and text of a tree |
| `XmlRewrite` | a settings file with all that reads or writes it | the modules above, and a second parse of what was written |
| `MCSettings` | settings files put together from pieces | |
| `XmlNode` | class IXMLNode | a program's calls on its handles |
| `XmlNodeProofs` | theorems about `XmlNode` | |
| `MCXmlNode` | symmetry | |

### PILight

State: `light` is the object's members, `ComClients` the vector, `client[c][a]`
what client `c` was last told of attribute `a`. Each sender (a device thread) has
a program counter and the locals of its call. One step per access to shared
state: `Store` is the assignment, `Load` reads the size, the element and the
member, `Deliver` is the client's setter. `resetDefault` is two setters one after
the other. The UpDown calls check the range, read the member again and add (`Add`),
store the sum (`Change`) and read it once more for the inner setter (`Argument`);
`setRGBUpDown` hands the member array on, so a client reads it when it is told
(`ByReference`, `Taken`).
`AddComClient` and `RemoveComClients` are the sequence thread's calls and may come
at any time; `RemoveComClient` exists in the class and has no caller. `solo` and
`synced` are history variables for one property.

Abstractions: rgb and xy are one number each (all channels go through the same
code); a client keeps one register per attribute, so DMX's sharing of channel 1
between brightness and red is left to the frame modules; the vector's
reallocation is not modelled; nor is the comment in PILight.cpp:99, by which a
value above 255 is a colour temperature itself: `setCCT` ignores such values, and
so does `Store`. The model's integers do not wrap: an unsigned sum
below zero wraps to a number far above every limit, and the range checks refuse
it as they refuse the negative one here.

### Button

`pc` walks check, read, act, notify of `startListen`. `Decode` is `atoi` over what
one `recv` returned: a minus sign ends a number, digits run together. `cfg` picks
a plain button or a poti, a connection or none, and whether the receive buffer
keeps digits after a message (`receive` copies the bytes before it terminates
them). The tool's gesture writes `Value` (`Gesture`), then sets the event
(`Signal`); its thread wakes, which resets the event (`Wake`), encodes the `Value` of
that moment (`Load`) and writes the bytes (`Write`), while gestures go on. `told`, `single`, `presses`, `downs`, `late`, `lastEvent` are history.

Left out: numbers of ten digits and more (undefined overflow in `atoi`), several
devices with one name in the tool, `foreach` failing when a device is removed
while `Close` iterates, a recv that splits one message in two.

### ControlBox

The sequence thread goes through `Create`, one `InitButtons`/`InitPotis` step per
settings entry, `InitLights`, `Created`, `MakeClients`, `LeaveLoop`, `Unregister`,
`DeleteClients`, `DeleteBox`; main through `JoinSequence`, `CloseServer`, `JoinServer`,
`DeleteLog`, `Exit`. `server` is the debug server's thread, which main joins: it may
end at any time (it cannot listen, `accept` fails), must end only where closing its
socket wakes it (`CloseWakesServer`, Windows). A device thread logs that it starts,
checks `done`, reads, calls the observer, walks the light's clients, and logs that it
ends; only the objects it uses matter here. `Fire` is the Ctrl handler's entry
into `stopEventLoop`, `StopDevice`/`JoinDevice` are `Button::stop`. Use of a deleted
object, of `Lights[0]` in an empty vector and of an index past the end is recorded
in `fault`; an index past the end and a second join also end the program. A Ctrl
event before `setSequencePointer` is taken and forgotten, as in the code.

Left out: the five seconds after which Windows kills a process that handles a
close event, the keypress a debug build waits for at the end, the command line.
Main's exception path and the rest of the debug server's destructor are in
`DebugServer`. `DeleteClients` is taken to return too: that the
clients delete their ports, and wait for the ports' threads, is in `PortWriter`. Two
handlers inside `join` on the same thread at once are undefined; the model lets the
first to return win and the second abort.

`raced` remembers that no handler had come through `stopEventLoop` when the event loop
was left. It is taken from the handlers, not from the devices or the lists
`stopEventLoop` goes through: that a handler's return means that every device there is
has stopped is what `HandlerStopsAll` says, and `CleanIfStopFirst` rests on it, so that
a stop which forgets a device breaks both.

### DebugServer

The listening thread goes through `NewAcceptor`, `Listen`, `CallAccept`, `Accept` (or
`AcceptFails`, `Woken`) and `Push`. Any thread that logs goes through `EnterCall` (the
logger's own loop; the server is its only client), one `Send` per client, one `Erase`
per index in `listofDowns`, `Clear`. Main unregisters the server, walks the vector by
the size it read first (`Shut`), deletes the acceptor, joins the thread, deletes the
object; after an exception (`Throw`) it does the last steps a second time. `build`
says whether closing a socket wakes a pending `accept` (Windows) and which threads
still log when the sequence thread has ended. What is used after it is gone, a
wild pointer, an index past the end, SIGPIPE and a failing join are recorded in
`fault`, and the program may end there (`crashed`). `owed` and `disturbed` are
history.

Left out: two threads inside the same vector's `push_back`, a reallocation under a
walk, and what `receive` gives (nobody calls it).

### PortWriter

`owner` goes through the constructor, `write`'s two stores and status check, and the
destructor: `done`, wait, close, delete. ftdi's `doOpen` is one step per driver call and
per look at `ftStatus`: `Reset`, `Reopen`, `Opened` (test, `isConnected`, start of the
thread), `Return`, `StoreResult`. `writer` is the thread: it clears `done` itself, sets
up the line (ftdi), tests, loads the two arguments in either order, sends; ftdi's
thread stores the driver's `answer` in `ftStatus` in a step of its own (`StoreStatus`),
so an answer of the old handle can arrive after the device was opened again, and
between any two steps of `doOpen`. `build` is the class and the platform. A frame stands for its buffer and for
its count. `Unplug` and `Plug` are the device; a handle is good (`fresh`) until the
device it was opened on is pulled. Opening a device that is there may fail, as
it does while an older handle holds it, and may spoil the handle. `overlap` and `fault` are history.

Left out: ftdi's list of devices, other driver calls that fail although the device is
there, the six calls of `ftdiSomething` one by one (they are one call and one store),
the parameters of the line, the reading calls nobody makes.

### Clients

A call on the light reaches DMX first, then ZLL. It is turned into the sequence of
its stores (`todo`), and every store is a step: for each lamp and offset one turn of
`setDMXValue`'s loop, which stores into `buffer` and then, as a step of its own, into
`artNetData`, or into neither if the channel lies outside the universe (`SkipLamp`);
one per field of the ZLL data. `CallKinds` is every call the interface allows;
each instance says which of them a sender makes. `updateData` adds
`Encode` (the whole of `ToByteArray`), `Hand` (SendUDP, SendUSB) and, after a colour, the
brightness if the client does not hold it yet. The 30 bytes of the frame, the byte
order `intToBytes` produces and the checksum are computed as the code computes them.
`last`, `quiet`, `raced` are history.

Nothing calls `updateData` in the program: `PILight::updateClients` has its one line
commented out, so setters change frames that are never handed on. The model
covers the interface of the classes. The header of the Art-Net packet is all
zero in the model; chromaticities are in steps of 1/10000 instead of floats.

### PullParser, TreeBuilder, DomParser

A text is a sequence of characters. `nextToken` gives the parser after one token:
names, attributes, entities, numbers, line ends, comments, CDATA sections,
processing instructions and the doctype, with every error the code knows.
`findClearTagEnd` is modelled as it is: it stops at the first character of the
close tag, or never returns ("Endless"). A file that is cut off inside a tag is
read as the code reads it: the first read at its end finds nothing, every later
one (`readData`) ends the text at the parser's place, over the character that is
there, and a name, a value or a text ends where the text then does (`Between`).

`DomParser` takes a token per step. `stack` is the recursion of `genericParseRecur`:
a level has its first and last indices into `vChild`, `vText` and `vOrder`, which all
levels share. `ret` is what the level that ended last returned; with 1 the level
around it closes too (`Returned1`), with 3 all end. `Tree` reads the tree out of
nodes that are finished and array slices of those that are not; with it as the
refinement mapping `DomParser` implements `TreeBuilder`, which knows a tree of nodes
with contents and a list of open nodes, and nothing of arrays. Where the tokens
come from and how a text is trimmed are parameters of `TreeBuilder`. `TreeBuilt` states
that, for the first document and for the one parsed after it into the same arrays.

Left out: the refilling, moving and growing of the read buffer (IXMLParser.cpp:1666-1703),
as the whole text is there from the start, which it is for any file that fits the
buffer of 1 MB; the look-ahead behind a "&", which matters for a reference in the last
characters of a file only; encodings and byte order marks, HTML mode, parsing of one child at a
time, and options the program does not change (comments, processing instructions
and white texts are dropped, texts trimmed). Names are written as the program
writes them, although the code compares them without regard to case.

### XmlLookup, Settings, PILEDScene

`XmlLookup` has the searches by name, number, cursor, attribute and path; the empty
node is 0 and a missing value the empty set. `CursorsAgree` says what a search by name,
number or attribute must find, by the places of the children that fit; `PathsAgree` the
same of paths. `LookupsAgree` asks for both, in each tree once. `Settings` chooses the file
(`getInstance`), parses it (`Parsing`, `parseFile`) and answers reads; `result` is the
last answer. A read whose entry has no value makes a string of a null pointer
(`crashed`). `Answers` gives the set of possible answers: where the Linux build
reads an integer from an empty text the variable has no value (`Junk`).
`ParseEnds` says that each step of `Parsing` leaves less to do: `Work` weighs the
characters left, an element whose end tag is still to be made up, and the levels
of the recursion. The one step it exempts is the loop of `findClearTagEnd`, and the
first conjunct of `ReadsMatchText` says that it comes in no file but those written to
make it happen.
`PILEDScene` fills one object from the entries asked for, in any order.

Left out: `ReadLong`, `ReadUInt`, `ReadULong`, `ReadFloat`, `ReadDouble` and `ReadAttrib`, which go
the way of the others; numbers beyond an int; numbers with exponents and
hexadecimal ones; a file that cannot be opened although it exists.

### Renderer, XmlRewrite

`getString` writes a tree twice as the code does, `lengthR` for the first pass and
`getStringR` for the second, with indentation or without. `XmlRewrite` writes the
tree of the settings and parses the text again with the same DOM parser.
`RoundTrip` says that the first pass counts exactly the characters the second one
writes into the buffer (`RoomExact`), and that the tree comes back as it was.

### XmlNode

`heap` is the nodes with name flag, parent, count, three element arrays and `order`;
`d` what each of the program's handles points to. Every call is one step, but for
`addChild` of a nameless node, a loop that moves one child per step (`MoveNext`).
`addToOrder`, `removeOrderElement` (`Lowered`) and `findPosition` work on indices as the
code does; a search that runs past the end is `overrun`. `emptyTheNode` frees a node
nobody holds and goes on with its children (`Release`); called by
`deleteNodeContent` it frees the whole subtree whoever holds it (`Emptied`), because
`init` clears the count, and other handles of it are `lost`. `mixed` is history: nodes
where something was inserted in front of an element of another kind, after which
`addToOrder` may have numbered wrong.

Left out: attributes, the order of which nothing depends on, and calls on a node
below itself.

## 3. Runs

| Run | Shows | Bounds |
|---|---|---|
| `light` | types, ranges and agreement, for concurrent `notify` calls and for one caller of everything | 2 senders, 2 clients, 3 calls of which one caller makes any; symmetric |
| `light_reset` | **violated**: the configured default is not what `resetDefault` shows | 1 sender |
| `button` | all properties of a device, among them that the last gesture arrives | 5 gestures, 3 messages in flight, 3 configurations |
| `box_life` | all properties of the life cycle | 2 devices, 2 handlers (one ends the process), 7 configurations |
| `box_teardown` | **violated**: the teardown begins before the devices have stopped | 1 button, 1 handler |
| `debug_server` | walks, drops, teardown and end of the debug server | 2 tools, 2 logging threads with 2 lines and 1, main, 3 builds |
| `debug_drop` | **violated**: a client that is up is dropped | 3 tools, 1 logging thread |
| `port_writer` | all properties of a port and its thread, among them that a pulled device is noticed | 2 frames, 3 writes, 1 pull, 4 builds |
| `clients` | all properties of the DMX and ZLL clients | 2 senders, 3 calls, 8 channels; a third call that meets another is not followed |
| `xml_tree` | counts, order and places in editable trees | 4 nodes, 2 handles, 3 elements; symmetric |
| `settings` | tree, searches, reads, scenes, writing and the parser's end | 684 starts: files of two pieces out of 19 and of two scenes out of 9, with heads and tails, files cut off inside a tag in 17 ways, no file, an empty file, two files |
| `settings_comment` | **violated**: an entry in a comment is read | as `settings` |

Why the bounds are enough. Two senders make every overlap of two setters; a third
adds no new kind, as each property speaks of one sender against the others (the
proofs cover any number). Two clients tell "some were told" from "all were told".
Attributes share nothing but the client list, so two at a time show every
interaction. Five gestures allow press, release, press with one of them
overwritten and one sent twice; three messages in flight allow two merged with
one left over. Two handlers are what a second join needs. Two tools and two logging
threads make one index go stale under another thread; one thread alone needs
three tools to drop one that is up between two that are down. Two frames tell a
torn pair, three writes let the members change twice while the thread loads
them. Eight channels hold a lamp inside the universe and one cut off at the
end; a start address of 0 cuts one off at the start code. Two calls of `clients` meet
at every store; a third only begins when both have ended, which is what a property
about "the call before" needs, while three stores that race for one byte are the
case of two again.

In `light` two senders make the calls `notify` makes, and clients leave all together;
the rest of the interface (`ApiCalls`: both sides of each limit) is used by one caller
on one attribute at a time, because attributes meet in `resetDefault` only
(`NotifyOrAlone`). In `debug_server` one thread logs two lines and one a single line: a
thread's second line is what meets the indices that its first, or the other thread,
left in `listofDowns`.

Four nodes make a chain of three with a node beside it, so that a whole subtree is
freed under a node that stays, and a copy of two nodes fits; three elements of three
kinds are the least in which an insertion in front shifts places of the other two
kinds. A settings file is put together from pieces that each try one rule (quotes,
spaces, entities, references by number, comments, CDATA, unclosed and unopened
elements, errors); all pairs of pieces are tried on one platform, and each piece
alone, with each head and tail, on the other, since one piece acts on the next only
through what the parser's levels leave in the shared arrays, and that is reached
by pairs. The cuts stop a file in each of the parser's states: in a tag's name,
before and behind an attribute's equal sign, in a value, in an end tag, a comment, a
processing instruction, the doctype and a reference. Scenes are filled in any order of two entries and an entry that is
not there; reads and scenes do not touch each other's state, so that they are not
interleaved (`ScenesAlone`).

The type invariants of `Button` and `PortWriter` are proved (`TypeCorrect`) and not
among the runs' properties: no mistake in the code is one of types there.

The four violated runs are disagreements between the code and a comment or
setting of the repository; `PROJECT.json` quotes both under "findings".

Every property of a passing run has a slip: an operator (marked "a slip" in the
module, not used by the specification) that replaces one definition by a
plausible mistake and makes the property fail.

### Fairness

`Button`: the device thread, the joining thread and the tool's threads run when they can;
nobody has to gesture, close or stop. `ControlBox`: all threads run, except that a
read of a device listed in `silent` may block for ever, the debug server's thread need
not leave `accept` unless closing its socket wakes it (Windows), and Ctrl events need not
come. `StopEndsProgram` has two exceptions, both of the code: on POSIX a handler on the
main thread that waits for such a device, and main waiting in `delete dbgSrv` for such a
server thread. `DebugServer`: the listening thread, each thread in a call and main's teardown run
on; no tool need connect or hang up, no thread need log, `accept` need not fail and
the box need not end. `PortWriter`: a call or destructor in progress and the writer
thread run on; nobody need write, delete, pull or plug. These are the operating
system's ordinary guarantees for runnable threads. `PILight` and `Clients` have no
liveness property. The XML modules run on one thread; that the parser ends is the
action property `ParseEnds`, by which every step leaves less to do, and needs no
fairness: a natural number cannot fall for ever.

## 4. Proofs

TLAPS proves, for every value of the constants under the named assumptions
(`CallsAssumption`, `DefaultAssumption`, `EraseAssumption`, `NoValueAssumption`,
`ButtonAssumption`, `CfgAssumption`, `NamesAssumption`, `PortAssumption`, and of `XmlNode`
`NullAssumption`, `HandlesAssumption`: a program has finitely many variables, and
`BoundAssumption`; of `Settings` `MachinesAssumption`: a file is a finite sequence of
characters):

* **PILight**: `TypeCorrect`, `RangeSafe`, `Agreement`. `RangeSafe` assumes that no
  call is an UpDown call: two of them at once do leave the range, and no caller
  makes them. `Agreement` needs `SoloInv` (a setter alone on its attribute has told
  every client before its index exactly what it still hands on) and `SyncInv` (an
  attribute counted as synced has no setter in progress), because
  `QuiescentAgreement` alone says nothing of calls half way.
* **Button**: `TypeCorrect`, `LateEvents` (with: a device that has notified late is
  on its way to the loop's check), `EventsAlternate` (with: `isPressed` against the
  last event, for each program counter), `ButtonFollowsHand` (with: the
  newest of tool value, message in flight and port value is the last gesture),
  `LastGestureArrives` (with `ArrivesIInv`: unless a signal or a sender about to read is
  on its way, the newest of buffer, line and port value is the tool's Value) and
  `NoDownWithoutPress`. Its invariant `CountIInv` says that every message in flight
  can be given the number of a press so that these numbers never fall along the line
  from the device to the tool, and rise where a press follows something else.
* **ControlBox**: `TypeCorrect`, `Alive`, `CleanTeardown`, `SecondJoinNeedsTwo`,
  `StopIsComplete`, from one inductive invariant `IInv` in `ControlBoxProofs`:
  nothing is deleted before the late phases, which need `isDone` (`LifeInv`); the
  vectors are the first entries of the settings' lists (`BuildInv`), so no device is
  in them twice; no handler knows a box under construction (`EarlyInv`); only
  started devices run (`DevInv`); the devices before a handler's position have
  stopped (`HdlInv`); a device that cannot be joined was passed by some handler
  (`JoinInv`). For `CleanTeardown`, a handler that has come through `stopEventLoop` has
  passed all of `StopList`, every device that runs is in one of the vectors (`DevInv`),
  and no device starts again after the loop is left: `ReturnedStops` puts these
  together, for the devices and not for the list. `LifeInv` also shows that the destructor's own stop is never taken.
* **DebugServer**: `TypeCorrect`, `CompleteWalk`, `DropsNeedTwo`, `SafeTeardown`. The walk's
  proof needs that a client not yet tried stands at or after the walk's index as
  long as nobody else erases; the drops' proof that a lone index in `listofDowns`,
  with no second thread erasing, is that of a client found down or closed; the
  teardown's that the main thread's phases order unregistering, walking and
  deleting, and that a thread inside a call holds main in its wait.
* **Clients**: `TypeCorrect`, from which follows that the start code stays zero and
  the frame has 30 bytes; `Mirror` (with `MInv`: a channel in the port's buffer is what
  the packet holds or what the one sender half way through its two stores is about
  to store there); `Agreement` and `SceneShown`, both from `QInv`: while one call runs
  alone, each value it wants is there already or still among its stores, and none
  of the stores it has left says otherwise. That the checksum's loop stays within a byte
  is an induction over its turns (`ClientsProofs`, natural numbers as a set).
* **The XML modules** (`DomParserProofs`): four theorems, for any texts in the files.
  `BuildsTree`, the refinement `TreeBuilt` as a theorem, for any texts and any
  number of rewritings. The invariant `DInv` says that each level's slices of the three
  shared arrays lie behind those of the levels around it (`Apart`), that a slice's
  order names the slice's own children and texts and as many as it has (`Fit`), and that
  no two levels fill one node (`OwnNodes`). From it each step of the parser is shown
  to be `Begin`, `Token` or `Unwind` of `TreeBuilder`, or to leave its view as it is.
  `ReadingEnds` states the run's property `ParseEnds`. Each operator of `PullParser` is
  shown to come later in the text or to cut it shorter, never to go back (`Later`, for
  all of them together `nextTokenTaken`); a token takes at least one character, except
  the end tag of an element closed by its own tag, which the weight of `empty` pays
  for, and a step without a token ends a level (`ParserWorks`).
  `WriterMakesRoom` states `RoomExact`, the part of `RoundTrip` on which memory safety
  rests. Both passes walk the tree as functions of the node, so they agree by an
  induction from the last node to the first, if a node's children come behind it in
  `node` (`IsTree`) and its order names just the children and texts it has; while levels
  are open this holds of their array slices instead (`LevelsGathered`), and
  `genericParseFinds` shows that the root found in the result is a node of the tree.
  `SearchesInOrder` states `CursorsAgree`, the first half of `LookupsAgree`. What a cursor
  steps through is a set of places in a list, and a step goes to the least one behind it
  (`After`); a walk of k steps has k places up to where it stands, or has come to the
  last (`WalkCounts`). The search by number is such a walk over the children of a name
  (`getNthFinds`), the comparison with an attribute's values one over the attributes of a
  name (`HasAttributeFits`), and the search by an attribute takes the first fitting child
  of a walk, so that its replies are themselves a walk over those that fit
  (`getWithAttributeReplies`).
  `RInv` is the conjunction of what is invariant in all of these.
* **XmlNode**: `CountsRight`, `OrderRight`, `InsertsRight`, all three safety properties of
  the run `xml_tree`, for any nodes, handles and contents and for any bound on the
  elements. The inductive invariant is `IInv`:
  * `Sound`, of the heap: a node names as its parent exactly the node whose array holds
    it (`Links`), once (`Once`), which `detachFromParent` relies on; every set of nodes
    has one whose parent is outside (`NoCycle`), so a node moved or deleted is not
    its own ancestor; the count is the handles and the place below a parent (`Counted`);
    memory with count zero is blank (`FreedBut`), so a new node starts empty.
  * `OrderInv`: each node outside `mixed` is `WellOrdered`, and only a node in `mixed` or
    a lost handle leads to an overrun.
  * `MovingInv`, for the loop of `addChild` that moves a nameless node's children one by
    one: there is one left, and the target is not below the node they come from.

  `RefsCount` alone is not inductive: without `Links` a count could be right while the
  parent named is not, and the next detachment would take the element out of another
  node. The order rests on one lemma: an insertion (`AddedSlot`) and a removal
  (`LoweredSlot`) are the same relation `Slot` between the shorter and the longer order,
  read in the two directions; `SlotRanked` and `SlotUnranked` show that it keeps the
  numbering. `Release` and `Emptied` are reasoned about with the closure of a node: the
  least set that holds it and, with a node, its children (`ClosureIs`). For a call that
  assigns a handle, `AssignSound` is shown once, from a heap in which at most the new
  node's memory is in use uncounted (`Loose`), and each call shows that its heap is so.
  `InsertsRight` adds that the content read through the order (`Content`) changes by the
  one element (`ContentWith`), and that for a move within the parent to the end the
  position one less is behind the end as well (`WithOutside`).
* **PortWriter**: `TypeCorrect`, `SendsGiven`, `TornFrames`, `StrayThread`. The thread may send
  only when there is a count, and the pointer is stored first (`GivenInv`); except
  between the two stores the members belong together once there is a count, and what
  was loaded without an overlap is what they hold (`TornInv`), so it is the frame given
  last; without a limit to the wait, the thread
  has ended before the port is closed (`StrayInv`).

Only model-checked: the liveness properties (`StopReturnsUnlessOpen`, `PressNoticed`,
`StopEndsProgram`, both `DestructorReturns`, `LastFrameGoesOut`, `PullIsNoticed`) and everything with
`ENABLED`, which are outside what the prover can do; `RangeInv` with UpDown calls from one
caller; what the parser and the reads compute from a text, character by character:
`ReadsMatchText` (with it, in which files the parser does not return), the second half of
`LookupsAgree` (`PathsAgree`, the searches along paths), `SceneSaysEntry` and the second
half of `RoundTrip`, that a tree comes back from its text as it was. Inductions over
natural numbers are done with sets (a set with 0 that is closed under successor holds
every natural number), since the library's induction theorem takes an operator as a
parameter; recursive functions are within reach that way.

One refinement is both checked (`TreeBuilt`, run `settings`) and proved (`BuildsTree`):
`DomParser` implements `TreeBuilder`. The abstract module has a tree of nodes and a list
of open ones; the mapping reads each open node's content out of its level's slices of
the three shared arrays. It fails as soon as a level starts at the wrong place,
forgets to count, or closes one level too many or too few.

## 5. Not modelled

* `tcpconnector`, UDP sockets: system calls with an error code. `Button` starts from a
  connection that was made or was not; the sends over UDP are never reached, because
  `PILight::updateClients` does nothing.
* DALI client: all its setters are empty, it has no state.
* `Callback.h` is used nowhere. The FTDI headers are vendored declarations, the form
  designer's files are generated, documents and database scripts hold no code of
  the program.
* Logger levels and the log file; `PILEDScene::printData`; names, paths, clocks and
  command lines: formatting and I/O.
* IXMLParser: encodings, byte order marks and wide characters, base64, HTML mode,
  compile-time variants, attributes of editable nodes and the read-only twin
  `ICXMLNode`, whose functions repeat those of `ITCXMLNode`.
* Undefined behaviour whose outcome cannot be said (two `push_back` at once, a vector
  reallocated under a walk, `atoi` of ten digits): named above with each module.

## 6. Plan

Done: `PILight`, `Button`, `ControlBox`, `DebugServer` with `Logger`, `PortWriter`, `Clients`,
IXMLParser with `Settings` and `PILEDScene`.

1. `System`: Button events through `ControlBox::notify` into `PILight` (`BUTTON_CHANGE` is
   never sent, so a poti's position never reaches the light); `Clients` on `PortWriter`
   (the second ZLL frame overwrites the first before it is sent); the ports'
   destructors inside `DeleteClients`.
2. Abstract specifications: an observer that hears DOWN and UP in turn, refined by
   `Button`; a single-slot mailbox, refined by `PortWriter` when writes do not overlap
   the thread; a broadcast register, refined by `PILight` when setters do not overlap.
   The refinements as properties of the runs there are, then as theorems.

------------------------------ MODULE XmlRewrite ------------------------------
(***************************************************************************)
(* A settings file and all that is done with it: entries and scenes are    *)
(* read, and what IXMLRenderer writes for its tree is parsed again.  The   *)
(* program itself only reads; writing and reading back is what the library *)
(* offers beside it.                                                       *)
(***************************************************************************)
EXTENDS PILEDScene, Renderer

VARIABLES
  written  \* what was written and of which tree: [x, nodes, text, room : ...]

rewriteVars == <<domVars, settingsVars, sceneVars, written>>

NotWritten == [x |-> 0, nodes |-> <<>>, text |-> <<>>, room |-> 0]

WriteAndParse(formatted) ==
  /\ stage = "ready" /\ xMainNode # 0 /\ written = NotWritten
  /\ written' = [x |-> xMainNode, nodes |-> node,
                 text |-> getString(xMainNode, formatted),
                 room |-> bufferSize(xMainNode, formatted)]
  /\ Parse(written'.text \o <<NUL>>)
  /\ xMainNode' = 0 /\ stage' = "parsing" /\ xNode' = 0 /\ result' = NoAnswer
  /\ UNCHANGED <<platform, files, FileName, crashed, sceneVars>>

RewriteInit == Init /\ SceneInit /\ written = NotWritten

RewriteNext ==
  \/ Next /\ UNCHANGED <<sceneVars, written>>
  \/ \E j \in SceneNumbers : getData(Chars("s"), j) /\ UNCHANGED written
  \/ \E formatted \in BOOLEAN : WriteAndParse(formatted)

Spec == RewriteInit /\ [][RewriteNext]_rewriteVars

-----------------------------------------------------------------------------
(* Properties.                                                             *)

(* All the searches of XmlLookup come right; looked at once per tree,      *)
(* before anything is read or written.                                     *)
LookupsAgree ==
  stage = "ready" /\ result = NoAnswer /\ scene = StandardScene /\ written = NotWritten
    => CursorsAgree /\ PathsAgree

Shape(nodes, x) ==
  LET shape[i \in DOMAIN nodes] ==
        LET nd == nodes[i]
        IN  [name |-> nd.name, attrs |-> nd.attrs,
             content |-> [k \in DOMAIN nd.pOrder |->
               LET e == nd.pOrder[k]
               IN  IF e[1] = "text" THEN <<"text", nd.pText[e[2] + 1]>>
                   ELSE <<"child", shape[nd.pChild[e[2] + 1]]>>]]
  IN  shape[x]

(* Texts that touch become one when they are written, and an empty text    *)
(* none.                                                                   *)
TextsApart(nd) ==
  /\ \A k \in DOMAIN nd.pText : nd.pText[k] # <<>>
  /\ \A k \in DOMAIN nd.pOrder :
       k > 1 => ~(nd.pOrder[k][1] = "text" /\ nd.pOrder[k - 1][1] = "text")

(* The first pass of the writer counts exactly the characters the second   *)
(* one writes into the buffer of that size (getStringR).                   *)
RoomExact == Len(written.text) = written.room

(* A tree that is written and parsed again comes back as it was, escapes,  *)
(* indentation and shared arrays notwithstanding, and is written into      *)
(* exactly the room that was made for it (getStringR, ToIXMLStringTool,    *)
(* nextToken, genericParse).                                               *)
RoundTrip ==
  /\ RoomExact
  /\ written # NotWritten /\ stage = "ready"
       /\ (\A i \in DOMAIN written.nodes : TextsApart(written.nodes[i]))
         => xMainNode # 0 /\ Shape(node, xMainNode) = Shape(written.nodes, written.x)
=============================================================================

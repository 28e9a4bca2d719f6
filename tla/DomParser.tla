------------------------------ MODULE DomParser ------------------------------
(***************************************************************************)
(* IXMLDomParser: the recursive descent of genericParseRecur over the      *)
(* tokens of IXMLPullParser.                                               *)
(*                                                                         *)
(* All levels of the recursion share the arrays vChild, vText and vOrder.  *)
(* A level owns the elements from its first index to its last one; the     *)
(* level below starts where it stopped, and gives nothing back: what it    *)
(* wrote stays behind until it is overwritten.  A node gets its own arrays *)
(* when its level ends.                                                    *)
(*                                                                         *)
(* The program leaves removeClears, removeProcessingInstructions,          *)
(* skipIgnorableSpaces and both trims switched on.                         *)
(***************************************************************************)
EXTENDS PullParser

VARIABLES
  pp,         \* the pull parser
  node,       \* the nodes, in the order they were made; the first has no name
  stack,      \* the levels of the recursion, the innermost last
  vChild, vText, vOrder,
  ret,        \* what the level that ended last returned
  errorCode

domVars == <<pp, node, stack, vChild, vText, vOrder, ret, errorCode>>

NoName == <<>>

trimText(t) ==
  LET first == SelectInSeq(t, NotSpace)
      last == SelectLastInSeq(t, NotSpace)
  IN  IF first = 0 THEN <<>> ELSE SubSeq(t, first, last)

FreshNode(name, attrs, parent) ==
  [name |-> name, attrs |-> attrs, parent |-> parent,
   pChild |-> <<>>, pText |-> <<>>, pOrder |-> <<>>]

initNTD(t, parent) ==
  FreshNode(t.content,
            [k \in DOMAIN t.attrs |-> [t.attrs[k] EXCEPT !.value = trimText(@)]],
            parent)

Level(td, child, text, order) ==
  [td |-> td, iChild |-> child, iText |-> text, iOrder |-> order,
   lastChild |-> child, lastText |-> text, lastOrder |-> order]

Top == Last(stack)

(* Element i of a shared array, counted from zero.                         *)
Put(v, i, x) == IF i < Len(v) THEN [v EXCEPT ![i + 1] = x] ELSE Append(v, x)

Slice(v, first, last) == SubSeq(v, first + 1, last)

CREATE_NEW_NODE ==
  [node EXCEPT ![Top.td].pChild = Slice(vChild, Top.iChild, Top.lastChild),
               ![Top.td].pText = Slice(vText, Top.iText, Top.lastText),
               ![Top.td].pOrder = Slice(vOrder, Top.iOrder, Top.lastOrder)]

DomInit ==
  /\ pp = New(<<>>)
  /\ node = <<>>
  /\ stack = <<>>
  /\ vChild = <<>> /\ vText = <<>> /\ vOrder = <<>>
  /\ ret = 0
  /\ errorCode = "None"

(* A document is parsed: the nodes of the one before are gone, the shared  *)
(* arrays stay as they are.                                                *)
Parse(text) ==
  /\ stack = <<>>
  /\ pp' = New(text)
  /\ node' = <<FreshNode(NoName, <<>>, 0)>>
  /\ stack' = <<Level(1, 0, 0, 0)>>
  /\ ret' = 0
  /\ errorCode' = "None"
  /\ UNCHANGED <<vChild, vText, vOrder>>

-----------------------------------------------------------------------------
(* The tokens.                                                             *)

(* A slip: the level writes over the texts of the level around it.         *)
BelowOverTexts(level, td) == Level(td, level.lastChild, level.iText, level.lastOrder)

(* The level of an element starts behind what the levels around it own.    *)
Below(level, td) == Level(td, level.lastChild, level.lastText, level.lastOrder)

OnStartTag(t) ==
  /\ t.tok = "StartTag"
  /\ LET new == Len(node) + 1
         level == [Top EXCEPT !.lastChild = @ + 1, !.lastOrder = @ + 1]
     IN  /\ vOrder' = Put(vOrder, Top.lastOrder, <<"child", Top.lastChild - Top.iChild>>)
         /\ vChild' = Put(vChild, Top.lastChild, new)
         /\ node' = Append(node, initNTD(t, Top.td))
         /\ stack' = Append(Front(stack), level) \o <<Below(level, new)>>
  /\ UNCHANGED <<vText, ret, errorCode>>

OnText(t) ==
  /\ t.tok = "Text" /\ ~t.white
  /\ vOrder' = Put(vOrder, Top.lastOrder, <<"text", Top.lastText - Top.iText>>)
  /\ vText' = Put(vText, Top.lastText, trimText(t.content))
  /\ stack' = Append(Front(stack), [Top EXCEPT !.lastText = @ + 1, !.lastOrder = @ + 1])
  /\ UNCHANGED <<node, vChild, ret, errorCode>>

OnIgnored(t) ==
  /\ \/ t.tok = "Text" /\ t.white
     \/ t.tok \in {"Clear", "ProcessingInstruction", "Endless"}
  /\ UNCHANGED <<node, stack, vChild, vText, vOrder, ret, errorCode>>

Worse(e) == IF errorCode = "None" THEN e ELSE errorCode

(* forceCloseTag: the level ends, with 1 if the name that closes it is not *)
(* its own.                                                                *)
ForceCloseTag(name) ==
  LET other == node[Top.td].name = NoName \/ node[Top.td].name # name
  IN  /\ node' = CREATE_NEW_NODE
      /\ stack' = Front(stack)
      /\ ret' = IF other THEN 1 ELSE 0
      /\ errorCode' = IF other THEN Worse("MissingEndTag") ELSE errorCode
      /\ UNCHANGED <<vChild, vText, vOrder>>

OnEndTag(t) == t.tok = "EndTag" /\ ForceCloseTag(t.content)

OnEndDocument(t) ==
  LET named == node[Top.td].name # NoName
  IN  /\ t.tok = "EndDocument"
      /\ node' = CREATE_NEW_NODE
      /\ stack' = Front(stack)
      /\ ret' = IF named THEN 1 ELSE 0
      /\ errorCode' = IF named THEN Worse("MissingEndTag") ELSE errorCode
      /\ UNCHANGED <<vChild, vText, vOrder>>

(* Every level returns 3 at once and leaves its node without arrays.       *)
OnError(t) ==
  /\ t.tok = "Error"
  /\ errorCode' = "Syntax"
  /\ ret' = 3
  /\ stack' = <<>>
  /\ UNCHANGED <<node, vChild, vText, vOrder>>

(* A token that is endless is never returned: nothing follows.             *)
NextToken ==
  /\ stack # <<>> /\ ret = 0
  /\ \E t \in {nextToken(pp)} :
         /\ pp' = t
         /\ \/ OnStartTag(t) \/ OnText(t) \/ OnIgnored(t)
            \/ OnEndTag(t) \/ OnEndDocument(t) \/ OnError(t)

(* The level below returned 1.                                             *)
Returned1 == stack # <<>> /\ ret = 1 /\ ForceCloseTag(pp.content) /\ UNCHANGED pp

DomNext == NextToken \/ Returned1

-----------------------------------------------------------------------------
(* What genericParse2 returns: a node.                                     *)

Parsed == stack = <<>>

nElement(nd) == Len(nd.attrs) + Len(nd.pChild) + Len(nd.pText)

genericParse2 ==
  IF Len(node[1].pChild) = 1 /\ nElement(node[1]) = 1 THEN node[1].pChild[1] ELSE 1

ParseError ==
  IF pp.tok = "Error" THEN "Syntax"
  ELSE IF node[1].pChild = <<>> /\ errorCode = "None" THEN "NoXMLTagFound"
  ELSE errorCode

-----------------------------------------------------------------------------
(* The tree that has been built so far, and the abstract parser.           *)

Items(order, child, text) ==
  [k \in 1..Len(order) |->
     IF order[k][1] = "child"
       THEN [type |-> "child", of |-> child[order[k][2] + 1]]
     ELSE [type |-> "text", of |-> text[order[k][2] + 1]]]

LevelItems(l) ==
  Items(Slice(vOrder, l.iOrder, l.lastOrder),
        Slice(vChild, l.iChild, l.lastChild),
        Slice(vText, l.iText, l.lastText))

LevelsOf(i) == {k \in DOMAIN stack : stack[k].td = i}

Content(i) ==
  IF LevelsOf(i) = {} THEN Items(node[i].pOrder, node[i].pChild, node[i].pText)
  ELSE LevelItems(stack[CHOOSE k \in LevelsOf(i) : TRUE])

Tree ==
  [i \in DOMAIN node |->
     [name |-> node[i].name, attrs |-> node[i].attrs, parent |-> node[i].parent,
      content |-> Content(i)]]

Abstract == INSTANCE TreeBuilder WITH
  Trim <- trimText,
  tree <- Tree,
  open <- [k \in DOMAIN stack |-> stack[k].td],
  closing <- (ret = 1)
=============================================================================

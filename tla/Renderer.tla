------------------------------- MODULE Renderer -------------------------------
(***************************************************************************)
(* IXMLRenderer::getString: the text of a node.  getStringR goes through   *)
(* the tree twice, first to count the characters, then to write them into  *)
(* a buffer of that size.  nFormat is -1 for one line, the depth for       *)
(* indented lines, and -2 inside an indented node with a single text.      *)
(***************************************************************************)
EXTENDS DomParser

Quote == "\""

Amp == [c |-> "&", s |-> <<"&", "a", "m", "p", ";">>]
InAttribute == {Amp, [c |-> Quote, s |-> <<"&", "q", "u", "o", "t", ";">>],
                [c |-> "'", s |-> <<"&", "a", "p", "o", "s", ";">>]}
InText == {Amp, [c |-> "<", s |-> <<"&", "l", "t", ";">>]}

Escape(entities, c) ==
  LET E == {e \in entities : e.c = c}
  IN  IF E = {} THEN <<c>> ELSE (CHOOSE e \in E : TRUE).s

toXML(entities, text) == FlattenSeq([k \in DOMAIN text |-> Escape(entities, text[k])])

(* The sum of a sequence of numbers.                                       *)
Total(s) ==
  LET sum[k \in 0..Len(s)] == IF k = 0 THEN 0 ELSE sum[k - 1] + s[k]
  IN  sum[Len(s)]

lengthXMLString(entities, text) ==
  Total([k \in DOMAIN text |-> Len(Escape(entities, text[k]))])

Tabs(n) == [k \in 1..n |-> "\t"]
NewLineIf(b) == IF b THEN <<"\n">> ELSE <<>>

AtLeast0(n) == IF n < 0 THEN 0 ELSE n

Named(nd) == nd.name # NoName

(* The format inside a node: a single text stays on the node's line.       *)
Inner(nd, nFormat) ==
  IF nFormat >= 0 /\ Len(nd.pOrder) = 1 /\ Len(nd.pText) = 1 THEN -2 ELSE nFormat

ChildFormat(nd, f) ==
  IF f = -1 THEN -1 ELSE IF Named(nd) THEN f + 1 ELSE f

AttributeText(a) ==
  <<" ">> \o a.name \o <<"=", Quote>> \o toXML(InAttribute, a.value) \o <<Quote>>

-----------------------------------------------------------------------------
(* The first pass: how many characters.                                    *)

StartLength(nd, nFormat) ==
  IF ~Named(nd) THEN 0
  ELSE LET f == Inner(nd, nFormat)
           tag == Len(nd.name) + 2 + AtLeast0(nFormat)
           attr(a) == Len(a.name) + lengthXMLString(InAttribute, a.value) + 4
       IN  tag + Total([k \in DOMAIN nd.attrs |-> attr(nd.attrs[k])])
             + (IF nd.pOrder = <<>> THEN -1 ELSE IF f >= 0 THEN 1 ELSE 0)

(* A slip: the newline behind an indented text is not counted.             *)
TextLengthNoNewLine(text, f) ==
  LET cb == lengthXMLString(InText, text)
  IN  IF cb > 0 /\ f >= 0 THEN cb + f + 1 ELSE cb

TextLength(text, f) ==
  LET cb == lengthXMLString(InText, text)
  IN  IF cb > 0 /\ f >= 0 THEN cb + f + 2 ELSE cb

EndLength(nd, f) ==
  CASE ~Named(nd) -> 0
    [] Named(nd) /\ nd.pOrder = <<>> -> IF f = -1 THEN 2 ELSE 3
    [] OTHER -> Len(nd.name) + (IF f >= 0 THEN 4 + f ELSE IF f = -1 THEN 3 ELSE 4)

(* A node's length, when below has the lengths of its children.            *)
LengthOf(below, nd, nFormat) ==
  LET f == Inner(nd, nFormat)
      part(e) ==
        IF e[1] = "text" THEN TextLength(nd.pText[e[2] + 1], f)
        ELSE below[nd.pChild[e[2] + 1]][ChildFormat(nd, f)]
  IN  StartLength(nd, nFormat)
        + Total([k \in DOMAIN nd.pOrder |-> part(nd.pOrder[k])]) + EndLength(nd, f)

lengthR[i \in DOMAIN node] == [nFormat \in Int |-> LengthOf(lengthR, node[i], nFormat)]

-----------------------------------------------------------------------------
(* The second pass: the characters.                                        *)

StartText(nd, nFormat) ==
  IF ~Named(nd) THEN <<>>
  ELSE LET f == Inner(nd, nFormat)
       IN  Tabs(AtLeast0(nFormat)) \o <<"<">> \o nd.name
             \o FlattenSeq([k \in DOMAIN nd.attrs |-> AttributeText(nd.attrs[k])])
             \o (IF nd.pOrder = <<>> THEN <<>> ELSE <<">">> \o NewLineIf(f >= 0))

TextText(text, f) ==
  LET t == toXML(InText, text)
  IN  IF t # <<>> /\ f >= 0 THEN Tabs(f + 1) \o t \o <<"\n">> ELSE t

EndText(nd, f) ==
  CASE ~Named(nd) -> <<>>
    [] Named(nd) /\ nd.pOrder = <<>> -> <<"/", ">">> \o NewLineIf(f # -1)
    [] OTHER -> Tabs(AtLeast0(f)) \o <<"<", "/">> \o nd.name \o <<">">> \o NewLineIf(f # -1)

(* A node's text, when below has the texts of its children.                *)
StringOf(below, nd, nFormat) ==
  LET f == Inner(nd, nFormat)
      part(e) ==
        IF e[1] = "text" THEN TextText(nd.pText[e[2] + 1], f)
        ELSE below[nd.pChild[e[2] + 1]][ChildFormat(nd, f)]
  IN  StartText(nd, nFormat)
        \o FlattenSeq([k \in DOMAIN nd.pOrder |-> part(nd.pOrder[k])]) \o EndText(nd, f)

getStringR[i \in DOMAIN node] == [nFormat \in Int |-> StringOf(getStringR, node[i], nFormat)]

(* What getString returns and how much room it made for it.                *)
Format(formatted) == IF formatted THEN 0 ELSE -1
getString(x, formatted) == getStringR[x][Format(formatted)]
bufferSize(x, formatted) == lengthR[x][Format(formatted)]
=============================================================================

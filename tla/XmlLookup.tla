------------------------------ MODULE XmlLookup ------------------------------
(***************************************************************************)
(* How a program finds its way in a parsed tree (class ITCXMLNode): by     *)
(* name, by number, with a cursor that goes on where the last search       *)
(* stopped, by an attribute, and by a path such as "a/b[2]/c".             *)
(*                                                                         *)
(* Node 0 is the empty node, which every search leaves empty.  A value     *)
(* that may be missing is a set with at most one element.                  *)
(***************************************************************************)
EXTENDS DomParser

NoNode == 0

Digits == Chars("0123456789")

Value(c) == SelectInSeq(Digits, LAMBDA g : g = c) - 1

Leading(text) ==
  LET k == SelectInSeq(text, LAMBDA c : c \notin ToSet(Digits))
  IN  IF k = 0 THEN text ELSE SubSeq(text, 1, k - 1)

(* xmltoi(text, 0), for a text without a sign.                             *)
xmltoi(text) == FoldLeft(LAMBDA m, c : 10 * m + Value(c), 0, Leading(text))

-----------------------------------------------------------------------------
(* Children.                                                               *)

NameOf(i, k) == node[node[i].pChild[k]].name

Found(i, k, j) == [x |-> node[i].pChild[k], j |-> j]

(* A slip: the cursor stays at the child that was found.                   *)
getNextStays(i, name, j) ==
  IF i = NoNode THEN [x |-> NoNode, j |-> j]
  ELSE LET k == SelectInSubSeq(node[i].pChild, j + 1, Len(node[i].pChild),
                               LAMBDA c : node[c].name = name)
       IN  IF k = 0 THEN [x |-> NoNode, j |-> j] ELSE Found(i, k, k - 1)

(* getChildNode(name, &j): the next child of that name from j on; j moves  *)
(* behind it, and stays if there is none.                                  *)
getNext(i, name, j) ==
  IF i = NoNode THEN [x |-> NoNode, j |-> j]
  ELSE LET k == SelectInSubSeq(node[i].pChild, j + 1, Len(node[i].pChild),
                               LAMBDA c : node[c].name = name)
       IN  IF k = 0 THEN [x |-> NoNode, j |-> j] ELSE Found(i, k, k)

getChildNode(i, name) == getNext(i, name, 0).x

(* getChildNode(name, j): j searches, then one more; -1 asks for the last. *)
getNthChildNode(i, name, j) ==
  LET cursor[n \in 0..(j + 1)] ==
        IF n = 0 THEN [x |-> NoNode, j |-> 0] ELSE getNext(i, name, cursor[n - 1].j)
      k == IF i = NoNode THEN 0
           ELSE SelectLastInSeq(node[i].pChild, LAMBDA c : node[c].name = name)
  IN  IF j >= 0 THEN cursor[j + 1].x
      ELSE IF k = 0 THEN NoNode ELSE node[i].pChild[k]

(* getChildNode(j), whatever its name.                                     *)
getChild(i, j) ==
  IF i = NoNode \/ j >= Len(node[i].pChild) THEN NoNode ELSE node[i].pChild[j + 1]

nChildNode(i, name) ==
  IF i = NoNode THEN 0
  ELSE Cardinality({k \in DOMAIN node[i].pChild : NameOf(i, k) = name})

-----------------------------------------------------------------------------
(* Attributes and texts.                                                   *)

Attributes(i) == IF i = NoNode THEN <<>> ELSE node[i].attrs

(* getAttribute(name, &j): the value of the next one of that name.         *)
getNextAttribute(i, name, j) ==
  LET k == SelectInSubSeq(Attributes(i), j + 1, Len(Attributes(i)),
                          LAMBDA a : a.name = name)
  IN  IF k = 0 THEN [value |-> {}, j |-> j]
      ELSE [value |-> {Attributes(i)[k].value}, j |-> k]

getAttribute(i, name) == getNextAttribute(i, name, 0).value

isAttributeSet(i, name) == \E k \in DOMAIN Attributes(i) : Attributes(i)[k].name = name

getText(i) == IF i = NoNode \/ node[i].pText = <<>> THEN {} ELSE {node[i].pText[1]}

(* Some attribute of that name has the value; no value asks for none.      *)
HasAttribute(x, name, value) ==
  IF value = {} THEN isAttributeSet(x, name)
  ELSE LET cursor[n \in 0..Len(Attributes(x))] ==
             IF n = 0 THEN [value |-> {}, j |-> 0]
             ELSE getNextAttribute(x, name, cursor[n - 1].j)
       IN  \E n \in 1..Len(Attributes(x)) : cursor[n].value = value

(* getChildNodeWithAttribute(name, attribute, value, &j): j moves behind a *)
(* child that is found, and stays if none is.                              *)
getChildNodeWithAttribute(i, name, attribute, value, j) ==
  LET n == nChildNode(i, name)
      tried[k \in 0..(n + 1)] ==
        IF k = 0 THEN getNext(i, name, j) ELSE getNext(i, name, tried[k - 1].j)
      fits(k) == tried[k].x # NoNode /\ HasAttribute(tried[k].x, attribute, value)
      all == {k \in 0..n : fits(k)}
  IN  IF all = {} THEN [x |-> NoNode, j |-> j]
      ELSE tried[CHOOSE k \in all : \A l \in all : k <= l]

-----------------------------------------------------------------------------
(* Paths.                                                                  *)

(* The parts between separators; one separator in front is skipped.        *)
Parts(path, sep) ==
  LET p == IF path # <<>> /\ Head(path) = sep THEN Tail(path) ELSE path
      Char(parts, c) ==
        IF c = sep THEN Append(parts, <<>>)
        ELSE [parts EXCEPT ![Len(parts)] = Append(@, c)]
  IN  FoldLeft(Char, << <<>> >>, p)

(* GET_NEXT_CHILD_NODE_XN: "b", "b[2]" or "[2]".                           *)
Step(i, part) ==
  LET k == SelectLastInSeq(part, LAMBDA c : c = "[")
      number == xmltoi(SubSeq(part, k + 1, Len(part)))
  IN  IF k = 0 THEN getChildNode(i, part)
      ELSE IF k = 1 THEN getChild(i, number)
      ELSE getNthChildNode(i, SubSeq(part, 1, k - 1), number)

(* A step to nowhere ends the walk; the empty node has no children either. *)
Walk(i, parts) == FoldLeft(Step, i, parts)

getChildNodeByPath(i, path) ==
  IF path = <<>> THEN NoNode ELSE Walk(i, Parts(path, "/"))

(* The text of the node, or else the attribute the last part names.        *)
getElementByPath(i, path) ==
  LET parts == Parts(path, "/")
      base == Walk(i, Front(parts))
      text == getText(Step(base, Last(parts)))
  IN  IF base = NoNode THEN {}
      ELSE IF text # {} THEN text
      ELSE getAttribute(base, Last(parts))

-----------------------------------------------------------------------------
(* genericParse(tag): the node of that name at the top, or empty.          *)
genericParse(tag) ==
  LET x == genericParse2
  IN  IF ParseError \notin {"None", "MissingEndTag"} THEN NoNode
      ELSE IF node[x].name = tag THEN x
      ELSE getChildNode(x, tag)

-----------------------------------------------------------------------------
(* Properties.                                                             *)

(* Where the children of i named name stand, and the one of the children   *)
(* that stand at S with j of them in front of it.                          *)
NamedAt(i, name) ==
  IF i = NoNode THEN {} ELSE {k \in DOMAIN node[i].pChild : NameOf(i, k) = name}

NthOf(i, S, j) ==
  LET K == {k \in S : Cardinality({l \in S : l < k}) = j}
  IN  IF K = {} THEN NoNode ELSE node[i].pChild[CHOOSE k \in K : TRUE]

NamedChild(i, name, j) == NthOf(i, NamedAt(i, name), j)

Counted(name, n) == name \o <<"[">> \o Chars(ToString(n)) \o <<"]">>

CursorsVisitAll(i, name) ==
  LET n == Cardinality(NamedAt(i, name))
  IN  /\ \A j \in 0..(n + 1) : getNthChildNode(i, name, j) = NamedChild(i, name, j)
      /\ getNthChildNode(i, name, -1) = NamedChild(i, name, n - 1)

AttributesSelect(i, name, attribute, value) ==
  LET some(a) == a.name = attribute /\ (value = {} \/ a.value \in value)
      S == {k \in NamedAt(i, name) :
              \E l \in DOMAIN node[node[i].pChild[k]].attrs : some(node[node[i].pChild[k]].attrs[l])}
      at[n \in 0..(Cardinality(S) + 1)] ==
        IF n = 0 THEN [x |-> NoNode, j |-> 0]
        ELSE getChildNodeWithAttribute(i, name, attribute, value, at[n - 1].j)
  IN  \A n \in 0..Cardinality(S) : at[n + 1].x = NthOf(i, S, n)

PathsLead(i, a, b) ==
  \A m, n \in 0..1 :
    LET x == NamedChild(i, a, m)
        y == NamedChild(x, b, n)
        path == Counted(a, m) \o <<"/">> \o Counted(b, n)
    IN  /\ getChildNodeByPath(i, path) = y
        /\ getChildNodeByPath(i, <<"/">> \o a \o <<"/">> \o b) = NamedChild(NamedChild(i, a, 0), b, 0)
        /\ getChildNodeByPath(i, a \o <<"/">> \o Counted(<<>>, n)) = getChild(NamedChild(i, a, 0), n)
        /\ getElementByPath(i, path) = getText(y)
        /\ getElementByPath(i, Counted(a, m) \o <<"/">> \o b) =
             LET z == NamedChild(x, b, 0)
             IN  IF getText(z) # {} THEN getText(z) ELSE getAttribute(x, b)

Names == {node[k].name : k \in DOMAIN node} \ {NoName}

NamesBelow(i, a) ==
  {a} \cup UNION {{NameOf(c, k) : k \in DOMAIN node[c].pChild} :
                   c \in {node[i].pChild[k] : k \in NamedAt(i, a)}}

(* Cursors, counting and the choice by an attribute find what a reader of  *)
(* the file would point at: each child that fits, once, in the order of    *)
(* the file, and then nothing more; counted from zero or from the end      *)
(* (getChildNode, getChildNodeWithAttribute).                              *)
CursorsAgree ==
  \A i \in {NoNode} \cup DOMAIN node, a \in Names :
    /\ CursorsVisitAll(i, a)
    /\ \A given \in UNION {ToSet(node[k].attrs) : k \in DOMAIN node} :
         /\ AttributesSelect(i, a, given.name, {})
         /\ AttributesSelect(i, a, given.name, {given.value})

(* A path leads where its steps lead one by one, and to the text or the    *)
(* attribute there (getChildNodeByPath, getElementByPath).                 *)
PathsAgree ==
  \A i \in {NoNode} \cup DOMAIN node, a \in Names :
    nChildNode(i, a) > 0 => \A b \in NamesBelow(i, a) : PathsLead(i, a, b)
=============================================================================

----------------------------- MODULE TreeBuilder -----------------------------
(***************************************************************************)
(* What parsing a document promises, token by token: each node holds its   *)
(* children and texts in the order of the document; an end tag closes the  *)
(* innermost open node and, if that node has another name, the nodes       *)
(* around it up to one that has this name.  An error leaves the nodes that *)
(* are still open without content.  What the tokens of a text are is a     *)
(* parameter.                                                              *)
(***************************************************************************)
EXTENDS Integers, Sequences, SequencesExt

CONSTANTS
  New(_),        \* a parser of tokens at the start of a text
  nextToken(_),  \* it after its next token
  Trim(_)        \* a text without the white space around it

VARIABLES
  pp,       \* the parser of tokens
  tree,     \* the nodes by number; the first has no name
  open,     \* the open nodes, the innermost last
  closing   \* an end tag that did not match closes the innermost node, too

vars == <<pp, tree, open, closing>>

NoName == <<>>

Trimmed(attrs) == [k \in DOMAIN attrs |-> [attrs[k] EXCEPT !.value = Trim(@)]]

Element(t, parent) ==
  [name |-> t.content, attrs |-> Trimmed(t.attrs), parent |-> parent, content |-> <<>>]

Child(i) == [type |-> "child", of |-> i]
TextItem(t) == [type |-> "text", of |-> t]

Init == pp = New(<<>>) /\ tree = <<>> /\ open = <<>> /\ closing = FALSE

(* Another document is read with this parser.                              *)
Begin ==
  /\ open = <<>>
  /\ pp' = New(pp'.text)
  /\ tree' = <<[name |-> NoName, attrs |-> <<>>, parent |-> 0, content |-> <<>>]>>
  /\ open' = <<1>>
  /\ closing' = FALSE

Top == Last(open)

Add(item) == [tree EXCEPT ![Top].content = Append(@, item)]

Start(t) ==
  /\ t.tok = "StartTag"
  /\ tree' = Append(Add(Child(Len(tree) + 1)), Element(t, Top))
  /\ open' = Append(open, Len(tree) + 1)
  /\ UNCHANGED closing

Write(t) ==
  /\ t.tok = "Text"
  /\ tree' = IF t.white THEN tree ELSE Add(TextItem(Trim(t.content)))
  /\ UNCHANGED <<open, closing>>

Skip(t) ==
  /\ t.tok \in {"Clear", "ProcessingInstruction", "Endless"}
  /\ UNCHANGED <<tree, open, closing>>

(* The innermost node is closed, in the name of t.                         *)
Close(t) ==
  /\ open' = Front(open)
  /\ closing' = (tree[Top].name = NoName \/ tree[Top].name # t.content)
  /\ UNCHANGED tree

End(t) == t.tok = "EndTag" /\ Close(t)

EndDocument(t) ==
  /\ t.tok = "EndDocument"
  /\ open' = Front(open)
  /\ closing' = (tree[Top].name # NoName)
  /\ UNCHANGED tree

Fail(t) ==
  /\ t.tok = "Error"
  /\ tree' = [i \in DOMAIN tree |->
                IF i \in ToSet(open) THEN [tree[i] EXCEPT !.content = <<>>] ELSE tree[i]]
  /\ open' = <<>>
  /\ UNCHANGED closing

Token ==
  /\ open # <<>> /\ ~closing
  /\ \E t \in {nextToken(pp)} :
         /\ pp' = t
         /\ \/ Start(t) \/ Write(t) \/ Skip(t)
            \/ End(t) \/ EndDocument(t) \/ Fail(t)

Unwind == open # <<>> /\ closing /\ Close(pp) /\ UNCHANGED pp

Next == Begin \/ Token \/ Unwind

Spec == Init /\ [][Next]_vars
=============================================================================

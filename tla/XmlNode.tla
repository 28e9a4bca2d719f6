------------------------------- MODULE XmlNode -------------------------------
(***************************************************************************)
(* The modifiable XML tree of IXMLParser (class IXMLNode): nodes counted   *)
(* by reference, and in each node three arrays (children, texts, clear     *)
(* tags) with a fourth, pOrder, that says in which order their elements    *)
(* stand in the document.                                                  *)
(*                                                                         *)
(* A handle is an IXMLNode variable of the program.  Nodes with a count of *)
(* zero are free memory.  An element of pOrder is (index << 2) + type in   *)
(* the code and <<type, index>> here; indices and positions count from     *)
(* zero, as in the code.                                                   *)
(***************************************************************************)
EXTENDS Integers, Sequences, SequencesExt, FiniteSets, Functions

CONSTANTS
  Ids,      \* memory for nodes
  Handles,  \* the program's IXMLNode variables
  Null,     \* the null pointer
  Values,   \* contents of texts and clear tags
  MaxElems  \* bound: elements of all nodes together

ASSUME NullAssumption == Null \notin Ids
ASSUME HandlesAssumption == IsFiniteSet(Handles)
ASSUME BoundAssumption == MaxElems \in Nat

Types == {"child", "text", "clear"}

VARIABLES
  heap,     \* the nodes
  d,        \* what each handle points to
  moving,   \* the loop that moves a nameless node's children, if it runs
  lost,     \* handles whose node another handle has deleted
  mixed,    \* nodes with an insertion where an element of another type stood
  overrun   \* the code went past the end of pOrder or into freed memory

vars == <<heap, d, moving, lost, mixed, overrun>>

-----------------------------------------------------------------------------
(* pOrder.                                                                 *)

FreeNode == [named |-> FALSE, parent |-> Null, ref |-> 0,
             elem |-> [t \in Types |-> <<>>], order |-> <<>>]

Size(nd) == Len(nd.elem["child"]) + Len(nd.elem["text"]) + Len(nd.elem["clear"])

Entry(t, i) == <<t, i>>
TypeOf(e) == e[1]
IndexOf(e) == e[2]

(* An element of nd of type t and index i has a place in pOrder.           *)
Found(nd, t, i) == \E k \in 1..Len(nd.order) : nd.order[k] = Entry(t, i)

(* The first such place, counted from zero.                                *)
findPosition(nd, t, i) ==
  (CHOOSE k \in 1..Len(nd.order) :
     /\ nd.order[k] = Entry(t, i)
     /\ \A l \in 1..(k - 1) : nd.order[l] # Entry(t, i)) - 1

(* A slip: later entries keep their index.                                *)
LoweredKeepIndex(o, p, t) ==
  [k \in 1..(Len(o) - 1) |-> IF k <= p THEN o[k] ELSE o[k + 1]]

(* Take the entry at place p out of o; later entries of its type move down *)
(* by one.                                                                 *)
Lowered(o, p, t) ==
  [k \in 1..(Len(o) - 1) |->
     IF k <= p THEN o[k]
     ELSE IF TypeOf(o[k + 1]) = t THEN Entry(t, IndexOf(o[k + 1]) - 1)
     ELSE o[k + 1]]

Without(nd, t, i) ==
  [nd EXCEPT !.elem[t] = RemoveAt(@, i + 1),
             !.order = Lowered(@, findPosition(nd, t, i), t)]

(* The position asked for is inside pOrder, not its end.                   *)
Inside(nd, pos) == 0 <= pos /\ pos < Size(nd)

(* An element of type t asked for at a place where another type stands.    *)
OtherTypeAt(nd, t, pos) == Inside(nd, pos) /\ TypeOf(nd.order[pos + 1]) # t

(* addToOrder makes room at pos, then looks for an element of the new      *)
(* one's type from pos on, in the moved array but not in its last place.   *)
Shifted(o, pos) ==
  [k \in 1..(Len(o) + 1) |-> IF k <= pos + 1 THEN o[k] ELSE o[k - 1]]

SameType(o, t, pos) ==
  {k \in (pos + 1)..Len(o) : TypeOf(Shifted(o, pos)[k]) = t}

(* The new element takes the place and the index of the one found at q;    *)
(* that one and those of its type behind it move up.                       *)
Raised(o, t, pos, q) ==
  [k \in 1..(Len(o) + 1) |->
     IF k = pos + 1 THEN Shifted(o, pos)[q]
     ELSE IF k > q /\ TypeOf(Shifted(o, pos)[k]) = t
       THEN Entry(t, IndexOf(Shifted(o, pos)[k]) + 1)
     ELSE Shifted(o, pos)[k]]

First(S) == CHOOSE k \in S : \A l \in S : k <= l

addToOrder(nd, t, pos) ==
  LET nc == Len(nd.elem[t])
      o == nd.order
  IN  IF ~Inside(nd, pos)
        THEN [order |-> Append(o, Entry(t, nc)), at |-> nc]
      ELSE IF SameType(o, t, pos) = {}
        THEN [order |-> [Shifted(o, pos) EXCEPT ![Len(o) + 1] = Entry(t, nc)], at |-> nc]
      ELSE [order |-> Raised(o, t, pos, First(SameType(o, t, pos))),
            at |-> IndexOf(Shifted(o, pos)[First(SameType(o, t, pos))])]

(* The element v of type t comes to nd at pos: addChild_priv, addText_priv, *)
(* addClear_priv.                                                          *)
With(nd, t, v, pos) ==
  LET a == addToOrder(nd, t, pos)
  IN  [nd EXCEPT !.elem[t] = InsertAt(@, a.at + 1, v), !.order = a.order]

-----------------------------------------------------------------------------
(* Reference counts and the life of a node.                                *)

Kids(H, x) == {H[x].elem["child"][k] : k \in 1..Len(H[x].elem["child"])}

(* S holds x and, with every node, those children of it that are in A.     *)
Closed(H, x, A, S) == x \in S /\ \A z \in S : A \cap Kids(H, z) \subseteq S

(* What is reached from x by going to children that are in A.              *)
Closure(H, x, A) == {y \in Ids : \A S \in SUBSET Ids : Closed(H, x, A, S) => y \in S}

Subtree(H, x) == Closure(H, x, Ids)

(* emptyTheNode(0) of a node no handle holds any more goes on with the     *)
(* children that only this node held.                                      *)
Dying(H, x) == Closure(H, x, {c \in Ids : H[c].ref = 1})

Orphans(H, D) == (UNION {Kids(H, y) : y \in D}) \ D

Retain(H, x) == IF x = Null THEN H ELSE [H EXCEPT ![x].ref = @ + 1]

(* A slip: the children others hold keep count and parent.                *)
ReleaseKeepOrphans(H, x) ==
  IF x = Null THEN H
  ELSE IF H[x].ref > 1 THEN [H EXCEPT ![x].ref = @ - 1]
  ELSE LET D == Dying(H, x) IN [y \in Ids |-> IF y \in D THEN FreeNode ELSE H[y]]

(* A handle or an array lets go of x.                                      *)
Release(H, x) ==
  IF x = Null THEN H
  ELSE IF H[x].ref > 1 THEN [H EXCEPT ![x].ref = @ - 1]
  ELSE LET D == Dying(H, x)
       IN  [y \in Ids |->
              IF y \in D THEN FreeNode
              ELSE IF y \in Orphans(H, D)
                THEN [H[y] EXCEPT !.ref = @ - 1, !.parent = Null]
              ELSE H[y]]

(* Handle h comes to point to x: operator= and the destructor.             *)
Assign(h, H, x) ==
  /\ d' = [d EXCEPT ![h] = x]
  /\ heap' = Release(Retain(H, x), d[h])

Unused(H) == {x \in Ids : H[x].ref = 0}

Index(nd, c) == (CHOOSE k \in 1..Len(nd.elem["child"]) : nd.elem["child"][k] = c) - 1

(* detachFromParent: the parent loses the element and its order entry.     *)
Detached(H, c) ==
  [H EXCEPT ![H[c].parent] = Without(@, "child", Index(@, c))]

(* The element's place in the order of its node can be found.              *)
Detachable(H, c) ==
  H[c].parent # Null => Found(H[H[c].parent], "child", Index(H[H[c].parent], c))

(* An insertion of an element of type t at pos stays inside the arrays.    *)
Insertable(nd, t, pos) == addToOrder(nd, t, pos).at \in 0..Len(nd.elem[t])

(* A slip: the position moves for nodes from anywhere.                     *)
LandsAnyParent(H, c, p, pos) ==
  IF H[c].parent # Null /\ Size(H[p]) - 1 <= pos THEN pos - 1 ELSE pos

(* addChild of a node that exists: where it lands in p.  A node that moves *)
(* within p is taken out first; removeOrderElement returns the number of   *)
(* elements left, which is compared with pos.                              *)
Lands(H, c, p, pos) ==
  IF H[c].parent = p /\ Size(H[p]) - 1 <= pos THEN pos - 1 ELSE pos

(* A node that has a parent leaves it and keeps its count.                 *)
Left(H, c) == IF H[c].parent = Null THEN Retain(H, c) ELSE Detached(H, c)

Moved(H, c, p, pos) ==
  [Left(H, c) EXCEPT ![p] = With(@, "child", c, Lands(H, c, p, pos)),
                     ![c].parent = p]

(* emptyTheNode(1) frees x and all below it whoever holds them: init sets  *)
(* memBuffer, which shares its memory with ref_count, to NULL.             *)
Emptied(H, x) ==
  [y \in Ids |-> IF y \in Subtree(H, x) THEN FreeNode ELSE H[y]]

CopyOf(nd, f, parent, ref) ==
  [nd EXCEPT !.parent = parent, !.ref = ref,
             !.elem["child"] = [k \in DOMAIN @ |-> f[@[k]]]]

(* deepCopy: f gives each node below x its copy; the copy of x belongs to  *)
(* nobody yet.                                                             *)
Copied(H, x, f) ==
  LET S == Subtree(H, x)
  IN  [y \in Ids |->
         IF \E z \in S : f[z] = y
           THEN LET z == CHOOSE z \in S : f[z] = y
                IN  IF z = x THEN CopyOf(H[z], f, Null, 0)
                    ELSE CopyOf(H[z], f, f[H[z].parent], 1)
         ELSE H[y]]

-----------------------------------------------------------------------------
(* The calls of the program.  An empty node is left alone by all of them;  *)
(* addChild_priv would use it, so that call is not made on one.            *)

NotMoving == [from |-> Null, to |-> Null, at |-> -1, step |-> 0]

Idle == moving = NotMoving /\ ~overrun

Positions(x) == -1..Size(heap[x])

Mixing(x, t, pos) == IF OtherTypeAt(heap[x], t, pos) THEN {x} ELSE {}

MixingMove(c, p, pos) ==
  IF OtherTypeAt(Left(heap, c)[p], "child", Lands(heap, c, p, pos)) THEN {p} ELSE {}

(* mixed is kept of nodes that are alive and have a content.               *)
Remember(M) == mixed' = {x \in M : heap'[x].ref > 0 /\ heap'[x].order # <<>>}

Runs == UNCHANGED <<moving, lost, overrun>>

(* What the code does after that is unknown.                               *)
Overrun == overrun' = TRUE /\ UNCHANGED <<heap, d, moving, lost, mixed>>

(* h = IXMLNode::createXMLTopNode(name or NULL)                            *)
createXMLTopNode(h, named) ==
  /\ Idle
  /\ \E x \in Unused(heap) : Assign(h, [heap EXCEPT ![x].named = named], x)
  /\ Remember(mixed) /\ Runs

(* h = g, h = IXMLNode()                                                   *)
Copy(h, g) == Idle /\ Assign(h, heap, d[g]) /\ Remember(mixed) /\ Runs
Destroy(h) == Idle /\ d[h] # Null /\ Assign(h, heap, Null) /\ Remember(mixed) /\ Runs

(* h = g.getChildNode(...), by index or by name: some child or none.       *)
getChildNode(h, g) ==
  /\ Idle /\ d[g] # Null
  /\ \E x \in Kids(heap, d[g]) : Assign(h, heap, x)
  /\ Remember(mixed) /\ Runs

getParentNode(h, g) ==
  /\ Idle /\ d[g] # Null
  /\ Assign(h, heap, heap[d[g]].parent)
  /\ Remember(mixed) /\ Runs

(* h = g.deepCopy()                                                        *)
deepCopy(h, g) ==
  /\ Idle /\ d[g] # Null
  /\ LET x == d[g]
         S == Subtree(heap, x)
     IN  \E f \in [S -> Unused(heap)] :
           /\ IsInjective(f)
           /\ Assign(h, Copied(heap, x, f), f[x])
           /\ Remember(mixed \cup {f[y] : y \in mixed \cap S})
  /\ Runs

(* h = g.addChild(name, pos)                                               *)
addNewChild(h, g, pos) ==
  /\ Idle /\ d[g] # Null /\ pos \in Positions(d[g])
  /\ IF Insertable(heap[d[g]], "child", pos)
       THEN /\ \E x \in Unused(heap) :
                 Assign(h, [heap EXCEPT
                              ![x] = [@ EXCEPT !.named = TRUE, !.parent = d[g], !.ref = 1],
                              ![d[g]] = With(@, "child", x, pos)], x)
            /\ Remember(mixed \cup Mixing(d[g], "child", pos))
            /\ Runs
     ELSE Overrun

(* h.addText(v, pos), h.addClear(v, pos)                                   *)
addLeaf(h, t, v, pos) ==
  /\ Idle /\ d[h] # Null /\ pos \in Positions(d[h])
  /\ IF Insertable(heap[d[h]], t, pos)
       THEN /\ heap' = [heap EXCEPT ![d[h]] = With(@, t, v, pos)]
            /\ Remember(mixed \cup Mixing(d[h], t, pos))
            /\ UNCHANGED d /\ Runs
     ELSE Overrun

(* h.deleteText(i), h.deleteClear(i)                                       *)
deleteLeaf(h, t, i) ==
  /\ Idle /\ d[h] # Null /\ i \in 0..(Len(heap[d[h]].elem[t]) - 1)
  /\ IF Found(heap[d[h]], t, i)
       THEN /\ heap' = [heap EXCEPT ![d[h]] = Without(@, t, i)]
            /\ Remember(mixed)
            /\ UNCHANGED d /\ Runs
     ELSE Overrun

(* h.updateText(v, i), h.updateClear(v, i); with i past the end the value  *)
(* is added.                                                               *)
updateLeaf(h, t, v, i) ==
  /\ Idle /\ d[h] # Null /\ i \in 0..Len(heap[d[h]].elem[t])
  /\ heap' = [heap EXCEPT ![d[h]] =
                IF i < Len(@.elem[t]) THEN [@ EXCEPT !.elem[t][i + 1] = v]
                ELSE With(@, t, v, -1)]
  /\ Remember(mixed)
  /\ UNCHANGED d /\ Runs

updateName(h) ==
  /\ Idle /\ d[h] # Null
  /\ heap' = [heap EXCEPT ![d[h]].named = TRUE]
  /\ UNCHANGED <<d, moving, lost, mixed, overrun>>

(* Node c moves below p.                                                   *)
Place(c, p, pos) ==
  IF /\ Detachable(heap, c)
     /\ Insertable(Left(heap, c)[p], "child", Lands(heap, c, p, pos))
    THEN /\ heap' = Moved(heap, c, p, pos)
         /\ Remember(mixed \cup MixingMove(c, p, pos))
         /\ UNCHANGED <<d, lost, overrun>>
  ELSE overrun' = TRUE /\ UNCHANGED <<heap, d, lost, mixed>>

(* h.addChild(g, pos); a node without a name gives its children instead,   *)
(* one after the other.                                                    *)
addChild(h, g, pos) ==
  /\ Idle /\ d[h] # Null /\ d[g] # Null /\ pos \in Positions(d[h])
  /\ heap[d[g]].named
  /\ Place(d[g], d[h], pos)
  /\ UNCHANGED moving

addChildrenOf(h, g, pos) ==
  /\ Idle /\ d[h] # Null /\ d[g] # Null /\ pos \in Positions(d[h])
  /\ ~heap[d[g]].named /\ Kids(heap, d[g]) # {}
  /\ moving' = [from |-> d[g], to |-> d[h], at |-> pos, step |-> IF pos >= 0 THEN 1 ELSE 0]
  /\ UNCHANGED <<heap, d, lost, mixed, overrun>>

MoveNext ==
  /\ moving # NotMoving /\ ~overrun
  /\ Place(heap[moving.from].elem["child"][1], moving.to, moving.at)
  /\ moving' = IF Len(heap[moving.from].elem["child"]) = 1 THEN NotMoving
               ELSE [moving EXCEPT !.at = @ + moving.step]

(* h.deleteNodeContent(); h is empty then, and all other handles of what   *)
(* has been deleted are left with a pointer they must not use.             *)
deleteNodeContent(h) ==
  /\ Idle /\ d[h] # Null
  /\ LET x == d[h]
         others == {g \in Handles \ {h} : d[g] \in Subtree(heap, x)}
     IN  IF ~Detachable(heap, x) THEN Overrun
         ELSE /\ heap' = Emptied(IF heap[x].parent = Null THEN heap ELSE Detached(heap, x), x)
              /\ d' = [g \in Handles |-> IF g \in others \cup {h} THEN Null ELSE d[g]]
              /\ lost' = lost \cup others
              /\ Remember(mixed)
              /\ UNCHANGED <<moving, overrun>>

(* The destructor of a handle that was left so, or an assignment to it.    *)
useLost(h) == Idle /\ h \in lost /\ Overrun

-----------------------------------------------------------------------------
Init ==
  /\ heap = [x \in Ids |-> FreeNode]
  /\ d = [h \in Handles |-> Null]
  /\ moving = NotMoving
  /\ lost = {}
  /\ mixed = {}
  /\ overrun = FALSE

(* The program builds trees: it does not put a node below itself.          *)
Acyclic(h, g) == d[h] # Null /\ d[g] # Null => d[h] \notin Subtree(heap, d[g])

SizeOf(S) == FoldFunctionOnSet(LAMBDA nd, n : Size(nd) + n, 0, heap, S)

Room(n) == SizeOf(Ids) + n <= MaxElems

Building(h) ==
  \E pos \in -1..MaxElems :
    \/ \E g \in Handles \ lost : addNewChild(h, g, pos)
    \/ \E t \in {"text", "clear"}, v \in Values : addLeaf(h, t, v, pos)

Next ==
  \/ MoveNext
  \/ \E h \in lost : useLost(h)
  \/ \E h \in Handles \ lost :
       \/ \E named \in BOOLEAN : createXMLTopNode(h, named)
       \/ Destroy(h)
       \/ updateName(h)
       \/ deleteNodeContent(h)
       \/ Room(1) /\ Building(h)
       \/ \E g \in Handles \ lost :
            \/ Copy(h, g)
            \/ getChildNode(h, g)
            \/ getParentNode(h, g)
            \/ deepCopy(h, g) /\ Room(SizeOf(Subtree(heap, d[g])))
            \/ \E pos \in -1..MaxElems :
                 /\ Acyclic(h, g)
                 /\ \/ addChild(h, g, pos) /\ Room(IF heap[d[g]].parent = Null THEN 1 ELSE 0)
                    \/ addChildrenOf(h, g, pos)
       \/ \E t \in {"text", "clear"}, i \in 0..MaxElems :
            \/ deleteLeaf(h, t, i)
            \/ \E v \in Values : Room(1) /\ updateLeaf(h, t, v, i)

Spec == Init /\ [][Next]_vars

-----------------------------------------------------------------------------
(* Properties.                                                             *)

Places(x) == {q \in UNION {{p} \X DOMAIN heap[p].elem["child"] : p \in Ids} :
                heap[q[1]].elem["child"][q[2]] = x}

(* A node counts every handle that points to it and its one place in a     *)
(* parent's array, no more and no less (IXMLNode's constructors, operator=,*)
(* destructor, addChild, deleteNodeContent, emptyTheNode): so none is kept *)
(* that nobody can reach, and none is freed under a handle but by          *)
(* deleteNodeContent, which makes the others' handles lost.  The parent it *)
(* names is the node whose array holds it, and it is there once.           *)
RefsCount ==
  \A x \in Ids :
    /\ heap[x].ref = Cardinality({h \in Handles : d[h] = x}) + Cardinality(Places(x))
    /\ {p[1] : p \in Places(x)} = {heap[x].parent} \ {Null}
    /\ Cardinality(Places(x)) <= 1

WellOrdered(nd) ==
  /\ Len(nd.order) = Size(nd)
  /\ \A k \in 1..Len(nd.order) :
       IndexOf(nd.order[k]) \in 0..(Len(nd.elem[TypeOf(nd.order[k])]) - 1)
  /\ \A k, l \in 1..Len(nd.order) :
       k < l /\ TypeOf(nd.order[k]) = TypeOf(nd.order[l])
         => IndexOf(nd.order[k]) < IndexOf(nd.order[l])
  /\ \A t \in Types : \A i \in 0..(Len(nd.elem[t]) - 1) : Found(nd, t, i)

(* In a node's order every child, text and clear tag stands exactly once,  *)
(* each kind in the order of its array; and no search of a place runs past *)
(* the end.  Exempt are nodes where something was inserted at a place held *)
(* by an element of another kind: there addToOrder counts wrong.  Freed    *)
(* memory is used only through a handle whose node another one deleted.    *)
OrderKept ==
  /\ \A x \in Ids \ mixed : WellOrdered(heap[x])
  /\ overrun => mixed # {} \/ lost # {}

Content(nd) ==
  [k \in 1..Len(nd.order) |->
     <<TypeOf(nd.order[k]), nd.elem[TypeOf(nd.order[k])][IndexOf(nd.order[k]) + 1]>>]

Placed(s, pos, e) ==
  IF pos \in 0..(Len(s) - 1) THEN InsertAt(s, pos + 1, e) ELSE Append(s, e)

NewLands(x) ==
  \A t \in Types, pos \in -1..Size(heap[x]) :
    ~OtherTypeAt(heap[x], t, pos)
      => Content(With(heap[x], t, Null, pos)) = Placed(Content(heap[x]), pos, <<t, Null>>)

Exempt(c, p, pos) ==
  \/ OtherTypeAt(Left(heap, c)[p], "child", pos)
  \/ heap[c].parent = p /\ pos = Size(heap[p]) - 1

OldLands(p, c) ==
  \A pos \in -1..Size(heap[p]) :
    ~Exempt(c, p, pos)
      => Content(Moved(heap, c, p, pos)[p])
           = Placed(Content(Left(heap, c)[p]), pos, <<"child", c>>)

(* What is inserted at a position comes to stand there, or last when the   *)
(* position is the end or -1, and all else keeps its order: for new        *)
(* children, texts and clear tags, for nodes that come from elsewhere and  *)
(* for nodes that move within their parent (addToOrder, addChild).  Exempt *)
(* are places held by another kind, and a move within the parent to the    *)
(* last place, which ends one before it (removeOrderElement's result).     *)
InsertLands ==
  LET Alive == {x \in Ids : heap[x].ref > 0}
  IN  /\ \A x \in Alive \ mixed : NewLands(x)
      /\ \A c \in {x \in Alive : heap[x].named /\ heap[x].parent \notin mixed} :
           \A p \in (Alive \ mixed) \ Subtree(heap, c) : OldLands(p, c)
=============================================================================

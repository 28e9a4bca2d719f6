--------------------------- MODULE DomParserProofs ---------------------------
(***************************************************************************)
(* Proof that the parser's shared arrays implement the tree of             *)
(* TreeBuilder, whatever the files hold and however they are cut into      *)
(* tokens.                                                                 *)
(*                                                                         *)
(* The levels of the recursion share three arrays.  What keeps them apart  *)
(* is that a level starts behind the last element of every level around    *)
(* it (Apart), and that the order a level has written down speaks of its   *)
(* own children and texts only (FitsIn).                                   *)
(*                                                                         *)
(* Then, that reading ends: nextToken never goes back, and what it does    *)
(* not move on from ends a level.  And that the writer makes exactly the   *)
(* room it needs: a node's children come behind it in the list of nodes    *)
(* (IsTree, kept by the levels through what they have gathered), so both   *)
(* passes of getStringR come to the same number, from the last node on.    *)
(* And that searches find every child that fits, in order: a cursor that   *)
(* has taken k steps from the start has k places up to it (WalkCounts).    *)
(***************************************************************************)
EXTENDS XmlRewrite, SequenceTheorems, FiniteSetTheorems, TLAPS

IsSeq(s) == s \in Seq(ToSet(s))

IsNode(nd) ==
  nd = [name |-> nd.name, attrs |-> nd.attrs, parent |-> nd.parent,
        pChild |-> nd.pChild, pText |-> nd.pText, pOrder |-> nd.pOrder]

Levels ==
  [td : Nat, iChild : Nat, iText : Nat, iOrder : Nat,
   lastChild : Nat, lastText : Nat, lastOrder : Nat]

(* An entry of a level's order speaks of a child or a text of its own.     *)
Own(e, l) ==
  \/ e[1] = "child" /\ e[2] \in 0..(l.lastChild - l.iChild - 1)
  \/ e[1] = "text" /\ e[2] \in 0..(l.lastText - l.iText - 1)

(* What the arrays say of a level, and that it is all its own.             *)
FitsIn(l, child, text, order) ==
  /\ l.iChild <= l.lastChild /\ l.lastChild <= Len(child)
  /\ l.iText <= l.lastText /\ l.lastText <= Len(text)
  /\ l.iOrder <= l.lastOrder /\ l.lastOrder <= Len(order)
  /\ \A k \in (l.iOrder + 1)..l.lastOrder : Own(order[k], l)

ItemsOf(l, child, text, order) ==
  Items(Slice(order, l.iOrder, l.lastOrder), Slice(child, l.iChild, l.lastChild),
        Slice(text, l.iText, l.lastText))

(* Level m starts where level l stops, or later.                           *)
Behind(l, m) ==
  l.lastChild <= m.iChild /\ l.lastText <= m.iText /\ l.lastOrder <= m.iOrder

Arrays == IsSeq(vChild) /\ IsSeq(vText) /\ IsSeq(vOrder)

Nodes == IsSeq(node) /\ \A i \in DOMAIN node : IsNode(node[i])

Unfilled(nd) == nd.pChild = <<>> /\ nd.pText = <<>> /\ nd.pOrder = <<>>

OwnNodes ==
  /\ \A k \in DOMAIN stack : stack[k].td \in DOMAIN node /\ Unfilled(node[stack[k].td])
  /\ \A j, k \in DOMAIN stack : stack[j].td = stack[k].td => j = k

Apart == \A j, k \in DOMAIN stack : j < k => Behind(stack[j], stack[k])

Fit == \A k \in DOMAIN stack : FitsIn(stack[k], vChild, vText, vOrder)

DInv == Arrays /\ Nodes /\ stack \in Seq(Levels) /\ OwnNodes /\ Apart /\ Fit

-----------------------------------------------------------------------------
(* Sequences.                                                              *)

LEMMA SeqOfElements == ASSUME NEW S, NEW s \in Seq(S) PROVE IsSeq(s)
<1>1. \A i \in 1..Len(s) : s[i] \in ToSet(s)
  BY LenProperties DEF ToSet
<1>2. SubSeq(s, 1, Len(s)) \in Seq(ToSet(s))
  BY <1>1, SubSeqProperties, LenProperties
<1>. QED BY <1>2, SubSeqFull DEF IsSeq

LEMMA SeqFacts ==
  ASSUME NEW s, IsSeq(s)
  PROVE  Len(s) \in Nat /\ DOMAIN s = 1..Len(s) /\ s = [i \in 1..Len(s) |-> s[i]]
BY LenProperties DEF IsSeq

LEMMA FunctionIsSeq ==
  ASSUME NEW n \in Nat, NEW f, f = [i \in 1..n |-> f[i]]
  PROVE  IsSeq(f) /\ Len(f) = n
<1>. DEFINE S == ToSet(f)
<1>1. f \in [1..n -> S]
  BY DEF ToSet
<1>2. f \in Seq(S) /\ Len(f) = n
  BY <1>1
<1>. QED BY <1>2 DEF IsSeq

LEMMA SeqSame ==
  ASSUME NEW s, NEW t, IsSeq(s), IsSeq(t), Len(s) = Len(t),
         \A i \in 1..Len(s) : s[i] = t[i]
  PROVE  s = t
BY SeqFacts

LEMMA AppendFacts ==
  ASSUME NEW s, IsSeq(s), NEW x
  PROVE  /\ IsSeq(Append(s, x)) /\ Len(Append(s, x)) = Len(s) + 1
         /\ \A i \in 1..Len(s) : Append(s, x)[i] = s[i]
         /\ Append(s, x)[Len(s) + 1] = x
<1>. DEFINE S == ToSet(s) \cup {x}
<1>1. s \in Seq(S) /\ x \in S
  BY SeqMonotonic DEF IsSeq
<1>2. Append(s, x) \in Seq(S)
  BY <1>1, AppendProperties
<1>3. IsSeq(Append(s, x))
  BY <1>2, SeqOfElements
<1>. QED BY <1>1, <1>3, AppendProperties

LEMMA FrontFacts ==
  ASSUME NEW s, IsSeq(s), s # <<>>
  PROVE  /\ Len(s) \in Nat \ {0}
         /\ IsSeq(Front(s)) /\ Len(Front(s)) = Len(s) - 1
         /\ \A i \in 1..(Len(s) - 1) : Front(s)[i] = s[i]
<1>. DEFINE S == ToSet(s)
<1>1. Len(s) \in Nat \ {0} /\ s \in Seq(S)
  BY EmptySeq DEF IsSeq
<1>2. \A i \in 1..(Len(s) - 1) : s[i] \in S
  BY <1>1, ElementOfSeq
<1>. HIDE DEF S
<1>3. /\ Front(s) \in Seq(S) /\ Len(Front(s)) = Len(s) - 1
      /\ \A i \in 1..(Len(s) - 1) : Front(s)[i] = s[i]
  <2>. DEFINE n == Len(s) - 1
  <2>1. 1 \in Int /\ n \in Int /\ n - 1 + 1 = n /\ (IF 1 <= n THEN n - 1 + 1 ELSE 0) = n
    BY <1>1
  <2>2. \A i \in 1..n : s[i] \in S /\ s[1 + i - 1] = s[i]
    BY <1>1, <1>2
  <2>. HIDE DEF n
  <2>3. /\ SubSeq(s, 1, n) \in Seq(S) /\ Len(SubSeq(s, 1, n)) = n
        /\ \A i \in 1..n : SubSeq(s, 1, n)[i] = s[i]
    BY <2>1, <2>2, SubSeqProperties
  <2>. QED BY <2>3 DEF Front, n
<1>. QED BY <1>1, <1>3, SeqOfElements

LEMMA SliceFacts ==
  ASSUME NEW v, IsSeq(v), NEW a \in Nat, NEW b \in Nat, a <= b, b <= Len(v)
  PROVE  /\ IsSeq(Slice(v, a, b)) /\ Len(Slice(v, a, b)) = b - a
         /\ \A k \in 1..(b - a) : Slice(v, a, b)[k] = v[a + k]
<1>. DEFINE S == ToSet(v)
<1>1. \A i \in (a + 1)..b : v[i] \in S
  BY SeqFacts, ElementOfSeq DEF IsSeq
<1>. HIDE DEF S
<1>2. /\ Slice(v, a, b) \in Seq(S)
      /\ Len(Slice(v, a, b)) = IF a + 1 <= b THEN b - (a + 1) + 1 ELSE 0
      /\ \A i \in 1..(b - (a + 1) + 1) : Slice(v, a, b)[i] = v[(a + 1) + i - 1]
  BY <1>1, SubSeqProperties DEF Slice
<1>. QED BY <1>2, SeqOfElements

LEMMA PutFacts ==
  ASSUME NEW v, IsSeq(v), NEW i \in Nat, i <= Len(v), NEW x
  PROVE  /\ IsSeq(Put(v, i, x))
         /\ Len(Put(v, i, x)) >= Len(v) /\ Len(Put(v, i, x)) >= i + 1
         /\ Put(v, i, x)[i + 1] = x
         /\ \A j \in 1..i : Put(v, i, x)[j] = v[j]
<1>0. Len(v) \in Nat
  BY SeqFacts
<1>1. CASE i < Len(v)
  <2>. DEFINE S == ToSet(v) \cup {x}
  <2>1. v \in Seq(S) /\ x \in S /\ i + 1 \in 1..Len(v)
    BY <1>0, <1>1, SeqMonotonic DEF IsSeq
  <2>. HIDE DEF S
  <2>2. /\ [v EXCEPT ![i + 1] = x] \in Seq(S)
        /\ Len([v EXCEPT ![i + 1] = x]) = Len(v)
        /\ \A j \in 1..Len(v) : [v EXCEPT ![i + 1] = x][j] = IF j = i + 1 THEN x ELSE v[j]
    BY <2>1, ExceptSeq
  <2>3. IsSeq([v EXCEPT ![i + 1] = x])
    BY <2>2, SeqOfElements
  <2>4. Put(v, i, x) = [v EXCEPT ![i + 1] = x]
    BY <1>1 DEF Put
  <2>. QED BY <1>0, <2>1, <2>2, <2>3, <2>4
<1>2. CASE ~(i < Len(v))
  BY <1>0, <1>2, AppendFacts DEF Put
<1>. QED BY <1>1, <1>2

-----------------------------------------------------------------------------
(* The items of a level.                                                   *)

Entry(e, l, child, text) ==
  IF e[1] = "child" THEN [type |-> "child", of |-> child[l.iChild + (e[2] + 1)]]
  ELSE [type |-> "text", of |-> text[l.iText + (e[2] + 1)]]

LEMMA Within ==
  ASSUME NEW a \in Nat, NEW b \in Nat, NEW x \in 0..(b - a - 1)
  PROVE  a + (x + 1) \in 1..b
OBVIOUS

LEMMA Wider ==
  ASSUME NEW a \in Nat, NEW b \in Nat, NEW c \in Nat, b <= c, NEW x \in 0..(b - a - 1)
  PROVE  x \in 0..(c - a - 1)
OBVIOUS

LEMMA OneMore ==
  ASSUME NEW a \in Nat, NEW n \in Nat, NEW k \in (a + 1)..(n + 1)
  PROVE  k \in (a + 1)..n \/ k = n + 1
OBVIOUS

(* A level says what its entries say, read in the whole arrays.            *)
LEMMA ItemsOfLevel ==
  ASSUME NEW l \in Levels, NEW child, NEW text, NEW order,
         IsSeq(child), IsSeq(text), IsSeq(order), FitsIn(l, child, text, order)
  PROVE  /\ IsSeq(ItemsOf(l, child, text, order))
         /\ Len(ItemsOf(l, child, text, order)) = l.lastOrder - l.iOrder
         /\ \A k \in 1..(l.lastOrder - l.iOrder) :
              ItemsOf(l, child, text, order)[k] = Entry(order[l.iOrder + k], l, child, text)
<1>. DEFINE n == l.lastOrder - l.iOrder
            o == Slice(order, l.iOrder, l.lastOrder)
            c == Slice(child, l.iChild, l.lastChild)
            t == Slice(text, l.iText, l.lastText)
            items == ItemsOf(l, child, text, order)
<1>1. /\ l.iChild \in Nat /\ l.lastChild \in Nat /\ l.iText \in Nat /\ l.lastText \in Nat
      /\ l.iOrder \in Nat /\ l.lastOrder \in Nat /\ n \in Nat
  BY DEF Levels, FitsIn
<1>2. Len(o) = n /\ \A k \in 1..n : o[k] = order[l.iOrder + k]
  <2>1. l.iOrder <= l.lastOrder /\ l.lastOrder <= Len(order)
    BY DEF FitsIn
  <2>. QED BY <1>1, <2>1, SliceFacts, ZenonT(30)
<1>3. \A k \in 1..(l.lastChild - l.iChild) : c[k] = child[l.iChild + k]
  <2>1. l.iChild <= l.lastChild /\ l.lastChild <= Len(child)
    BY DEF FitsIn
  <2>. QED BY <1>1, <2>1, SliceFacts
<1>4. \A k \in 1..(l.lastText - l.iText) : t[k] = text[l.iText + k]
  <2>1. l.iText <= l.lastText /\ l.lastText <= Len(text)
    BY DEF FitsIn
  <2>. QED BY <1>1, <2>1, SliceFacts
<1>. HIDE DEF n, o, c, t
<1>5. items = [k \in 1..n |->
                 IF o[k][1] = "child" THEN [type |-> "child", of |-> c[o[k][2] + 1]]
                 ELSE [type |-> "text", of |-> t[o[k][2] + 1]]]
  BY <1>2 DEF ItemsOf, Items, n, o, c, t
<1>6. items = [k \in 1..n |-> items[k]]
  BY <1>5
<1>7. ASSUME NEW k \in 1..n PROVE items[k] = Entry(order[l.iOrder + k], l, child, text)
  <2>1. o[k] = order[l.iOrder + k] /\ l.iOrder + k \in (l.iOrder + 1)..l.lastOrder
    BY <1>1, <1>2 DEF n
  <2>2. \/ o[k][1] = "child" /\ o[k][2] \in 0..(l.lastChild - l.iChild - 1)
        \/ o[k][1] = "text" /\ o[k][2] \in 0..(l.lastText - l.iText - 1)
    BY <2>1 DEF FitsIn, Own
  <2>3. CASE o[k][1] = "child" /\ o[k][2] \in 0..(l.lastChild - l.iChild - 1)
    <3>1. c[o[k][2] + 1] = child[l.iChild + (o[k][2] + 1)]
      BY <1>1, <1>3, <2>3
    <3>. QED BY <1>5, <2>1, <2>3, <3>1 DEF Entry
  <2>4. CASE o[k][1] = "text" /\ o[k][2] \in 0..(l.lastText - l.iText - 1)
    <3>1. t[o[k][2] + 1] = text[l.iText + (o[k][2] + 1)]
      BY <1>1, <1>4, <2>4
    <3>. QED BY <1>5, <2>1, <2>4, <3>1 DEF Entry
  <2>. QED BY <2>2, <2>3, <2>4
<1>8. IsSeq(items) /\ Len(items) = n
  BY <1>1, <1>6, FunctionIsSeq
<1>. QED BY <1>7, <1>8 DEF n

(* An entry means the same when the level has got more, and the arrays are *)
(* the same up to where it stopped.                                        *)
LEMMA EntryKept ==
  ASSUME NEW l \in Levels, NEW m, m.iChild = l.iChild, m.iText = l.iText,
         NEW e, Own(e, l), NEW child, NEW text, NEW child2, NEW text2,
         \A k \in 1..l.lastChild : child2[k] = child[k],
         \A k \in 1..l.lastText : text2[k] = text[k]
  PROVE  Entry(e, m, child2, text2) = Entry(e, l, child, text)
<1>1. l.iChild \in Nat /\ l.lastChild \in Nat /\ l.iText \in Nat /\ l.lastText \in Nat
  BY DEF Levels
<1>2. CASE e[1] = "child" /\ e[2] \in 0..(l.lastChild - l.iChild - 1)
  <2>1. l.iChild + (e[2] + 1) \in 1..l.lastChild
    BY <1>1, <1>2, Within
  <2>2. child2[l.iChild + (e[2] + 1)] = child[l.iChild + (e[2] + 1)]
    BY <2>1
  <2>. QED BY <1>2, <2>2 DEF Entry
<1>3. CASE e[1] = "text" /\ e[2] \in 0..(l.lastText - l.iText - 1)
  <2>1. l.iText + (e[2] + 1) \in 1..l.lastText
    BY <1>1, <1>3, Within
  <2>2. text2[l.iText + (e[2] + 1)] = text[l.iText + (e[2] + 1)]
    BY <2>1
  <2>. QED BY <1>3, <2>2 DEF Entry
<1>. QED BY <1>2, <1>3 DEF Own

(* Arrays that are the same up to where a level stops say the same of it.  *)
LEMMA ItemsKept ==
  ASSUME NEW l \in Levels, NEW child, NEW text, NEW order,
         IsSeq(child), IsSeq(text), IsSeq(order), FitsIn(l, child, text, order),
         NEW child2, NEW text2, NEW order2, IsSeq(child2), IsSeq(text2), IsSeq(order2),
         Len(child2) >= Len(child), Len(text2) >= Len(text), Len(order2) >= Len(order),
         \A k \in 1..l.lastChild : child2[k] = child[k],
         \A k \in 1..l.lastText : text2[k] = text[k],
         \A k \in 1..l.lastOrder : order2[k] = order[k]
  PROVE  /\ FitsIn(l, child2, text2, order2)
         /\ ItemsOf(l, child2, text2, order2) = ItemsOf(l, child, text, order)
<1>. DEFINE n == l.lastOrder - l.iOrder
            a == ItemsOf(l, child2, text2, order2)
            b == ItemsOf(l, child, text, order)
<1>1. /\ l.iChild \in Nat /\ l.lastChild \in Nat /\ l.iText \in Nat /\ l.lastText \in Nat
      /\ l.iOrder \in Nat /\ l.lastOrder \in Nat /\ n \in Nat
  BY DEF Levels, FitsIn
<1>2. \A s : IsSeq(s) => Len(s) \in Nat
  BY SeqFacts
<1>3. \A k \in (l.iOrder + 1)..l.lastOrder : order2[k] = order[k] /\ Own(order[k], l)
  BY <1>1 DEF FitsIn
<1>4. /\ l.lastChild <= Len(child2) /\ l.lastText <= Len(text2) /\ l.lastOrder <= Len(order2)
      /\ l.iChild <= l.lastChild /\ l.iText <= l.lastText /\ l.iOrder <= l.lastOrder
  BY <1>1, <1>2 DEF FitsIn
<1>5. FitsIn(l, child2, text2, order2)
  BY <1>3, <1>4 DEF FitsIn
<1>6. ASSUME NEW k \in 1..n
      PROVE  Entry(order2[l.iOrder + k], l, child2, text2) = Entry(order[l.iOrder + k], l, child, text)
  <2>1. l.iOrder + k \in (l.iOrder + 1)..l.lastOrder
    BY <1>1, SMTT(30)
  <2>. QED BY <1>3, <2>1, EntryKept
<1>7. IsSeq(a) /\ Len(a) = n /\ \A k \in 1..n : a[k] = Entry(order2[l.iOrder + k], l, child2, text2)
  BY <1>5, ItemsOfLevel
<1>8. IsSeq(b) /\ Len(b) = n /\ \A k \in 1..n : b[k] = Entry(order[l.iOrder + k], l, child, text)
  BY ItemsOfLevel
<1>. HIDE DEF a, b
<1>9. a = b
  BY <1>6, <1>7, <1>8, SeqSame
<1>. QED BY <1>5, <1>9 DEF a, b

(* Level l, as m, has got one more entry: the arrays are the same up to    *)
(* where l stops, and the entry is m's own.                                *)
Grows(l, child, text, order, m, child2, text2, order2) ==
  /\ m.iChild = l.iChild /\ m.iText = l.iText /\ m.iOrder = l.iOrder
  /\ l.lastChild <= m.lastChild /\ m.lastChild <= Len(child2)
  /\ l.lastText <= m.lastText /\ m.lastText <= Len(text2)
  /\ m.lastOrder = l.lastOrder + 1 /\ m.lastOrder <= Len(order2)
  /\ Len(child2) >= Len(child) /\ Len(text2) >= Len(text) /\ Len(order2) >= Len(order)
  /\ \A k \in 1..l.lastChild : child2[k] = child[k]
  /\ \A k \in 1..l.lastText : text2[k] = text[k]
  /\ \A k \in 1..l.lastOrder : order2[k] = order[k]
  /\ Own(order2[m.lastOrder], m)

(* A level that writes down one more entry has one more item.              *)
LEMMA ItemAdded ==
  ASSUME NEW l \in Levels, NEW child, NEW text, NEW order,
         IsSeq(child), IsSeq(text), IsSeq(order), FitsIn(l, child, text, order),
         NEW m \in Levels, NEW child2, NEW text2, NEW order2,
         IsSeq(child2), IsSeq(text2), IsSeq(order2),
         Grows(l, child, text, order, m, child2, text2, order2)
  PROVE  /\ FitsIn(m, child2, text2, order2)
         /\ ItemsOf(m, child2, text2, order2)
              = Append(ItemsOf(l, child, text, order), Entry(order2[m.lastOrder], m, child2, text2))
<1>. DEFINE n == l.lastOrder - l.iOrder
            a == ItemsOf(m, child2, text2, order2)
            b == ItemsOf(l, child, text, order)
            x == Entry(order2[m.lastOrder], m, child2, text2)
<1>0. /\ m.iChild = l.iChild /\ m.iText = l.iText /\ m.iOrder = l.iOrder
      /\ l.lastChild <= m.lastChild /\ m.lastChild <= Len(child2)
      /\ l.lastText <= m.lastText /\ m.lastText <= Len(text2)
      /\ m.lastOrder = l.lastOrder + 1 /\ m.lastOrder <= Len(order2)
  BY DEF Grows
<1>00. /\ \A k \in 1..l.lastChild : child2[k] = child[k]
       /\ \A k \in 1..l.lastText : text2[k] = text[k]
       /\ \A k \in 1..l.lastOrder : order2[k] = order[k]
       /\ Own(order2[m.lastOrder], m)
  BY DEF Grows
<1>1. /\ l.iChild \in Nat /\ l.lastChild \in Nat /\ l.iText \in Nat /\ l.lastText \in Nat
      /\ l.iOrder \in Nat /\ l.lastOrder \in Nat /\ m.lastChild \in Nat /\ m.lastText \in Nat
      /\ n \in Nat
      /\ l.iChild <= l.lastChild /\ l.iText <= l.lastText /\ l.iOrder <= l.lastOrder
  BY DEF Levels, FitsIn
<1>2. ASSUME NEW e, Own(e, l) PROVE Own(e, m)
  <2>1. CASE e[1] = "child" /\ e[2] \in 0..(l.lastChild - l.iChild - 1)
    <3>0. l.iChild \in Nat /\ l.lastChild \in Nat /\ m.lastChild \in Nat /\ l.lastChild <= m.lastChild
      BY <1>0, <1>1
    <3>1. e[2] \in 0..(m.lastChild - l.iChild - 1)
      BY ONLY <3>0, <2>1, Wider
    <3>. QED BY <1>0, <2>1, <3>1 DEF Own
  <2>2. CASE e[1] = "text" /\ e[2] \in 0..(l.lastText - l.iText - 1)
    <3>0. l.iText \in Nat /\ l.lastText \in Nat /\ m.lastText \in Nat /\ l.lastText <= m.lastText
      BY <1>0, <1>1
    <3>1. e[2] \in 0..(m.lastText - l.iText - 1)
      BY ONLY <3>0, <2>2, Wider
    <3>. QED BY <1>0, <2>2, <3>1 DEF Own
  <2>. QED BY <1>2, <2>1, <2>2 DEF Own
<1>3. \A k \in (l.iOrder + 1)..l.lastOrder : order2[k] = order[k] /\ Own(order[k], l)
  BY <1>1, <1>00 DEF FitsIn
<1>4. ASSUME NEW k \in (m.iOrder + 1)..m.lastOrder PROVE Own(order2[k], m)
  <2>1. k \in (l.iOrder + 1)..l.lastOrder \/ k = m.lastOrder
    BY <1>0, <1>1, OneMore
  <2>. QED BY <1>00, <1>2, <1>3, <2>1
<1>5. FitsIn(m, child2, text2, order2)
  <2>1. m.iChild <= m.lastChild /\ m.iText <= m.lastText /\ m.iOrder <= m.lastOrder
    <3>1. /\ l.iChild <= l.lastChild /\ l.iText <= l.lastText /\ l.iOrder <= l.lastOrder
          /\ l.iChild \in Nat /\ l.iText \in Nat /\ l.iOrder \in Nat
          /\ l.lastChild \in Nat /\ l.lastText \in Nat /\ l.lastOrder \in Nat
          /\ m.lastChild \in Nat /\ m.lastText \in Nat
      BY <1>1
    <3>. QED BY ONLY <1>0, <3>1
  <2>. QED BY <1>0, <1>4, <2>1 DEF FitsIn
<1>6. ASSUME NEW k \in 1..n
      PROVE  Entry(order2[l.iOrder + k], m, child2, text2) = Entry(order[l.iOrder + k], l, child, text)
  <2>1. l.iOrder + k \in (l.iOrder + 1)..l.lastOrder
    BY <1>0, <1>1, SMTT(30)
  <2>. QED BY <1>0, <1>00, <1>3, <2>1, EntryKept
<1>7. /\ IsSeq(a) /\ Len(a) = n + 1
      /\ \A k \in 1..(n + 1) : a[k] = Entry(order2[l.iOrder + k], m, child2, text2)
  <2>1. m.lastOrder - m.iOrder = n + 1
    BY <1>0, <1>1
  <2>. QED BY <1>0, <1>5, <2>1, ItemsOfLevel
<1>8. IsSeq(b) /\ Len(b) = n /\ \A k \in 1..n : b[k] = Entry(order[l.iOrder + k], l, child, text)
  BY ItemsOfLevel
<1>9. a[n + 1] = x
  <2>1. n + 1 \in 1..(n + 1) /\ l.iOrder + (n + 1) = m.lastOrder
    BY <1>0, <1>1, SMTT(30)
  <2>. QED BY <1>7, <2>1
<1>. HIDE DEF a, b, x
<1>10. /\ IsSeq(Append(b, x)) /\ Len(Append(b, x)) = n + 1
       /\ \A k \in 1..n : Append(b, x)[k] = b[k]
       /\ Append(b, x)[n + 1] = x
  BY <1>8, AppendFacts
<1>11. ASSUME NEW k \in 1..(n + 1) PROVE a[k] = Append(b, x)[k]
  <2>1. CASE k \in 1..n
    BY <1>6, <1>7, <1>8, <1>10, <2>1
  <2>2. CASE k = n + 1
    BY <1>9, <1>10, <2>2
  <2>3. k \in 1..n \/ k = n + 1
    <3>1. n \in Nat /\ 0 \in Nat /\ k \in (0 + 1)..(n + 1)
      BY <1>0, <1>1
    <3>2. k \in (0 + 1)..n \/ k = n + 1
      BY ONLY <3>1, OneMore
    <3>. QED BY <3>2
  <2>. QED BY <2>1, <2>2, <2>3
<1>12. a = Append(b, x)
  BY <1>7, <1>10, <1>11, SeqSame
<1>. QED BY <1>5, <1>12 DEF a, b, x

-----------------------------------------------------------------------------
(* The stack.                                                              *)

LEMMA TopFacts ==
  ASSUME NEW s \in Seq(Levels), s # <<>>
  PROVE  /\ Len(s) \in Nat \ {0} /\ DOMAIN s = 1..Len(s) /\ Len(s) \in DOMAIN s
         /\ Last(s) = s[Len(s)] /\ Last(s) \in Levels
<1>1. Len(s) \in Nat \ {0} /\ DOMAIN s = 1..Len(s)
  BY EmptySeq, LenProperties
<1>2. Len(s) \in 1..Len(s)
  BY <1>1
<1>. QED BY <1>1, <1>2, ElementOfSeq DEF Last

LEMMA FrontOfStack ==
  ASSUME NEW s \in Seq(Levels), s # <<>>
  PROVE  /\ Front(s) \in Seq(Levels) /\ Len(Front(s)) = Len(s) - 1
         /\ \A k \in 1..(Len(s) - 1) : Front(s)[k] = s[k]
<1>1. IsSeq(s) /\ Len(s) \in Nat
  BY SeqOfElements, LenProperties
<1>2. /\ IsSeq(Front(s)) /\ Len(Front(s)) = Len(s) - 1
      /\ \A k \in 1..(Len(s) - 1) : Front(s)[k] = s[k]
  BY <1>1, FrontFacts
<1>3. \A k \in 1..(Len(s) - 1) : s[k] \in Levels
  BY <1>1, ElementOfSeq
<1>4. \A k \in 1..(Len(s) - 1) : SubSeq(s, 1, Len(s) - 1)[k] = s[k]
  BY <1>2 DEF Front
<1>5. SubSeq(s, 1, Len(s) - 1) \in Seq(Levels)
  BY <1>1, <1>3, SubSeqProperties
<1>. QED BY <1>2, <1>5 DEF Front

LEMMA TopReplaced ==
  ASSUME NEW s \in Seq(Levels), s # <<>>, NEW l \in Levels
  PROVE  /\ Append(Front(s), l) \in Seq(Levels) /\ Len(Append(Front(s), l)) = Len(s)
         /\ \A k \in 1..(Len(s) - 1) : Append(Front(s), l)[k] = s[k]
         /\ Append(Front(s), l)[Len(s)] = l
<1>1. Len(s) \in Nat \ {0}
  BY TopFacts
<1>2. /\ Front(s) \in Seq(Levels) /\ Len(Front(s)) = Len(s) - 1
      /\ \A k \in 1..(Len(s) - 1) : Front(s)[k] = s[k]
  BY FrontOfStack
<1>3. Len(Front(s)) + 1 = Len(s)
  BY <1>1, <1>2
<1>. QED BY <1>2, <1>3, AppendProperties

LEMMA LevelPushed ==
  ASSUME NEW s \in Seq(Levels), NEW m \in Levels
  PROVE  /\ s \o <<m>> \in Seq(Levels) /\ Len(s \o <<m>>) = Len(s) + 1
         /\ \A k \in 1..Len(s) : (s \o <<m>>)[k] = s[k]
         /\ (s \o <<m>>)[Len(s) + 1] = m
BY AppendProperties, AppendIsConcat

-----------------------------------------------------------------------------
(* The tree and the open nodes, as TreeBuilder sees them.                  *)

Opened == [k \in DOMAIN stack |-> stack[k].td]

ViewOfStack ==
  stack \in Seq(Levels) =>
    /\ IsSeq(Opened) /\ Len(Opened) = Len(stack)
    /\ \A k \in 1..Len(stack) : Opened[k] = stack[k].td

ViewOfTree ==
  IsSeq(node) =>
    /\ IsSeq(Tree) /\ Len(Tree) = Len(node) /\ DOMAIN Tree = DOMAIN node
    /\ \A i \in 1..Len(node) :
         Tree[i] = [name |-> node[i].name, attrs |-> node[i].attrs,
                    parent |-> node[i].parent, content |-> Content(i)]

ViewOfContent ==
  OwnNodes =>
    /\ \A k \in DOMAIN stack :
         Content(stack[k].td) = ItemsOf(stack[k], vChild, vText, vOrder)
    /\ \A i : (\A k \in DOMAIN stack : stack[k].td # i) =>
         Content(i) = Items(node[i].pOrder, node[i].pChild, node[i].pText)

LEMMA Views == ViewOfStack /\ ViewOfTree /\ ViewOfContent
<1>1. ASSUME stack \in Seq(Levels)
      PROVE  /\ IsSeq(Opened) /\ Len(Opened) = Len(stack)
             /\ \A k \in 1..Len(stack) : Opened[k] = stack[k].td
  <2>1. Len(stack) \in Nat /\ DOMAIN stack = 1..Len(stack)
    BY <1>1, LenProperties
  <2>2. Opened = [k \in 1..Len(stack) |-> stack[k].td]
    BY <2>1 DEF Opened
  <2>3. Opened = [k \in 1..Len(stack) |-> Opened[k]]
    BY <2>2
  <2>4. IsSeq(Opened) /\ Len(Opened) = Len(stack)
    BY <2>1, <2>3, FunctionIsSeq
  <2>. QED BY <2>2, <2>4
<1>2. ASSUME IsSeq(node)
      PROVE  /\ IsSeq(Tree) /\ Len(Tree) = Len(node) /\ DOMAIN Tree = DOMAIN node
             /\ \A i \in 1..Len(node) :
                  Tree[i] = [name |-> node[i].name, attrs |-> node[i].attrs,
                             parent |-> node[i].parent, content |-> Content(i)]
  <2>1. Len(node) \in Nat /\ DOMAIN node = 1..Len(node)
    BY <1>2, SeqFacts
  <2>2. Tree = [i \in 1..Len(node) |->
                  [name |-> node[i].name, attrs |-> node[i].attrs,
                   parent |-> node[i].parent, content |-> Content(i)]]
    BY <2>1 DEF Tree
  <2>3. Tree = [i \in 1..Len(node) |-> Tree[i]]
    BY <2>2
  <2>4. IsSeq(Tree) /\ Len(Tree) = Len(node)
    BY <2>1, <2>3, FunctionIsSeq
  <2>. QED BY <2>1, <2>2, <2>4
<1>3. ASSUME OwnNodes, NEW k \in DOMAIN stack
      PROVE  Content(stack[k].td) = ItemsOf(stack[k], vChild, vText, vOrder)
  <2>1. LevelsOf(stack[k].td) = {k}
    BY <1>3 DEF OwnNodes, LevelsOf
  <2>2. Content(stack[k].td) = LevelItems(stack[CHOOSE j \in LevelsOf(stack[k].td) : TRUE])
    BY <2>1 DEF Content
  <2>3. Content(stack[k].td) = LevelItems(stack[k])
    BY <2>1, <2>2
  <2>. QED BY <2>3 DEF LevelItems, ItemsOf
<1>4. ASSUME NEW i, \A k \in DOMAIN stack : stack[k].td # i
      PROVE  Content(i) = Items(node[i].pOrder, node[i].pChild, node[i].pText)
  <2>1. LevelsOf(i) = {}
    BY <1>4 DEF LevelsOf
  <2>. QED BY <2>1 DEF Content
<1>5. ViewOfStack /\ ViewOfTree
  BY <1>1, <1>2 DEF ViewOfStack, ViewOfTree
<1>6. ViewOfContent
  BY <1>3, <1>4 DEF ViewOfContent
<1>. QED BY <1>5, <1>6

(* The same of the state after a step.                                     *)
LEMMA ViewsAfter == ViewOfStack' /\ ViewOfTree' /\ ViewOfContent'
BY Views, PTL

(* The innermost level.                                                    *)
LEMMA TopView ==
  ASSUME DInv, stack # <<>>
  PROVE  /\ Len(stack) \in Nat \ {0} /\ DOMAIN stack = 1..Len(stack)
         /\ Len(stack) \in DOMAIN stack /\ Top = stack[Len(stack)] /\ Top \in Levels
         /\ Top.td \in DOMAIN node /\ Unfilled(node[Top.td])
         /\ FitsIn(Top, vChild, vText, vOrder)
         /\ Opened # <<>> /\ Abstract!Top = Top.td
         /\ Tree[Top.td].name = node[Top.td].name
<1>1. /\ Len(stack) \in Nat \ {0} /\ DOMAIN stack = 1..Len(stack)
      /\ Len(stack) \in DOMAIN stack /\ Top = stack[Len(stack)] /\ Top \in Levels
  BY TopFacts DEF DInv, Top
<1>2. Top.td \in DOMAIN node /\ Unfilled(node[Top.td])
  BY <1>1 DEF DInv, OwnNodes
<1>3. FitsIn(Top, vChild, vText, vOrder)
  BY <1>1 DEF DInv, Fit
<1>4. IsSeq(Opened) /\ Len(Opened) = Len(stack) /\ Opened[Len(stack)] = Top.td
  BY <1>1, Views DEF DInv, ViewOfStack
<1>5. Opened # <<>>
  BY <1>1, <1>4, EmptySeq
<1>6. Abstract!Top = Top.td
  BY <1>4 DEF Abstract!Top, Abstract!Last, Opened
<1>7. Tree[Top.td].name = node[Top.td].name
  <2>1. DOMAIN node = 1..Len(node) /\ IsSeq(node)
    BY SeqFacts DEF DInv, Nodes
  <2>. QED BY <1>2, <2>1, Views DEF ViewOfTree
<1>. QED BY <1>1, <1>2, <1>3, <1>5, <1>6, <1>7

-----------------------------------------------------------------------------
(* A level ends.                                                           *)

LEMMA LevelEnds ==
  ASSUME DInv, stack # <<>>, node' = CREATE_NEW_NODE, stack' = Front(stack),
         UNCHANGED <<vChild, vText, vOrder>>
  PROVE  DInv' /\ Tree' = Tree /\ Opened' = Front(Opened)
<1>. DEFINE n == Len(stack)
            nd == [node[Top.td] EXCEPT
                     !.pChild = Slice(vChild, Top.iChild, Top.lastChild),
                     !.pText = Slice(vText, Top.iText, Top.lastText),
                     !.pOrder = Slice(vOrder, Top.iOrder, Top.lastOrder)]
<1>1. /\ n \in Nat \ {0} /\ DOMAIN stack = 1..n /\ n \in DOMAIN stack /\ Top = stack[n]
      /\ Top \in Levels /\ Top.td \in DOMAIN node
  BY TopView
<1>2. stack \in Seq(Levels) /\ IsSeq(node) /\ Nodes /\ OwnNodes /\ Apart /\ Fit /\ Arrays
  BY DEF DInv, Nodes
<1>3. Len(node) \in Nat /\ DOMAIN node = 1..Len(node) /\ node = [i \in 1..Len(node) |-> node[i]]
  BY <1>2, SeqFacts
<1>4. node' = [node EXCEPT ![Top.td] = nd]
  BY DEF CREATE_NEW_NODE
<1>5. /\ stack' \in Seq(Levels) /\ DOMAIN stack' = 1..(n - 1) /\ Len(stack') = n - 1
      /\ \A k \in 1..(n - 1) : stack'[k] = stack[k]
  BY <1>1, <1>2, FrontOfStack, LenProperties
<1>6. IsNode(nd) /\ nd.name = node[Top.td].name /\ nd.attrs = node[Top.td].attrs
      /\ nd.parent = node[Top.td].parent
      /\ Items(nd.pOrder, nd.pChild, nd.pText) = ItemsOf(Top, vChild, vText, vOrder)
  <2>1. IsNode(node[Top.td])
    BY <1>1, <1>2 DEF Nodes
  <2>2. nd = [name |-> node[Top.td].name, attrs |-> node[Top.td].attrs,
              parent |-> node[Top.td].parent,
              pChild |-> Slice(vChild, Top.iChild, Top.lastChild),
              pText |-> Slice(vText, Top.iText, Top.lastText),
              pOrder |-> Slice(vOrder, Top.iOrder, Top.lastOrder)]
    <3>. DEFINE m == node[Top.td]
    <3>1. m = [name |-> m.name, attrs |-> m.attrs, parent |-> m.parent,
               pChild |-> m.pChild, pText |-> m.pText, pOrder |-> m.pOrder]
      BY <2>1 DEF IsNode
    <3>2. nd = [m EXCEPT !.pChild = Slice(vChild, Top.iChild, Top.lastChild),
                         !.pText = Slice(vText, Top.iText, Top.lastText),
                         !.pOrder = Slice(vOrder, Top.iOrder, Top.lastOrder)]
      OBVIOUS
    <3>. HIDE DEF m, nd
    <3>3. nd = [name |-> m.name, attrs |-> m.attrs, parent |-> m.parent,
              pChild |-> Slice(vChild, Top.iChild, Top.lastChild),
              pText |-> Slice(vText, Top.iText, Top.lastText),
              pOrder |-> Slice(vOrder, Top.iOrder, Top.lastOrder)]
      BY <3>1, <3>2
    <3>. QED BY <3>3 DEF m
  <2>. HIDE DEF nd
  <2>. QED BY <2>2 DEF IsNode, ItemsOf
<1>. HIDE DEF nd
<1>7. /\ IsSeq(node') /\ Len(node') = Len(node) /\ DOMAIN node' = DOMAIN node
      /\ node'[Top.td] = nd
      /\ \A i \in DOMAIN node : i # Top.td => node'[i] = node[i]
  <2>1. node' = [i \in 1..Len(node) |-> node'[i]]
    BY <1>3, <1>4
  <2>2. IsSeq(node') /\ Len(node') = Len(node)
    BY <1>3, <2>1, FunctionIsSeq
  <2>. QED BY <1>1, <1>3, <1>4, <2>1, <2>2
<1>8. \A k \in 1..(n - 1) : stack[k].td # Top.td /\ k \in DOMAIN stack
  BY <1>1, <1>2 DEF OwnNodes
<1>9. DInv'
  <2>1. Arrays' /\ Fit'
    <3>1. Arrays'
      BY <1>2 DEF Arrays
    <3>2. \A k \in 1..(n - 1) : FitsIn(stack[k], vChild, vText, vOrder)
      BY <1>2, <1>8 DEF Fit
    <3>. QED BY <1>5, <3>1, <3>2 DEF Fit
  <2>2. Nodes'
    BY <1>2, <1>6, <1>7 DEF Nodes
  <2>3. OwnNodes'
    <3>1. ASSUME NEW k \in DOMAIN stack'
          PROVE  /\ k \in DOMAIN stack /\ stack'[k] = stack[k]
                 /\ stack'[k].td \in DOMAIN node' /\ Unfilled(node'[stack'[k].td])
      BY <1>2, <1>5, <1>7, <1>8 DEF OwnNodes
    <3>2. \A j, k \in DOMAIN stack' : stack'[j].td = stack'[k].td => j = k
      BY <1>2, <3>1 DEF OwnNodes
    <3>. QED BY <3>1, <3>2 DEF OwnNodes, Unfilled
  <2>4. Apart'
    BY <1>2, <1>5, <1>8 DEF Apart
  <2>. QED BY <1>5, <2>1, <2>2, <2>3, <2>4 DEF DInv
<1>10. ASSUME NEW i \in 1..Len(node) PROVE Content(i)' = Content(i)
  <2>1. CASE i = Top.td
    <3>1. Content(i) = ItemsOf(Top, vChild, vText, vOrder)
      BY <1>1, <1>2, <2>1, Views DEF ViewOfContent
    <3>2. \A k \in DOMAIN stack' : stack'[k].td # i
      BY <1>5, <1>8, <2>1
    <3>3. Content(i)' = Items(node'[i].pOrder, node'[i].pChild, node'[i].pText)
      BY <1>9, <3>2, ViewsAfter DEF ViewOfContent, DInv
    <3>. QED BY <1>6, <1>7, <2>1, <3>1, <3>3
  <2>2. ASSUME i # Top.td, NEW k \in DOMAIN stack', stack'[k].td = i
        PROVE  Content(i)' = Content(i)
    <3>1. k \in DOMAIN stack /\ stack'[k] = stack[k]
      BY <1>5, <1>8, <2>2
    <3>2. Content(i) = ItemsOf(stack[k], vChild, vText, vOrder)
      BY <1>2, <2>2, <3>1, Views DEF ViewOfContent
    <3>3. Content(i)' = ItemsOf(stack'[k], vChild', vText', vOrder')
      BY <1>9, <2>2, ViewsAfter DEF ViewOfContent, DInv
    <3>. QED BY <3>1, <3>2, <3>3
  <2>3. CASE i # Top.td /\ \A k \in DOMAIN stack' : stack'[k].td # i
    <3>1. ASSUME NEW k \in DOMAIN stack PROVE stack[k].td # i
      <4>1. k = n \/ k \in 1..(n - 1)
        BY <1>1
      <4>. QED BY <1>1, <1>5, <2>3, <4>1
    <3>2. Content(i) = Items(node[i].pOrder, node[i].pChild, node[i].pText)
      BY <1>2, <3>1, Views DEF ViewOfContent
    <3>3. Content(i)' = Items(node'[i].pOrder, node'[i].pChild, node'[i].pText)
      BY <1>9, <2>3, ViewsAfter DEF ViewOfContent, DInv
    <3>. QED BY <1>3, <1>7, <2>3, <3>2, <3>3
  <2>. QED BY <2>1, <2>2, <2>3
<1>11. Tree' = Tree
  <2>1. /\ IsSeq(Tree) /\ Len(Tree) = Len(node)
        /\ \A i \in 1..Len(node) :
             Tree[i] = [name |-> node[i].name, attrs |-> node[i].attrs,
                        parent |-> node[i].parent, content |-> Content(i)]
    BY <1>2, Views DEF ViewOfTree
  <2>2. /\ IsSeq(Tree') /\ Len(Tree') = Len(node)
        /\ \A i \in 1..Len(node) :
             Tree'[i] = [name |-> node'[i].name, attrs |-> node'[i].attrs,
                         parent |-> node'[i].parent, content |-> Content(i)']
    BY <1>7, ViewsAfter DEF ViewOfTree
  <2>3. \A i \in 1..Len(node) :
           /\ node'[i].name = node[i].name /\ node'[i].attrs = node[i].attrs
           /\ node'[i].parent = node[i].parent
    BY <1>3, <1>6, <1>7
  <2>4. \A i \in 1..Len(node) : Tree'[i] = Tree[i]
    BY <1>10, <2>1, <2>2, <2>3
  <2>. QED BY <2>1, <2>2, <2>4, SeqSame
<1>12. Opened' = Front(Opened)
  <2>1. IsSeq(Opened) /\ Len(Opened) = n /\ \A k \in 1..n : Opened[k] = stack[k].td
    BY <1>2, Views DEF ViewOfStack
  <2>2. IsSeq(Opened') /\ Len(Opened') = n - 1 /\ \A k \in 1..(n - 1) : Opened'[k] = stack'[k].td
    BY <1>5, ViewsAfter DEF ViewOfStack
  <2>3. Opened # <<>>
    BY TopView
  <2>4. /\ IsSeq(Front(Opened)) /\ Len(Front(Opened)) = n - 1
        /\ \A k \in 1..(n - 1) : Front(Opened)[k] = Opened[k]
    BY <2>1, <2>3, FrontFacts
  <2>5. \A k \in 1..(n - 1) : Opened'[k] = Front(Opened)[k]
    BY <1>1, <1>5, <2>1, <2>2, <2>4
  <2>. QED BY <2>2, <2>4, <2>5, SeqSame
<1>. QED BY <1>9, <1>11, <1>12

LEMMA NoItems == Items(<<>>, <<>>, <<>>) = <<>>
<1>. DEFINE s == Items(<<>>, <<>>, <<>>)
<1>1. s = [k \in 1..0 |-> s[k]]
  BY DEF Items
<1>. HIDE DEF s
<1>2. IsSeq(s) /\ Len(s) = 0
  BY <1>1, FunctionIsSeq
<1>3. s = <<>>
  BY <1>2, EmptySeq DEF IsSeq
<1>. QED BY <1>3 DEF s

(* All levels end at once, and leave their nodes as they are.              *)
LEMMA LevelsDropped ==
  ASSUME DInv, stack' = <<>>, UNCHANGED <<node, vChild, vText, vOrder>>
  PROVE  /\ DInv' /\ Opened' = <<>>
         /\ Tree' = [i \in DOMAIN Tree |->
                       IF i \in Abstract!ToSet(Opened) THEN [Tree[i] EXCEPT !.content = <<>>]
                       ELSE Tree[i]]
<1>1. stack \in Seq(Levels) /\ IsSeq(node) /\ Nodes /\ OwnNodes /\ Arrays
  BY DEF DInv, Nodes
<1>2. stack' \in Seq(Levels) /\ DOMAIN stack' = {} /\ Len(stack') = 0
  BY EmptySeq
<1>3. OwnNodes' /\ Apart' /\ Fit'
  BY <1>2 DEF OwnNodes, Apart, Fit
<1>4. Nodes' /\ Arrays'
  BY <1>1 DEF Nodes, Arrays
<1>5. DInv'
  BY <1>2, <1>3, <1>4 DEF DInv
<1>6. Opened' = <<>>
  <2>1. IsSeq(Opened') /\ Len(Opened') = 0
    BY <1>2, ViewsAfter DEF ViewOfStack
  <2>. QED BY <2>1, EmptySeq DEF IsSeq
<1>7. \A i : i \in Abstract!ToSet(Opened) <=> \E k \in DOMAIN stack : stack[k].td = i
  BY DEF Abstract!ToSet, Opened
<1>. DEFINE fit(i) == [name |-> node[i].name, attrs |-> node[i].attrs,
                       parent |-> node[i].parent, content |-> Content(i)]
            bare(i) == [name |-> node[i].name, attrs |-> node[i].attrs,
                        parent |-> node[i].parent, content |-> <<>>]
<1>8. DOMAIN node = 1..Len(node) /\ DOMAIN Tree = DOMAIN node /\ DOMAIN Tree' = DOMAIN node
  BY <1>1, SeqFacts, Views, ViewsAfter DEF ViewOfTree
<1>9. \A i \in DOMAIN node : Tree[i] = fit(i)
  BY <1>1, <1>8, Views DEF ViewOfTree
<1>10. \A i \in DOMAIN node :
         Tree'[i] = [name |-> node[i].name, attrs |-> node[i].attrs,
                     parent |-> node[i].parent, content |-> Content(i)']
  BY <1>1, <1>8, ViewsAfter DEF ViewOfTree
<1>11. \A i : Content(i)' = Items(node[i].pOrder, node[i].pChild, node[i].pText)
  BY <1>2, <1>3, ViewsAfter DEF ViewOfContent
<1>12. ASSUME NEW i, NEW k \in DOMAIN stack, stack[k].td = i
       PROVE  Content(i)' = <<>>
  BY <1>1, <1>12, <1>11, NoItems DEF OwnNodes, Unfilled
<1>13. ASSUME NEW i \in DOMAIN node, \A k \in DOMAIN stack : stack[k].td # i
       PROVE  Content(i)' = Content(i)
  BY <1>1, <1>11, <1>13, Views DEF ViewOfContent
<1>14. ASSUME NEW i \in DOMAIN node
       PROVE  Tree'[i] = IF i \in Abstract!ToSet(Opened) THEN [Tree[i] EXCEPT !.content = <<>>]
                         ELSE Tree[i]
  <2>1. CASE i \in Abstract!ToSet(Opened)
    <3>1. Tree'[i] = bare(i)
      BY <1>7, <1>10, <1>12, <2>1
    <3>2. [fit(i) EXCEPT !.content = <<>>] = bare(i)
      OBVIOUS
    <3>. QED BY <1>9, <2>1, <3>1, <3>2
  <2>2. CASE i \notin Abstract!ToSet(Opened)
    BY <1>7, <1>9, <1>10, <1>13, <2>2
  <2>. QED BY <2>1, <2>2
<1>15. Tree' = [i \in DOMAIN Tree |-> Tree'[i]]
  <2>1. IsSeq(Tree')
    BY <1>1, ViewsAfter DEF ViewOfTree
  <2>. QED BY <1>8, <2>1, SeqFacts
<1>. QED BY <1>5, <1>6, <1>8, <1>14, <1>15

-----------------------------------------------------------------------------
(* The innermost level writes one entry behind what it owns: it has one    *)
(* item more, and all the levels around it have the items they had.        *)
LEMMA OneEntryMore ==
  ASSUME DInv, stack # <<>>, NEW m \in Levels,
         IsSeq(vChild'), IsSeq(vText'), IsSeq(vOrder'),
         Grows(Top, vChild, vText, vOrder, m, vChild', vText', vOrder')
  PROVE  /\ FitsIn(m, vChild', vText', vOrder')
         /\ ItemsOf(m, vChild', vText', vOrder')
              = Append(ItemsOf(Top, vChild, vText, vOrder),
                       Entry(vOrder'[m.lastOrder], m, vChild', vText'))
         /\ \A k \in 1..(Len(stack) - 1) :
              /\ FitsIn(stack[k], vChild', vText', vOrder') /\ Behind(stack[k], m)
              /\ ItemsOf(stack[k], vChild', vText', vOrder')
                   = ItemsOf(stack[k], vChild, vText, vOrder)
<1>. DEFINE n == Len(stack)
<1>1. /\ n \in Nat \ {0} /\ DOMAIN stack = 1..n /\ n \in DOMAIN stack /\ Top = stack[n]
      /\ Top \in Levels /\ FitsIn(Top, vChild, vText, vOrder)
  BY TopView
<1>2. IsSeq(vChild) /\ IsSeq(vText) /\ IsSeq(vOrder) /\ stack \in Seq(Levels) /\ Apart /\ Fit
  BY DEF DInv, Arrays
<1>3. /\ FitsIn(m, vChild', vText', vOrder')
      /\ ItemsOf(m, vChild', vText', vOrder')
           = Append(ItemsOf(Top, vChild, vText, vOrder),
                    Entry(vOrder'[m.lastOrder], m, vChild', vText'))
  BY <1>1, <1>2, ItemAdded
<1>4. ASSUME NEW k \in 1..(n - 1)
      PROVE  /\ FitsIn(stack[k], vChild', vText', vOrder') /\ Behind(stack[k], m)
             /\ ItemsOf(stack[k], vChild', vText', vOrder')
                  = ItemsOf(stack[k], vChild, vText, vOrder)
  <2>. DEFINE l == stack[k]
  <2>1. k \in DOMAIN stack /\ k < n
    BY <1>1
  <2>2. l \in Levels
    BY <1>1, <1>2, <2>1, ElementOfSeq
  <2>3. FitsIn(l, vChild, vText, vOrder)
    BY <1>2, <2>1 DEF Fit
  <2>4. Behind(l, Top)
    BY <1>1, <1>2, <2>1 DEF Apart
  <2>. HIDE DEF l
  <2>5. /\ l.lastChild \in Nat /\ l.lastText \in Nat /\ l.lastOrder \in Nat
        /\ Top.iChild \in Nat /\ Top.iText \in Nat /\ Top.iOrder \in Nat
        /\ Top.lastChild \in Nat /\ Top.lastText \in Nat /\ Top.lastOrder \in Nat
    BY <1>1, <2>2 DEF Levels
  <2>6. l.lastChild <= Top.lastChild /\ l.lastText <= Top.lastText /\ l.lastOrder <= Top.lastOrder
    <3>1. /\ l.lastChild <= Top.iChild /\ Top.iChild <= Top.lastChild
          /\ l.lastText <= Top.iText /\ Top.iText <= Top.lastText
          /\ l.lastOrder <= Top.iOrder /\ Top.iOrder <= Top.lastOrder
      BY <1>1, <2>4 DEF Behind, FitsIn
    <3>. QED BY ONLY <2>5, <3>1
  <2>7. /\ 1..l.lastChild \subseteq 1..Top.lastChild
        /\ 1..l.lastText \subseteq 1..Top.lastText
        /\ 1..l.lastOrder \subseteq 1..Top.lastOrder
    BY ONLY <2>5, <2>6
  <2>8. /\ FitsIn(l, vChild', vText', vOrder')
        /\ ItemsOf(l, vChild', vText', vOrder') = ItemsOf(l, vChild, vText, vOrder)
    <3>1. /\ \A j \in 1..l.lastChild : vChild'[j] = vChild[j]
          /\ \A j \in 1..l.lastText : vText'[j] = vText[j]
          /\ \A j \in 1..l.lastOrder : vOrder'[j] = vOrder[j]
          /\ Len(vChild') >= Len(vChild) /\ Len(vText') >= Len(vText)
          /\ Len(vOrder') >= Len(vOrder)
      BY <2>7 DEF Grows
    <3>. QED BY <1>2, <2>2, <2>3, <3>1, ItemsKept
  <2>9. Behind(l, m)
    BY <2>4 DEF Behind, Grows
  <2>. QED BY <2>8, <2>9 DEF l
<1>. QED BY <1>3, <1>4

(* Of the nodes there were before, only the innermost open one changes: it *)
(* has one item more.                                                      *)
LEMMA ContentAdded ==
  ASSUME DInv, stack # <<>>, DInv', NEW item, NEW i \in 1..Len(node),
         Len(stack') >= Len(stack),
         \A k \in 1..Len(stack) : stack'[k].td = stack[k].td,
         \A k \in (Len(stack) + 1)..Len(stack') : stack'[k].td \notin DOMAIN node,
         node'[i] = node[i],
         \A k \in 1..(Len(stack) - 1) :
           ItemsOf(stack'[k], vChild', vText', vOrder') = ItemsOf(stack[k], vChild, vText, vOrder),
         ItemsOf(stack'[Len(stack)], vChild', vText', vOrder')
           = Append(ItemsOf(Top, vChild, vText, vOrder), item)
  PROVE  Content(i)' = IF i = Top.td THEN Append(Content(i), item) ELSE Content(i)
<1>. DEFINE n == Len(stack)
<1>1. /\ n \in Nat \ {0} /\ DOMAIN stack = 1..n /\ n \in DOMAIN stack /\ Top = stack[n]
  BY TopView
<1>2. stack' \in Seq(Levels) /\ IsSeq(node)
  BY DEF DInv, Nodes
<1>3. Len(stack') \in Nat /\ DOMAIN stack' = 1..Len(stack') /\ DOMAIN node = 1..Len(node)
  BY <1>2, LenProperties, SeqFacts
<1>4. ASSUME NEW k \in DOMAIN stack, stack[k].td = i
      PROVE  /\ Content(i) = ItemsOf(stack[k], vChild, vText, vOrder)
             /\ Content(i)' = ItemsOf(stack'[k], vChild', vText', vOrder')
  <2>1. k \in DOMAIN stack' /\ stack'[k].td = i
    BY <1>1, <1>3, <1>4
  <2>2. Content(i) = ItemsOf(stack[k], vChild, vText, vOrder)
    BY <1>4, Views DEF ViewOfContent, DInv
  <2>3. Content(i)' = ItemsOf(stack'[k], vChild', vText', vOrder')
    BY <2>1, ViewsAfter DEF ViewOfContent, DInv
  <2>. QED BY <2>2, <2>3
<1>5. \A j, k \in DOMAIN stack : stack[j].td = stack[k].td => j = k
  BY DEF DInv, OwnNodes
<1>6. CASE i = Top.td
  BY <1>1, <1>4, <1>6
<1>7. ASSUME NEW k \in DOMAIN stack, stack[k].td = i, i # Top.td
      PROVE  Content(i)' = Content(i)
  <2>1. k \in 1..(n - 1)
    BY <1>1, <1>7
  <2>. QED BY <1>4, <1>7, <2>1
<1>8. ASSUME \A k \in DOMAIN stack : stack[k].td # i
      PROVE  Content(i)' = Content(i) /\ i # Top.td
  <2>1. ASSUME NEW k \in DOMAIN stack' PROVE stack'[k].td # i
    <3>1. k \in 1..n \/ k \in (n + 1)..Len(stack')
      BY <1>1, <1>3
    <3>. QED BY <1>1, <1>3, <1>8, <3>1
  <2>2. Content(i) = Items(node[i].pOrder, node[i].pChild, node[i].pText)
    BY <1>8, Views DEF ViewOfContent, DInv
  <2>3. Content(i)' = Items(node'[i].pOrder, node'[i].pChild, node'[i].pText)
    BY <2>1, ViewsAfter DEF ViewOfContent, DInv
  <2>. QED BY <1>1, <1>8, <2>2, <2>3
<1>. QED BY <1>6, <1>7, <1>8

LEMMA NewContent ==
  ASSUME NEW a, NEW b, NEW c, NEW d, NEW e, NEW r,
         r = [name |-> a, attrs |-> b, parent |-> c, content |-> d]
  PROVE  /\ [r EXCEPT !.content = e] = [name |-> a, attrs |-> b, parent |-> c, content |-> e]
         /\ r.content = d
OBVIOUS

LEMMA TreeAdded ==
  ASSUME DInv, stack # <<>>, DInv', NEW item,
         Len(node') >= Len(node),
         \A i \in 1..Len(node) :
           /\ node'[i] = node[i]
           /\ Content(i)' = IF i = Top.td THEN Append(Content(i), item) ELSE Content(i)
  PROVE  /\ IsSeq(Abstract!Add(item)) /\ Len(Abstract!Add(item)) = Len(node)
         /\ \A i \in 1..Len(node) : Tree'[i] = Abstract!Add(item)[i]
<1>. DEFINE x == Top.td
            fit(i) == [name |-> node[i].name, attrs |-> node[i].attrs,
                       parent |-> node[i].parent, content |-> Content(i)]
            full == [name |-> node[x].name, attrs |-> node[x].attrs,
                     parent |-> node[x].parent, content |-> Append(Content(x), item)]
            more == Abstract!Add(item)
<1>1. x \in DOMAIN node /\ Abstract!Top = x
  BY TopView
<1>2. IsSeq(node) /\ IsSeq(node') /\ Len(node) \in Nat /\ Len(node') \in Nat
      /\ DOMAIN node = 1..Len(node)
  BY SeqFacts DEF DInv, Nodes
<1>3. Tree = [i \in 1..Len(node) |-> Tree[i]] /\ \A i \in 1..Len(node) : Tree[i] = fit(i)
  <2>1. /\ IsSeq(Tree) /\ Len(Tree) = Len(node)
        /\ \A i \in 1..Len(node) : Tree[i] = fit(i)
    BY <1>2, Views DEF ViewOfTree
  <2>. QED BY <2>1, SeqFacts
<1>4. \A i \in 1..Len(node) :
         Tree'[i] = [name |-> node[i].name, attrs |-> node[i].attrs,
                     parent |-> node[i].parent, content |-> Content(i)']
  <2>1. \A i \in 1..Len(node') :
          Tree'[i] = [name |-> node'[i].name, attrs |-> node'[i].attrs,
                      parent |-> node'[i].parent, content |-> Content(i)']
    BY <1>2, ViewsAfter DEF ViewOfTree
  <2>2. \A i \in 1..Len(node) : i \in 1..Len(node')
    BY <1>2
  <2>. QED BY <2>1, <2>2
<1>5. more = [Tree EXCEPT ![x] = full]
  <2>1. more = [Tree EXCEPT ![x].content = Append(@, item)]
    BY <1>1 DEF Abstract!Add
  <2>2. more = [Tree EXCEPT ![x] = [Tree[x] EXCEPT !.content = Append(Tree[x].content, item)]]
    BY <2>1
  <2>3. Tree[x] = fit(x)
    BY <1>1, <1>2, <1>3
  <2>. HIDE DEF x
  <2>4. Tree[x].content = Content(x)
    BY <2>3, NewContent
  <2>5. [Tree[x] EXCEPT !.content = Append(Content(x), item)] = full
    BY <2>3, NewContent, SMTT(30)
  <2>. QED BY <2>2, <2>4, <2>5
<1>. HIDE DEF more
<1>6. ASSUME NEW i \in 1..Len(node) PROVE Tree'[i] = more[i]
  <2>1. CASE i = x
    BY <1>3, <1>4, <1>5, <2>1
  <2>2. CASE i # x
    <3>1. more[i] = Tree[i]
      <4>1. i \in DOMAIN Tree
        BY <1>3
      <4>. HIDE DEF x
      <4>. QED BY <1>5, <2>2, <4>1
    <3>2. Tree[i] = fit(i)
      BY <1>3
    <3>3. Tree'[i] = fit(i)
      BY <1>4, <2>2
    <3>. QED BY ONLY <3>1, <3>2, <3>3
  <2>. QED BY <2>1, <2>2
<1>7. IsSeq(more) /\ Len(more) = Len(node)
  <2>1. more = [i \in 1..Len(node) |-> more[i]]
    BY <1>3, <1>5
  <2>. QED BY <1>2, <2>1, FunctionIsSeq
<1>. QED BY <1>6, <1>7 DEF more

-----------------------------------------------------------------------------
(* The tokens, one after the other.                                        *)

LEMMA TopNumbers ==
  ASSUME DInv, stack # <<>>
  PROVE  /\ Top.td \in Nat /\ Top.iChild \in Nat /\ Top.iText \in Nat /\ Top.iOrder \in Nat
         /\ Top.lastChild \in Nat /\ Top.lastText \in Nat /\ Top.lastOrder \in Nat
         /\ Len(vChild) \in Nat /\ Len(vText) \in Nat /\ Len(vOrder) \in Nat
         /\ Top.iChild <= Top.lastChild /\ Top.lastChild <= Len(vChild)
         /\ Top.iText <= Top.lastText /\ Top.lastText <= Len(vText)
         /\ Top.iOrder <= Top.lastOrder /\ Top.lastOrder <= Len(vOrder)
         /\ IsSeq(vChild) /\ IsSeq(vText) /\ IsSeq(vOrder)
<1>1. Top \in Levels /\ FitsIn(Top, vChild, vText, vOrder)
  BY TopView
<1>2. IsSeq(vChild) /\ IsSeq(vText) /\ IsSeq(vOrder)
  BY DEF DInv, Arrays
<1>. QED BY <1>1, <1>2, SeqFacts DEF Levels, FitsIn

LEMMA LevelRecord ==
  ASSUME NEW a, NEW b, NEW c, NEW d, NEW e, NEW f, NEW g, NEW x, NEW r,
         r = [td |-> a, iChild |-> b, iText |-> c, iOrder |-> d,
              lastChild |-> e, lastText |-> f, lastOrder |-> g]
  PROVE  /\ [r EXCEPT !.lastChild = x]
              = [td |-> a, iChild |-> b, iText |-> c, iOrder |-> d,
                 lastChild |-> x, lastText |-> f, lastOrder |-> g]
         /\ [r EXCEPT !.lastText = x]
              = [td |-> a, iChild |-> b, iText |-> c, iOrder |-> d,
                 lastChild |-> e, lastText |-> x, lastOrder |-> g]
         /\ [r EXCEPT !.lastOrder = x]
              = [td |-> a, iChild |-> b, iText |-> c, iOrder |-> d,
                 lastChild |-> e, lastText |-> f, lastOrder |-> x]
OBVIOUS

LEMMA LevelGrown ==
  ASSUME NEW l \in Levels
  PROVE  /\ [l EXCEPT !.lastText = @ + 1, !.lastOrder = @ + 1]
              = [td |-> l.td, iChild |-> l.iChild, iText |-> l.iText, iOrder |-> l.iOrder,
                 lastChild |-> l.lastChild, lastText |-> l.lastText + 1,
                 lastOrder |-> l.lastOrder + 1]
         /\ [l EXCEPT !.lastChild = @ + 1, !.lastOrder = @ + 1]
              = [td |-> l.td, iChild |-> l.iChild, iText |-> l.iText, iOrder |-> l.iOrder,
                 lastChild |-> l.lastChild + 1, lastText |-> l.lastText,
                 lastOrder |-> l.lastOrder + 1]
<1>. DEFINE t == [l EXCEPT !.lastText = l.lastText + 1]
            c == [l EXCEPT !.lastChild = l.lastChild + 1]
<1>1. l = [td |-> l.td, iChild |-> l.iChild, iText |-> l.iText, iOrder |-> l.iOrder,
           lastChild |-> l.lastChild, lastText |-> l.lastText, lastOrder |-> l.lastOrder]
  BY DEF Levels
<1>2. t = [td |-> l.td, iChild |-> l.iChild, iText |-> l.iText, iOrder |-> l.iOrder,
           lastChild |-> l.lastChild, lastText |-> l.lastText + 1, lastOrder |-> l.lastOrder]
  BY <1>1, LevelRecord
<1>3. c = [td |-> l.td, iChild |-> l.iChild, iText |-> l.iText, iOrder |-> l.iOrder,
           lastChild |-> l.lastChild + 1, lastText |-> l.lastText, lastOrder |-> l.lastOrder]
  BY <1>1, LevelRecord
<1>4. /\ [l EXCEPT !.lastText = @ + 1, !.lastOrder = @ + 1]
           = [t EXCEPT !.lastOrder = l.lastOrder + 1]
      /\ [l EXCEPT !.lastChild = @ + 1, !.lastOrder = @ + 1]
           = [c EXCEPT !.lastOrder = l.lastOrder + 1]
  OBVIOUS
<1>. HIDE DEF t, c
<1>5. [t EXCEPT !.lastOrder = l.lastOrder + 1]
        = [td |-> l.td, iChild |-> l.iChild, iText |-> l.iText, iOrder |-> l.iOrder,
           lastChild |-> l.lastChild, lastText |-> l.lastText + 1, lastOrder |-> l.lastOrder + 1]
  BY <1>2, LevelRecord
<1>6. [c EXCEPT !.lastOrder = l.lastOrder + 1]
        = [td |-> l.td, iChild |-> l.iChild, iText |-> l.iText, iOrder |-> l.iOrder,
           lastChild |-> l.lastChild + 1, lastText |-> l.lastText, lastOrder |-> l.lastOrder + 1]
  BY <1>3, LevelRecord
<1>. QED BY <1>4, <1>5, <1>6

LEMMA TextWritten ==
  ASSUME DInv, stack # <<>>, NEW t, OnText(t)
  PROVE  DInv' /\ Abstract!Write(t)
<1>. DEFINE n == Len(stack)
            m == [Top EXCEPT !.lastText = @ + 1, !.lastOrder = @ + 1]
            e == <<"text", Top.lastText - Top.iText>>
            x == trimText(t.content)
<1>1. /\ n \in Nat \ {0} /\ DOMAIN stack = 1..n /\ n \in DOMAIN stack /\ Top = stack[n]
      /\ Top \in Levels /\ Top.td \in DOMAIN node
  BY TopView
<1>2. /\ vOrder' = Put(vOrder, Top.lastOrder, e) /\ vText' = Put(vText, Top.lastText, x)
      /\ stack' = Append(Front(stack), m)
      /\ node' = node /\ vChild' = vChild /\ ret' = ret /\ t.tok = "Text" /\ ~t.white
  BY DEF OnText
<1>3. /\ m \in Levels /\ m.td = Top.td /\ m.iChild = Top.iChild /\ m.iText = Top.iText
      /\ m.iOrder = Top.iOrder /\ m.lastChild = Top.lastChild
      /\ m.lastText = Top.lastText + 1 /\ m.lastOrder = Top.lastOrder + 1
  <2>1. m = [td |-> Top.td, iChild |-> Top.iChild, iText |-> Top.iText, iOrder |-> Top.iOrder,
             lastChild |-> Top.lastChild, lastText |-> Top.lastText + 1,
             lastOrder |-> Top.lastOrder + 1]
    BY <1>1, LevelGrown
  <2>. HIDE DEF m
  <2>. QED BY <2>1, TopNumbers DEF Levels
<1>. HIDE DEF m
<1>4. /\ IsSeq(vText') /\ Len(vText') >= Len(vText) /\ Len(vText') >= m.lastText
      /\ vText'[m.lastText] = x
      /\ \A k \in 1..Top.lastText : vText'[k] = vText[k]
  BY <1>2, <1>3, TopNumbers, PutFacts, SMTT(30)
<1>5. /\ IsSeq(vOrder') /\ Len(vOrder') >= Len(vOrder) /\ Len(vOrder') >= m.lastOrder
      /\ vOrder'[m.lastOrder] = e
      /\ \A k \in 1..Top.lastOrder : vOrder'[k] = vOrder[k]
  <2>. HIDE DEF e
  <2>1. /\ IsSeq(vOrder) /\ Top.lastOrder \in Nat /\ Top.lastOrder <= Len(vOrder)
    BY TopNumbers
  <2>2. /\ IsSeq(vOrder') /\ Len(vOrder') >= Len(vOrder) /\ Len(vOrder') >= Top.lastOrder + 1
        /\ vOrder'[Top.lastOrder + 1] = e
        /\ \A k \in 1..Top.lastOrder : vOrder'[k] = vOrder[k]
    BY <1>2, <2>1, PutFacts
  <2>. QED BY <1>3, <2>2
<1>6. Own(e, m)
  BY <1>3, TopNumbers DEF Own
<1>7. Grows(Top, vChild, vText, vOrder, m, vChild', vText', vOrder')
  <2>1. vChild' = vChild /\ Len(vChild') >= Len(vChild) /\ m.lastChild <= Len(vChild')
    BY <1>2, <1>3, TopNumbers
  <2>2. Top.lastChild <= m.lastChild /\ Top.lastText <= m.lastText
    BY <1>3, TopNumbers
  <2>3. m.lastText <= Len(vText') /\ m.lastOrder <= Len(vOrder')
    BY <1>3, <1>4, <1>5
  <2>. HIDE DEF e
  <2>. QED BY <1>3, <1>4, <1>5, <1>6, <2>1, <2>2, <2>3 DEF Grows
<1>8. /\ FitsIn(m, vChild', vText', vOrder')
      /\ ItemsOf(m, vChild', vText', vOrder')
           = Append(ItemsOf(Top, vChild, vText, vOrder), Entry(vOrder'[m.lastOrder], m, vChild', vText'))
      /\ \A k \in 1..(n - 1) :
           /\ FitsIn(stack[k], vChild', vText', vOrder') /\ Behind(stack[k], m)
           /\ ItemsOf(stack[k], vChild', vText', vOrder')
                = ItemsOf(stack[k], vChild, vText, vOrder)
  <2>1. IsSeq(vChild')
    BY <1>2, TopNumbers
  <2>. HIDE DEF e, x
  <2>. QED BY <1>3, <1>4, <1>5, <1>7, <2>1, OneEntryMore
<1>9. Entry(vOrder'[m.lastOrder], m, vChild', vText') = Abstract!TextItem(x)
  <2>1. m.iText + (e[2] + 1) = m.lastText /\ e[1] = "text"
    BY <1>3, TopNumbers
  <2>. HIDE DEF e, x
  <2>. QED BY <1>4, <1>5, <2>1 DEF Entry, Abstract!TextItem
<1>10. /\ stack' \in Seq(Levels) /\ Len(stack') = n /\ DOMAIN stack' = 1..n
       /\ \A k \in 1..(n - 1) : stack'[k] = stack[k]
       /\ stack'[n] = m
  <2>1. stack \in Seq(Levels)
    BY DEF DInv
  <2>2. /\ stack' \in Seq(Levels) /\ Len(stack') = n
        /\ \A k \in 1..(n - 1) : stack'[k] = stack[k]
        /\ stack'[n] = m
    BY <1>2, <1>3, <2>1, TopReplaced
  <2>. QED BY <2>2, LenProperties
<1>11. ASSUME NEW k \in 1..n
       PROVE  stack'[k].td = stack[k].td /\ (k = n \/ k \in 1..(n - 1))
  <2>1. k = n \/ k \in 1..(n - 1)
    <3>1. n \in Nat \ {0} /\ k \in 1..n
      BY <1>1
    <3>. HIDE DEF n
    <3>. QED BY ONLY <3>1
  <2>. QED BY <1>1, <1>3, <1>10, <2>1
<1>12. DInv'
  <2>1. Arrays' /\ Nodes'
    BY <1>2, <1>4, <1>5 DEF DInv, Arrays, Nodes
  <2>2. OwnNodes'
    BY <1>1, <1>2, <1>10, <1>11 DEF DInv, OwnNodes
  <2>3. Fit'
    BY <1>8, <1>10, <1>11 DEF Fit
  <2>4. Apart'
    <3>1. ASSUME NEW j \in 1..n, NEW k \in 1..n, j < k PROVE Behind(stack'[j], stack'[k])
      <4>1. j \in 1..(n - 1)
        BY <1>1, <3>1
      <4>2. CASE k = n
        BY <1>8, <1>10, <4>1, <4>2
      <4>3. CASE k \in 1..(n - 1)
        BY <1>1, <1>10, <3>1, <4>1, <4>3 DEF DInv, Apart
      <4>. QED BY <1>11, <4>2, <4>3
    <3>. QED BY <1>10, <3>1 DEF Apart
  <2>. QED BY <1>10, <2>1, <2>2, <2>3, <2>4 DEF DInv
<1>13. ASSUME NEW i \in 1..Len(node)
       PROVE  /\ node'[i] = node[i]
              /\ Content(i)' = IF i = Top.td THEN Append(Content(i), Abstract!TextItem(x))
                               ELSE Content(i)
  <2>1. \A k \in (n + 1)..Len(stack') : stack'[k].td \notin DOMAIN node
    BY <1>1, <1>10
  <2>2. \A k \in 1..(n - 1) :
          ItemsOf(stack'[k], vChild', vText', vOrder') = ItemsOf(stack[k], vChild, vText, vOrder)
    BY <1>8, <1>10
  <2>3. ItemsOf(stack'[n], vChild', vText', vOrder')
          = Append(ItemsOf(Top, vChild, vText, vOrder), Abstract!TextItem(x))
    BY <1>8, <1>9, <1>10
  <2>. HIDE DEF x
  <2>4. Len(stack') >= Len(stack)
    BY <1>1, <1>10
  <2>. QED BY <1>2, <1>11, <1>12, <2>1, <2>2, <2>3, <2>4, ContentAdded
<1>. DEFINE item == Abstract!TextItem(x)
<1>14. Tree' = Abstract!Add(item)
  <2>1. IsSeq(node) /\ Len(node) \in Nat /\ IsSeq(Tree') /\ Len(Tree') = Len(node)
    BY <1>2, <1>12, SeqFacts, ViewsAfter DEF ViewOfTree, DInv, Nodes
  <2>. HIDE DEF item
  <2>2. /\ IsSeq(Abstract!Add(item)) /\ Len(Abstract!Add(item)) = Len(node)
        /\ \A i \in 1..Len(node) : Tree'[i] = Abstract!Add(item)[i]
    BY <1>2, <1>12, <1>13, <2>1, TreeAdded DEF item
  <2>. QED BY <2>1, <2>2, SeqSame
<1>15. Opened' = Opened
  <2>1. IsSeq(Opened) /\ Len(Opened) = n /\ \A k \in 1..n : Opened[k] = stack[k].td
    BY <1>1, Views DEF ViewOfStack, DInv
  <2>2. IsSeq(Opened') /\ Len(Opened') = n /\ \A k \in 1..n : Opened'[k] = stack'[k].td
    BY <1>10, ViewsAfter DEF ViewOfStack
  <2>. QED BY <1>11, <2>1, <2>2, SeqSame
<1>. HIDE DEF item
<1>16. Abstract!Write(t)
  BY <1>2, <1>14, <1>15 DEF Abstract!Write, Opened, item
<1>. QED BY <1>12, <1>16

LEMMA ElementStarted ==
  ASSUME DInv, stack # <<>>, NEW t, OnStartTag(t)
  PROVE  DInv' /\ Abstract!Start(t)
<1>. DEFINE n == Len(stack)
            new == Len(node) + 1
            m == [Top EXCEPT !.lastChild = @ + 1, !.lastOrder = @ + 1]
            b == Below(m, new)
            e == <<"child", Top.lastChild - Top.iChild>>
            nd == initNTD(t, Top.td)
<1>1. /\ n \in Nat \ {0} /\ DOMAIN stack = 1..n /\ n \in DOMAIN stack /\ Top = stack[n]
      /\ Top \in Levels /\ Top.td \in DOMAIN node
  BY TopView
<1>2. IsSeq(node) /\ Len(node) \in Nat /\ DOMAIN node = 1..Len(node) /\ new \in Nat
  BY SeqFacts DEF DInv, Nodes
<1>3. /\ vOrder' = Put(vOrder, Top.lastOrder, e) /\ vChild' = Put(vChild, Top.lastChild, new)
      /\ node' = Append(node, nd) /\ stack' = Append(Front(stack), m) \o <<b>>
      /\ vText' = vText /\ ret' = ret /\ t.tok = "StartTag"
  BY DEF OnStartTag
<1>4. /\ m \in Levels /\ m.td = Top.td /\ m.iChild = Top.iChild /\ m.iText = Top.iText
      /\ m.iOrder = Top.iOrder /\ m.lastText = Top.lastText
      /\ m.lastChild = Top.lastChild + 1 /\ m.lastOrder = Top.lastOrder + 1
  <2>1. m = [td |-> Top.td, iChild |-> Top.iChild, iText |-> Top.iText, iOrder |-> Top.iOrder,
             lastChild |-> Top.lastChild + 1, lastText |-> Top.lastText,
             lastOrder |-> Top.lastOrder + 1]
    BY <1>1, LevelGrown
  <2>. HIDE DEF m
  <2>. QED BY <2>1, TopNumbers DEF Levels
<1>. HIDE DEF m
<1>5. /\ b \in Levels /\ b.td = new
      /\ b.iChild = m.lastChild /\ b.iText = m.lastText /\ b.iOrder = m.lastOrder
      /\ b.lastChild = m.lastChild /\ b.lastText = m.lastText /\ b.lastOrder = m.lastOrder
  BY <1>2, <1>4 DEF Below, Level, Levels
<1>. HIDE DEF b
<1>6. /\ IsSeq(vChild') /\ Len(vChild') >= Len(vChild) /\ Len(vChild') >= m.lastChild
      /\ vChild'[m.lastChild] = new
      /\ \A k \in 1..Top.lastChild : vChild'[k] = vChild[k]
  <2>. HIDE DEF new
  <2>. QED BY <1>3, <1>4, TopNumbers, PutFacts, SMTT(30)
<1>7. /\ IsSeq(vOrder') /\ Len(vOrder') >= Len(vOrder) /\ Len(vOrder') >= m.lastOrder
      /\ vOrder'[m.lastOrder] = e
      /\ \A k \in 1..Top.lastOrder : vOrder'[k] = vOrder[k]
  <2>. HIDE DEF e
  <2>1. /\ IsSeq(vOrder) /\ Top.lastOrder \in Nat /\ Top.lastOrder <= Len(vOrder)
    BY TopNumbers
  <2>2. /\ IsSeq(vOrder') /\ Len(vOrder') >= Len(vOrder) /\ Len(vOrder') >= Top.lastOrder + 1
        /\ vOrder'[Top.lastOrder + 1] = e
        /\ \A k \in 1..Top.lastOrder : vOrder'[k] = vOrder[k]
    BY <1>3, <2>1, PutFacts
  <2>. QED BY <1>4, <2>2
<1>8. Own(e, m)
  BY <1>4, TopNumbers DEF Own
<1>9. Grows(Top, vChild, vText, vOrder, m, vChild', vText', vOrder')
  <2>1. vText' = vText /\ Len(vText') >= Len(vText) /\ m.lastText <= Len(vText')
    BY <1>3, <1>4, TopNumbers
  <2>2. Top.lastChild <= m.lastChild /\ Top.lastText <= m.lastText
    BY <1>4, TopNumbers
  <2>3. m.lastChild <= Len(vChild') /\ m.lastOrder <= Len(vOrder')
    BY <1>4, <1>6, <1>7
  <2>. HIDE DEF e
  <2>. QED BY <1>4, <1>6, <1>7, <1>8, <2>1, <2>2, <2>3 DEF Grows
<1>10. /\ FitsIn(m, vChild', vText', vOrder')
       /\ ItemsOf(m, vChild', vText', vOrder')
            = Append(ItemsOf(Top, vChild, vText, vOrder),
                     Entry(vOrder'[m.lastOrder], m, vChild', vText'))
       /\ \A k \in 1..(n - 1) :
            /\ FitsIn(stack[k], vChild', vText', vOrder') /\ Behind(stack[k], m)
            /\ ItemsOf(stack[k], vChild', vText', vOrder')
                 = ItemsOf(stack[k], vChild, vText, vOrder)
  <2>1. IsSeq(vText')
    BY <1>3, TopNumbers
  <2>. HIDE DEF e
  <2>. QED BY <1>4, <1>6, <1>7, <1>9, <2>1, OneEntryMore
<1>11. Entry(vOrder'[m.lastOrder], m, vChild', vText') = Abstract!Child(new)
  <2>1. m.iChild + (e[2] + 1) = m.lastChild /\ e[1] = "child"
    BY <1>4, TopNumbers
  <2>. HIDE DEF e, new
  <2>. QED BY <1>6, <1>7, <2>1 DEF Entry, Abstract!Child
<1>12. /\ stack' \in Seq(Levels) /\ Len(stack') = n + 1 /\ DOMAIN stack' = 1..(n + 1)
       /\ \A k \in 1..(n - 1) : stack'[k] = stack[k]
       /\ stack'[n] = m /\ stack'[n + 1] = b
  <2>. DEFINE s == Append(Front(stack), m)
  <2>1. stack \in Seq(Levels)
    BY DEF DInv
  <2>2. /\ s \in Seq(Levels) /\ Len(s) = n
        /\ \A k \in 1..(n - 1) : s[k] = stack[k]
        /\ s[n] = m
    BY <1>4, <2>1, TopReplaced
  <2>. HIDE DEF s
  <2>3. /\ s \o <<b>> \in Seq(Levels) /\ Len(s \o <<b>>) = n + 1
        /\ \A k \in 1..n : (s \o <<b>>)[k] = s[k]
        /\ (s \o <<b>>)[n + 1] = b
    BY <1>5, <2>2, LevelPushed
  <2>4. stack' = s \o <<b>>
    BY <1>3 DEF s
  <2>5. \A k \in 1..(n - 1) : k \in 1..n
    BY <1>1
  <2>. QED BY <1>1, <2>2, <2>3, <2>4, <2>5, LenProperties
<1>13. ASSUME NEW k \in 1..n
       PROVE  stack'[k].td = stack[k].td /\ (k = n \/ k \in 1..(n - 1))
  <2>1. k = n \/ k \in 1..(n - 1)
    <3>1. n \in Nat \ {0} /\ k \in 1..n
      BY <1>1
    <3>. HIDE DEF n
    <3>. QED BY ONLY <3>1
  <2>. QED BY <1>1, <1>4, <1>12, <2>1
<1>14. ASSUME NEW k \in 1..(n + 1) PROVE k = n + 1 \/ k \in 1..n
  <2>1. n \in Nat \ {0} /\ k \in 1..(n + 1)
    BY <1>1
  <2>. HIDE DEF n
  <2>. QED BY ONLY <2>1
<1>. HIDE DEF nd
<1>15. /\ IsSeq(node') /\ Len(node') = new /\ DOMAIN node' = 1..new
       /\ \A i \in 1..Len(node) : node'[i] = node[i]
       /\ node'[new] = nd
  <2>1. /\ IsSeq(node') /\ Len(node') = new
        /\ \A i \in 1..Len(node) : node'[i] = node[i]
        /\ node'[new] = nd
    BY <1>2, <1>3, AppendFacts
  <2>. QED BY <2>1, SeqFacts
<1>16. IsNode(nd) /\ Unfilled(nd)
  BY DEF nd, initNTD, FreshNode, IsNode, Unfilled
<1>17. \A i \in 1..new : i = new \/ i \in 1..Len(node)
  BY <1>2
<1>18. DInv'
  <2>1. Arrays'
    BY <1>3, <1>6, <1>7, TopNumbers DEF Arrays
  <2>2. Nodes'
    BY <1>2, <1>15, <1>16, <1>17 DEF DInv, Nodes
  <2>3. OwnNodes'
    <3>1. \A k \in 1..n : stack'[k].td \in 1..Len(node) /\ Unfilled(node[stack'[k].td])
      BY <1>1, <1>2, <1>13 DEF DInv, OwnNodes
    <3>2. stack'[n + 1].td = new /\ new \notin 1..Len(node) /\ new \in 1..new
      BY <1>2, <1>5, <1>12
    <3>3. \A i \in 1..Len(node) : i \in 1..new
      BY <1>2
    <3>. HIDE DEF new, n
    <3>4. ASSUME NEW k \in 1..(n + 1)
          PROVE  stack'[k].td \in 1..new /\ Unfilled(node'[stack'[k].td])
      <4>1. CASE k \in 1..n
        <5>1. stack'[k].td \in 1..Len(node) /\ Unfilled(node[stack'[k].td])
          BY <3>1, <4>1
        <5>. QED BY <1>15, <3>3, <5>1
      <4>2. CASE k = n + 1
        BY <1>15, <1>16, <3>2, <4>2
      <4>. QED BY <1>14, <4>1, <4>2
    <3>5. ASSUME NEW j \in 1..(n + 1), NEW k \in 1..(n + 1), stack'[j].td = stack'[k].td
          PROVE  j = k
      <4>1. CASE j \in 1..n /\ k \in 1..n
        BY <1>1, <1>13, <3>5, <4>1 DEF DInv, OwnNodes
      <4>2. CASE j = n + 1
        BY <1>14, <3>1, <3>2, <3>5, <4>2
      <4>3. CASE k = n + 1
        BY <1>14, <3>1, <3>2, <3>5, <4>3
      <4>. QED BY <1>14, <4>1, <4>2, <4>3
    <3>. QED BY <1>12, <1>15, <3>4, <3>5 DEF OwnNodes, Unfilled
  <2>4. FitsIn(b, vChild', vText', vOrder')
    <3>1. \A k \in (b.iOrder + 1)..b.lastOrder : FALSE
      BY <1>4, <1>5, TopNumbers
    <3>2. m.lastChild <= Len(vChild') /\ m.lastText <= Len(vText') /\ m.lastOrder <= Len(vOrder')
      BY <1>10 DEF FitsIn
    <3>3. b.iChild <= b.lastChild /\ b.iText <= b.lastText /\ b.iOrder <= b.lastOrder
      BY <1>4, <1>5, TopNumbers
    <3>. QED BY <1>5, <3>1, <3>2, <3>3 DEF FitsIn
  <2>5. Fit'
    BY <1>10, <1>12, <1>13, <1>14, <2>4 DEF Fit
  <2>6. Apart'
    <3>1. Behind(m, b)
      BY <1>4, <1>5, TopNumbers DEF Behind
    <3>2. ASSUME NEW k \in 1..(n - 1) PROVE Behind(stack[k], b)
      <4>1. stack[k] \in Levels
        BY <1>1, ElementOfSeq DEF DInv
      <4>2. Behind(stack[k], m)
        BY <1>10
      <4>3. m.iChild <= m.lastChild /\ m.iText <= m.lastText /\ m.iOrder <= m.lastOrder
        BY <1>10 DEF FitsIn
      <4>. DEFINE l == stack[k]
      <4>. HIDE DEF l
      <4>4. l \in Levels /\ Behind(l, m)
        BY <4>1, <4>2 DEF l
      <4>5. /\ l.lastChild \in Nat /\ l.lastText \in Nat /\ l.lastOrder \in Nat
            /\ m.iChild \in Nat /\ m.iText \in Nat /\ m.iOrder \in Nat
            /\ m.lastChild \in Nat /\ m.lastText \in Nat /\ m.lastOrder \in Nat
        BY <1>4, <4>4 DEF Levels
      <4>6. /\ l.lastChild <= m.iChild /\ l.lastText <= m.iText /\ l.lastOrder <= m.iOrder
        BY <4>4 DEF Behind
      <4>7. l.lastChild <= m.lastChild /\ l.lastText <= m.lastText /\ l.lastOrder <= m.lastOrder
        BY ONLY <4>3, <4>5, <4>6
      <4>8. Behind(l, b)
        BY <1>5, <4>7 DEF Behind
      <4>. QED BY <4>8 DEF l
    <3>3. ASSUME NEW j \in 1..(n + 1), NEW k \in 1..(n + 1), j < k
          PROVE  Behind(stack'[j], stack'[k])
      <4>1. CASE j \in 1..(n - 1) /\ k \in 1..(n - 1)
        BY <1>1, <1>12, <3>3, <4>1 DEF DInv, Apart
      <4>2. CASE j \in 1..(n - 1) /\ k = n
        BY <1>10, <1>12, <4>2
      <4>3. CASE j \in 1..(n - 1) /\ k = n + 1
        BY <1>12, <3>2, <4>3
      <4>4. CASE j = n /\ k = n + 1
        BY <1>12, <3>1, <4>4
      <4>5. /\ n \in Nat \ {0} /\ j \in 1..(n + 1) /\ k \in 1..(n + 1) /\ j < k
        BY <1>1, <3>3
      <4>. HIDE DEF n
      <4>6. \/ j \in 1..(n - 1) /\ k \in 1..(n - 1)
            \/ j \in 1..(n - 1) /\ k = n
            \/ j \in 1..(n - 1) /\ k = n + 1
            \/ j = n /\ k = n + 1
        BY ONLY <4>5
      <4>. QED BY <4>1, <4>2, <4>3, <4>4, <4>6
    <3>. QED BY <1>12, <3>3 DEF Apart
  <2>. QED BY <1>12, <2>1, <2>2, <2>3, <2>5, <2>6 DEF DInv
<1>19. ASSUME NEW i \in 1..Len(node)
       PROVE  /\ node'[i] = node[i]
              /\ Content(i)' = IF i = Top.td THEN Append(Content(i), Abstract!Child(new))
                               ELSE Content(i)
  <2>1. \A k \in (n + 1)..Len(stack') : stack'[k].td \notin DOMAIN node
    <3>1. \A k \in (n + 1)..Len(stack') : k = n + 1
      BY <1>1, <1>12
    <3>. QED BY <1>2, <1>5, <1>12, <3>1
  <2>2. \A k \in 1..(n - 1) :
          ItemsOf(stack'[k], vChild', vText', vOrder') = ItemsOf(stack[k], vChild, vText, vOrder)
    BY <1>10, <1>12
  <2>3. ItemsOf(stack'[n], vChild', vText', vOrder')
          = Append(ItemsOf(Top, vChild, vText, vOrder), Abstract!Child(new))
    BY <1>10, <1>11, <1>12
  <2>4. Len(stack') >= Len(stack)
    BY <1>1, <1>12
  <2>. HIDE DEF new
  <2>. QED BY <1>13, <1>15, <1>18, <2>1, <2>2, <2>3, <2>4, ContentAdded
<1>. DEFINE item == Abstract!Child(new)
            new2 == Abstract!Element(t, Abstract!Top)
<1>20. Tree' = Append(Abstract!Add(item), new2)
  <2>1. IsSeq(Tree') /\ Len(Tree') = new
        /\ \A i \in 1..new :
             Tree'[i] = [name |-> node'[i].name, attrs |-> node'[i].attrs,
                         parent |-> node'[i].parent, content |-> Content(i)']
    BY <1>15, ViewsAfter DEF ViewOfTree
  <2>2. /\ IsSeq(Abstract!Add(item)) /\ Len(Abstract!Add(item)) = Len(node)
        /\ \A i \in 1..Len(node) : Tree'[i] = Abstract!Add(item)[i]
    <3>1. Len(node') >= Len(node)
      BY <1>2, <1>15
    <3>. HIDE DEF item, new
    <3>. QED BY <1>18, <1>19, <3>1, TreeAdded DEF item
  <2>3. Tree'[new] = new2
    <3>1. ASSUME NEW i, i = new PROVE Content(i)' = <<>>
      <4>1. n + 1 \in DOMAIN stack' /\ stack'[n + 1] = b /\ b.td = i
        BY <1>1, <1>5, <1>12, <3>1
      <4>2. Content(i)' = ItemsOf(b, vChild', vText', vOrder')
        BY <1>18, <4>1, ViewsAfter DEF ViewOfContent, DInv
      <4>3. FitsIn(b, vChild', vText', vOrder') /\ IsSeq(vChild') /\ IsSeq(vText')
            /\ IsSeq(vOrder') /\ b.lastOrder - b.iOrder = 0
        <5>1. FitsIn(b, vChild', vText', vOrder')
          BY <1>18, <4>1 DEF DInv, Fit
        <5>. QED BY <1>4, <1>5, <1>18, <5>1, TopNumbers DEF DInv, Arrays
      <4>4. /\ IsSeq(ItemsOf(b, vChild', vText', vOrder'))
            /\ Len(ItemsOf(b, vChild', vText', vOrder')) = 0
        BY <1>5, <4>3, ItemsOfLevel
      <4>. QED BY <4>2, <4>4, EmptySeq DEF IsSeq
    <3>2. nd = [name |-> t.content,
                attrs |-> [k \in DOMAIN t.attrs |-> [t.attrs[k] EXCEPT !.value = trimText(@)]],
                parent |-> Top.td, pChild |-> <<>>, pText |-> <<>>, pOrder |-> <<>>]
      BY DEF nd, initNTD, FreshNode
    <3>3. new2 = [name |-> t.content,
                  attrs |-> [k \in DOMAIN t.attrs |-> [t.attrs[k] EXCEPT !.value = trimText(@)]],
                  parent |-> Top.td, content |-> <<>>]
      BY TopView DEF Abstract!Element, Abstract!Trimmed
    <3>. HIDE DEF new2
    <3>4. \A i : i = new =>
             Tree'[i] = [name |-> nd.name, attrs |-> nd.attrs, parent |-> nd.parent, content |-> <<>>]
      BY <1>2, <1>15, <2>1, <3>1
    <3>. QED BY <3>2, <3>3, <3>4
  <2>. HIDE DEF item, new2
  <2>4. /\ IsSeq(Append(Abstract!Add(item), new2)) /\ Len(Append(Abstract!Add(item), new2)) = new
        /\ \A i \in 1..Len(node) : Append(Abstract!Add(item), new2)[i] = Abstract!Add(item)[i]
        /\ Append(Abstract!Add(item), new2)[new] = new2
    BY <2>2, AppendFacts
  <2>5. \A i \in 1..new : Tree'[i] = Append(Abstract!Add(item), new2)[i]
    BY <1>17, <2>2, <2>3, <2>4
  <2>. QED BY <2>1, <2>4, <2>5, SeqSame
<1>21. Opened' = Append(Opened, new)
  <2>1. IsSeq(Opened) /\ Len(Opened) = n /\ \A k \in 1..n : Opened[k] = stack[k].td
    BY <1>1, Views DEF ViewOfStack, DInv
  <2>2. IsSeq(Opened') /\ Len(Opened') = n + 1 /\ \A k \in 1..(n + 1) : Opened'[k] = stack'[k].td
    BY <1>12, ViewsAfter DEF ViewOfStack
  <2>. HIDE DEF new
  <2>3. /\ IsSeq(Append(Opened, new)) /\ Len(Append(Opened, new)) = n + 1
        /\ \A k \in 1..n : Append(Opened, new)[k] = Opened[k]
        /\ Append(Opened, new)[n + 1] = new
    BY <2>1, AppendFacts
  <2>4. ASSUME NEW k \in 1..(n + 1) PROVE Opened'[k] = Append(Opened, new)[k]
    <3>1. CASE k \in 1..n
      BY <1>13, <2>1, <2>2, <2>3, <3>1
    <3>2. CASE k = n + 1
      BY <1>5, <1>12, <2>2, <2>3, <3>2
    <3>. QED BY <1>14, <3>1, <3>2
  <2>. QED BY <2>2, <2>3, <2>4, SeqSame
<1>22. Len(Tree) = Len(node)
  BY <1>2, Views DEF ViewOfTree
<1>. HIDE DEF item, new2
<1>23. Abstract!Start(t)
  BY <1>3, <1>20, <1>21, <1>22 DEF Abstract!Start, Opened, item, new2
<1>. QED BY <1>18, <1>23

LEMMA TokenIgnored ==
  ASSUME DInv, NEW t, OnIgnored(t)
  PROVE  DInv' /\ (Abstract!Write(t) \/ Abstract!Skip(t))
<1>1. UNCHANGED <<node, stack, vChild, vText, vOrder, ret>>
  BY DEF OnIgnored
<1>2. DInv'
  BY <1>1 DEF DInv, Arrays, Nodes, OwnNodes, Apart, Fit
<1>3. Tree' = Tree /\ Opened' = Opened
  BY <1>1 DEF Tree, Content, LevelsOf, LevelItems, Opened
<1>0. (ret = 1)' = (ret = 1)
  BY <1>1
<1>4. CASE t.tok = "Text" /\ t.white
  BY <1>0, <1>2, <1>3, <1>4 DEF Abstract!Write, Opened
<1>5. CASE t.tok \in {"Clear", "ProcessingInstruction", "Endless"}
  BY <1>0, <1>2, <1>3, <1>5 DEF Abstract!Skip, Opened
<1>. QED BY <1>2, <1>4, <1>5 DEF OnIgnored

LEMMA TagClosed ==
  ASSUME DInv, stack # <<>>, NEW t, ForceCloseTag(t.content)
  PROVE  DInv' /\ Abstract!Close(t)
<1>. DEFINE other == node[Top.td].name = NoName \/ node[Top.td].name # t.content
<1>1. DInv' /\ Tree' = Tree /\ Opened' = Front(Opened)
  BY LevelEnds DEF ForceCloseTag
<1>2. ret' = 1 <=> other
  BY DEF ForceCloseTag
<1>3. Tree[Abstract!Top].name = node[Top.td].name
  BY TopView
<1>4. other <=> (Tree[Abstract!Top].name = Abstract!NoName \/ Tree[Abstract!Top].name # t.content)
  BY <1>3 DEF NoName, Abstract!NoName
<1>5. (ret = 1)' = (Tree[Abstract!Top].name = Abstract!NoName \/ Tree[Abstract!Top].name # t.content)
  BY <1>2, <1>4
<1>6. Opened' = Abstract!Front(Opened)
  BY <1>1 DEF Abstract!Front, Front
<1>. QED BY <1>1, <1>5, <1>6 DEF Abstract!Close, Opened

LEMMA DocumentEnded ==
  ASSUME DInv, stack # <<>>, NEW t, OnEndDocument(t)
  PROVE  DInv' /\ Abstract!EndDocument(t)
<1>1. DInv' /\ Tree' = Tree /\ Opened' = Front(Opened)
  BY LevelEnds DEF OnEndDocument
<1>2. ret' = 1 <=> node[Top.td].name # NoName
  BY DEF OnEndDocument
<1>3. Tree[Abstract!Top].name = node[Top.td].name
  BY TopView
<1>4. (ret = 1)' = (Tree[Abstract!Top].name # Abstract!NoName)
  BY <1>2, <1>3 DEF NoName, Abstract!NoName
<1>5. Opened' = Abstract!Front(Opened)
  BY <1>1 DEF Abstract!Front, Front
<1>6. t.tok = "EndDocument"
  BY DEF OnEndDocument
<1>. QED BY <1>1, <1>4, <1>5, <1>6 DEF Abstract!EndDocument, Opened

LEMMA ErrorFound ==
  ASSUME DInv, ret = 0, NEW t, OnError(t)
  PROVE  DInv' /\ Abstract!Fail(t)
<1>1. /\ DInv' /\ Opened' = <<>>
      /\ Tree' = [i \in DOMAIN Tree |->
                    IF i \in Abstract!ToSet(Opened) THEN [Tree[i] EXCEPT !.content = <<>>]
                    ELSE Tree[i]]
  BY LevelsDropped DEF OnError
<1>2. (ret = 1)' = (ret = 1) /\ t.tok = "Error"
  BY DEF OnError
<1>. QED BY <1>1, <1>2 DEF Abstract!Fail, Opened

(* Another document is parsed: what the one before left in the arrays does *)
(* not count.                                                              *)
LEMMA DocumentBegun ==
  ASSUME DInv, NEW text, Parse(text)
  PROVE  DInv' /\ Abstract!Begin
<1>. DEFINE l == Level(1, 0, 0, 0)
            nd == FreshNode(NoName, <<>>, 0)
<1>1. /\ stack = <<>> /\ node' = <<nd>> /\ stack' = <<l>> /\ pp' = New(text) /\ ret' = 0
      /\ vChild' = vChild /\ vText' = vText /\ vOrder' = vOrder
  BY DEF Parse
<1>2. /\ l \in Levels /\ l.td = 1 /\ l.iChild = 0 /\ l.iText = 0 /\ l.iOrder = 0
      /\ l.lastChild = 0 /\ l.lastText = 0 /\ l.lastOrder = 0
  BY DEF Level, Levels
<1>3. /\ IsNode(nd) /\ Unfilled(nd) /\ nd.name = <<>> /\ nd.attrs = <<>> /\ nd.parent = 0
  BY DEF FreshNode, IsNode, Unfilled, NoName
<1>. HIDE DEF l, nd
<1>4. stack' \in Seq(Levels) /\ Len(stack') = 1 /\ DOMAIN stack' = {1} /\ stack'[1] = l
  BY <1>1, <1>2
<1>5. IsSeq(node') /\ Len(node') = 1 /\ DOMAIN node' = {1} /\ node'[1] = nd
  <2>1. node' \in Seq({nd}) /\ Len(node') = 1 /\ node'[1] = nd
    BY <1>1
  <2>. QED BY <2>1, SeqOfElements, SeqFacts
<1>6. Arrays /\ Len(vChild) \in Nat /\ Len(vText) \in Nat /\ Len(vOrder) \in Nat
  BY SeqFacts DEF DInv, Arrays
<1>7. FitsIn(l, vChild', vText', vOrder')
  BY <1>1, <1>2, <1>6 DEF FitsIn
<1>8. DInv'
  <2>1. Arrays' /\ Nodes'
    BY <1>1, <1>3, <1>5, <1>6 DEF Arrays, Nodes
  <2>2. OwnNodes' /\ Apart' /\ Fit'
    BY <1>2, <1>3, <1>4, <1>5, <1>7 DEF OwnNodes, Apart, Fit
  <2>. QED BY <1>4, <2>1, <2>2 DEF DInv
<1>9. Opened = <<>>
  <2>1. IsSeq(Opened) /\ Len(Opened) = 0
    BY <1>1, Views, EmptySeq DEF ViewOfStack, DInv
  <2>. QED BY <2>1, EmptySeq DEF IsSeq
<1>10. Opened' = <<1>>
  <2>1. IsSeq(Opened') /\ Len(Opened') = 1 /\ Opened'[1] = 1
    BY <1>2, <1>4, ViewsAfter DEF ViewOfStack
  <2>2. Opened' = [k \in 1..1 |-> Opened'[k]]
    BY <2>1, SeqFacts
  <2>. QED BY <2>1, <2>2
<1>11. Content(1)' = <<>>
  <2>1. Content(1)' = ItemsOf(l, vChild', vText', vOrder')
    BY <1>2, <1>4, <1>8, ViewsAfter DEF ViewOfContent, DInv
  <2>2. /\ IsSeq(ItemsOf(l, vChild', vText', vOrder'))
        /\ Len(ItemsOf(l, vChild', vText', vOrder')) = 0
    BY <1>1, <1>2, <1>6, <1>7, ItemsOfLevel DEF Arrays
  <2>. QED BY <2>1, <2>2, EmptySeq DEF IsSeq
<1>12. Tree' = <<[name |-> <<>>, attrs |-> <<>>, parent |-> 0, content |-> <<>>]>>
  <2>1. /\ IsSeq(Tree') /\ Len(Tree') = 1
        /\ Tree'[1] = [name |-> nd.name, attrs |-> nd.attrs, parent |-> nd.parent,
                       content |-> Content(1)']
    BY <1>5, ViewsAfter DEF ViewOfTree
  <2>2. Tree'[1] = [name |-> <<>>, attrs |-> <<>>, parent |-> 0, content |-> <<>>]
    BY <1>3, <1>11, <2>1
  <2>3. Tree' = [k \in 1..1 |-> Tree'[k]]
    BY <2>1, SeqFacts
  <2>. QED BY <2>2, <2>3
<1>13. pp' = New((pp').text) /\ (ret = 1)' = FALSE
  BY <1>1 DEF New
<1>14. Abstract!Begin
  BY <1>9, <1>10, <1>12, <1>13 DEF Abstract!Begin, Abstract!NoName, Opened
<1>. QED BY <1>8, <1>14

-----------------------------------------------------------------------------
(* All steps together.                                                     *)

LEMMA NothingDone ==
  ASSUME DInv, UNCHANGED domVars
  PROVE  DInv' /\ UNCHANGED <<pp, Tree, Opened, ret>>
BY DEF domVars, DInv, Arrays, Nodes, OwnNodes, Apart, Fit,
       Tree, Content, LevelsOf, LevelItems, Opened

LEMMA Abstracted == UNCHANGED <<pp, Tree, Opened, ret>> => UNCHANGED Abstract!vars
<1>1. ret' = ret => (ret = 1)' = (ret = 1)
  OBVIOUS
<1>. QED BY <1>1 DEF Abstract!vars, Opened

LEMMA ParserSteps ==
  ASSUME DInv, DomNext
  PROVE  DInv' /\ Abstract!Next
<1>1. ASSUME NextToken PROVE DInv' /\ Abstract!Token
  <2>1. stack # <<>> /\ ret = 0
    BY <1>1 DEF NextToken
  <2>2. PICK t \in {nextToken(pp)} :
          /\ pp' = t
          /\ \/ OnStartTag(t) \/ OnText(t) \/ OnIgnored(t)
             \/ OnEndTag(t) \/ OnEndDocument(t) \/ OnError(t)
    BY <1>1 DEF NextToken
  <2>3. Opened # <<>> /\ ~(ret = 1)
    BY <2>1, TopView
  <2>4. DInv' /\ (\/ Abstract!Start(t) \/ Abstract!Write(t) \/ Abstract!Skip(t)
                  \/ Abstract!End(t) \/ Abstract!EndDocument(t) \/ Abstract!Fail(t))
    <3>1. CASE OnStartTag(t)
      BY <2>1, <3>1, ElementStarted
    <3>2. CASE OnText(t)
      BY <2>1, <3>2, TextWritten
    <3>3. CASE OnIgnored(t)
      BY <3>3, TokenIgnored
    <3>4. CASE OnEndTag(t)
      BY <2>1, <3>4, TagClosed DEF OnEndTag, Abstract!End
    <3>5. CASE OnEndDocument(t)
      BY <2>1, <3>5, DocumentEnded
    <3>6. CASE OnError(t)
      BY <2>1, <3>6, ErrorFound
    <3>. QED BY <2>2, <3>1, <3>2, <3>3, <3>4, <3>5, <3>6
  <2>. QED BY <2>2, <2>3, <2>4 DEF Abstract!Token, Opened
<1>2. ASSUME Returned1 PROVE DInv' /\ Abstract!Unwind
  <2>1. stack # <<>> /\ ret = 1 /\ ForceCloseTag(pp.content) /\ pp' = pp
    BY <1>2 DEF Returned1
  <2>2. Opened # <<>>
    BY <2>1, TopView
  <2>3. DInv' /\ Abstract!Close(pp)
    <3>1. PICK t : t = pp
      OBVIOUS
    <3>2. ForceCloseTag(t.content)
      BY <2>1, <3>1
    <3>3. DInv' /\ Abstract!Close(t)
      BY <2>1, <3>2, TagClosed
    <3>. QED BY <3>1, <3>3 DEF Abstract!Close
  <2>. QED BY <2>1, <2>2, <2>3 DEF Abstract!Unwind, Opened
<1>. QED BY <1>1, <1>2 DEF DomNext, Abstract!Next

LEMMA SettingsSteps ==
  ASSUME DInv, Next
  PROVE  DInv' /\ [Abstract!Next]_(Abstract!vars)
<1>1. CASE getInstance
  <2>1. UNCHANGED domVars \/ Parse(files[Chosen].text)
    BY <1>1 DEF getInstance
  <2>2. CASE UNCHANGED domVars
    BY <2>2, NothingDone, Abstracted
  <2>3. CASE Parse(files[Chosen].text)
    BY <2>3, DocumentBegun DEF Abstract!Next
  <2>. QED BY <2>1, <2>2, <2>3
<1>2. CASE Parsing
  BY <1>2, ParserSteps DEF Parsing
<1>3. CASE parseFile
  BY <1>3, NothingDone, Abstracted DEF parseFile
<1>4. ASSUME NEW r \in Reads, Read(r)
      PROVE  DInv' /\ [Abstract!Next]_(Abstract!vars)
  BY <1>4, NothingDone, Abstracted DEF Read
<1>. QED BY <1>1, <1>2, <1>3, <1>4 DEF Next

LEMMA DInvNext ==
  ASSUME DInv, [RewriteNext]_rewriteVars
  PROVE  DInv' /\ [Abstract!Next]_(Abstract!vars)
<1>1. CASE Next
  BY <1>1, SettingsSteps
<1>2. ASSUME NEW j \in SceneNumbers, getData(Chars("s"), j)
      PROVE  DInv' /\ [Abstract!Next]_(Abstract!vars)
  <2>1. UNCHANGED domVars
    BY <1>2 DEF getData
  <2>. QED BY <2>1, NothingDone, Abstracted
<1>3. ASSUME NEW formatted \in BOOLEAN, WriteAndParse(formatted)
      PROVE  DInv' /\ [Abstract!Next]_(Abstract!vars)
  <2>1. PICK text : Parse(text)
    BY <1>3 DEF WriteAndParse
  <2>. QED BY <2>1, DocumentBegun DEF Abstract!Next
<1>4. CASE UNCHANGED rewriteVars
  BY <1>4, NothingDone, Abstracted DEF rewriteVars
<1>. QED BY <1>1, <1>2, <1>3, <1>4 DEF RewriteNext

LEMMA DInvInit == RewriteInit => DInv /\ Abstract!Init
<1>. SUFFICES ASSUME RewriteInit PROVE DInv /\ Abstract!Init
  OBVIOUS
<1>1. /\ pp = New(<<>>) /\ node = <<>> /\ stack = <<>>
      /\ vChild = <<>> /\ vText = <<>> /\ vOrder = <<>> /\ ret = 0
  BY DEF RewriteInit, Init, DomInit
<1>2. IsSeq(<<>>) /\ DOMAIN <<>> = {} /\ <<>> \in Seq(Levels)
  BY EmptySeq DEF IsSeq
<1>3. DInv
  BY <1>1, <1>2 DEF DInv, Arrays, Nodes, OwnNodes, Apart, Fit
<1>4. Tree = <<>> /\ Opened = <<>>
  BY <1>1, <1>2 DEF Tree, Opened
<1>. QED BY <1>1, <1>3, <1>4 DEF Abstract!Init, Opened

(* Whatever is in the files, read or written and parsed again, the nodes   *)
(* and shared arrays of genericParseRecur at every moment hold the tree    *)
(* that TreeBuilder makes of the same tokens: levels never write over each *)
(* other's children and texts, a level that another element's tag closes   *)
(* closes what it should, and nothing is left of the document before.      *)
THEOREM BuildsTree == Spec => TreeBuilt
<1>1. DInv /\ [RewriteNext]_rewriteVars => DInv' /\ [Abstract!Next]_(Abstract!vars)
  BY DInvNext
<1>. QED BY <1>1, DInvInit, PTL DEF Spec, TreeBuilt, Abstract!Spec

-----------------------------------------------------------------------------
(* The pull parser goes forward only.                                      *)

(* Sequences of characters, or of anything else.                           *)
IsAttr(a) == a = [name |-> a.name, value |-> a.value] /\ IsSeq(a.name) /\ IsSeq(a.value)

IsAttrs(s) == IsSeq(s) /\ \A k \in 1..Len(s) : IsAttr(s[k])

IsParser(p) ==
  /\ p = [text |-> p.text, fin |-> p.fin, at |-> p.at, tok |-> p.tok,
          content |-> p.content, attrs |-> p.attrs, empty |-> p.empty, white |-> p.white]
  /\ IsSeq(p.text) /\ p.at \in Nat \ {0}
  /\ IsSeq(p.content) /\ IsAttrs(p.attrs)

(* Parser q has come further than p, or has cut the text, or neither.      *)
Later(p, q) ==
  /\ IsParser(q)
  /\ p.at <= q.at /\ Len(q.text) <= Len(p.text)
  /\ q.empty = p.empty

LEMMA LaterSelf == ASSUME NEW p, IsParser(p) PROVE Later(p, p)
<1>1. p.at \in Nat /\ Len(p.text) \in Nat
  BY SeqFacts DEF IsParser
<1>. QED BY <1>1 DEF Later

LEMMA LaterTrans ==
  ASSUME NEW p, NEW q, NEW r, IsParser(p), Later(p, q), Later(q, r)
  PROVE  Later(p, r)
<1>1. /\ p.at \in Nat /\ q.at \in Nat /\ r.at \in Nat
      /\ Len(p.text) \in Nat /\ Len(q.text) \in Nat /\ Len(r.text) \in Nat
  BY SeqFacts DEF IsParser, Later
<1>. QED BY <1>1 DEF Later

(* Whatever is cut out of a sequence is a sequence.                        *)
LEMMA SubSeqIsSeq ==
  ASSUME NEW s, IsSeq(s), NEW m \in Int, NEW n \in Int
  PROVE  IsSeq(SubSeq(s, m, n))
<1>. DEFINE S == ToSet(s) \cup {s[i] : i \in m..n}
<1>1. s \in Seq(S)
  BY SeqMonotonic DEF IsSeq
<1>2. \A i \in m..n : s[i] \in S
  OBVIOUS
<1>. HIDE DEF S
<1>3. SubSeq(s, m, n) \in Seq(S)
  BY <1>1, <1>2, SubSeqProperties
<1>. QED BY <1>3, SeqOfElements

LEMMA EmptyIsSeq == IsSeq(<<>>) /\ Len(<<>>) = 0 /\ IsAttrs(<<>>)
BY EmptySeq DEF IsSeq, IsAttrs

LEMMA CutText ==
  ASSUME NEW s, IsSeq(s), NEW n \in Nat
  PROVE  /\ IsSeq(SubSeq(s, 1, Shorter(n, Len(s))))
         /\ Len(SubSeq(s, 1, Shorter(n, Len(s)))) = Shorter(n, Len(s))
         /\ Shorter(n, Len(s)) <= n /\ Shorter(n, Len(s)) <= Len(s)
         /\ \A i \in 1..Shorter(n, Len(s)) : SubSeq(s, 1, Shorter(n, Len(s)))[i] = s[i]
<1>1. PICK m : m = Shorter(n, Len(s))
  OBVIOUS
<1>2. Len(s) \in Nat
  BY SeqFacts
<1>3. m \in Nat /\ m <= n /\ m <= Len(s)
  BY <1>1, <1>2 DEF Shorter
<1>4. \A k \in 1..m : s[k] \in ToSet(s)
  BY <1>2, <1>3, ElementOfSeq DEF IsSeq
<1>5. /\ SubSeq(s, 1, m) \in Seq(ToSet(s)) /\ Len(SubSeq(s, 1, m)) = m
      /\ \A k \in 1..m : SubSeq(s, 1, m)[k] = s[k]
  <2>1. 1 \in Int /\ m \in Int /\ m - 1 + 1 = m /\ (IF 1 <= m THEN m - 1 + 1 ELSE 0) = m
    BY <1>3
  <2>2. \A k \in 1..m : s[k] \in ToSet(s) /\ s[1 + k - 1] = s[k]
    BY <1>3, <1>4
  <2>. QED BY <2>1, <2>2, SubSeqProperties
<1>6. IsSeq(SubSeq(s, 1, m))
  BY <1>5, SeqOfElements
<1>. QED BY <1>1, <1>3, <1>5, <1>6

LEMMA readDataLater ==
  ASSUME NEW p, IsParser(p)
  PROVE  /\ Later(p, readData(p)) /\ readData(p).at = p.at /\ readData(p).tok = p.tok
         /\ \A i \in 1..Len(readData(p).text) : readData(p).text[i] = p.text[i]
<1>1. p.at \in Nat \ {0} /\ Len(p.text) \in Nat /\ p.at - 1 \in Nat /\ IsSeq(p.text)
  BY SeqFacts DEF IsParser
<1>2. PICK t : t = SubSeq(p.text, 1, Shorter(p.at - 1, Len(p.text)))
  OBVIOUS
<1>3. IsSeq(t) /\ Len(t) <= Len(p.text) /\ \A i \in 1..Len(t) : t[i] = p.text[i]
  BY <1>1, <1>2, CutText
<1>4. CASE p.fin
  <2>1. readData(p) = [p EXCEPT !.text = t]
    BY <1>2, <1>4 DEF readData
  <2>2. readData(p) = [text |-> t, fin |-> p.fin, at |-> p.at, tok |-> p.tok,
          content |-> p.content, attrs |-> p.attrs, empty |-> p.empty, white |-> p.white]
    BY <2>1 DEF IsParser
  <2>. QED BY <1>1, <1>3, <2>2 DEF Later, IsParser
<1>5. CASE ~p.fin
  <2>1. readData(p) = [text |-> p.text, fin |-> TRUE, at |-> p.at, tok |-> p.tok,
          content |-> p.content, attrs |-> p.attrs, empty |-> p.empty, white |-> p.white]
    BY <1>5 DEF readData, IsParser
  <2>. QED BY <1>1, <2>1 DEF Later, IsParser
<1>. QED BY <1>4, <1>5

LEMMA peekLater ==
  ASSUME NEW p, IsParser(p), NEW k
  PROVE  /\ Later(p, peek(p, k)) /\ peek(p, k).at = p.at /\ peek(p, k).tok = p.tok
         /\ \A i \in 1..Len(peek(p, k).text) : peek(p, k).text[i] = p.text[i]
BY readDataLater, LaterSelf DEF peek

(* A parser that is put somewhere further on.                              *)
LEMMA Advanced ==
  ASSUME NEW p, IsParser(p), NEW k \in Nat
  PROVE  /\ Later(p, [p EXCEPT !.at = @ + k])
         /\ [p EXCEPT !.at = @ + k].at = p.at + k
         /\ [p EXCEPT !.at = @ + k].text = p.text
         /\ [p EXCEPT !.at = @ + k].tok = p.tok
<1>1. p.at \in Nat \ {0} /\ Len(p.text) \in Nat /\ IsSeq(p.text)
  BY SeqFacts DEF IsParser
<1>2. [p EXCEPT !.at = @ + k] =
         [text |-> p.text, fin |-> p.fin, at |-> p.at + k, tok |-> p.tok,
          content |-> p.content, attrs |-> p.attrs, empty |-> p.empty, white |-> p.white]
  BY DEF IsParser
<1>. QED BY <1>1, <1>2 DEF Later, IsParser

LEMMA getNextCharLater ==
  ASSUME NEW p, IsParser(p)
  PROVE  Later(p, getNextChar(p)) /\ getNextChar(p).at = p.at + 1
<1>. DEFINE q == [p EXCEPT !.at = @ + 1]
<1>1. Later(p, q) /\ q.at = p.at + 1
  BY Advanced
<1>. HIDE DEF q
<1>2. Later(q, peek(q, 1)) /\ peek(q, 1).at = q.at
  BY <1>1, peekLater DEF Later
<1>. QED BY <1>1, <1>2, LaterTrans DEF getNextChar, q

LEMMA Lefts ==
  ASSUME NEW a \in Nat, NEW b \in Nat, a <= b, NEW n \in Nat, NEW m \in Nat, m <= n,
         NEW x, x = (IF a > n THEN 0 ELSE n - a + 1), NEW y, y = (IF b > m THEN 0 ELSE m - b + 1)
  PROVE  y \in Nat /\ y <= x /\ (x > 0 /\ (b > a \/ m < n) => y < x)
OBVIOUS

LEMMA LeftFacts ==
  ASSUME NEW p, IsParser(p)
  PROVE  /\ Left(p) \in Nat
         /\ p.at <= Len(p.text) <=> Left(p) > 0
         /\ \A q : Later(p, q) => Left(q) \in Nat /\ Left(q) <= Left(p)
         /\ \A q : Later(p, q) /\ Left(p) > 0 /\ (q.at > p.at \/ Len(q.text) < Len(p.text))
              => Left(q) < Left(p)
<1>1. p.at \in Nat \ {0} /\ Len(p.text) \in Nat
  BY SeqFacts DEF IsParser
<1>2. Left(p) \in Nat /\ (p.at <= Len(p.text) <=> Left(p) > 0)
  BY <1>1 DEF Left
<1>3. ASSUME NEW q, Later(p, q)
      PROVE  /\ Left(q) \in Nat /\ Left(q) <= Left(p)
             /\ Left(p) > 0 /\ (q.at > p.at \/ Len(q.text) < Len(p.text)) => Left(q) < Left(p)
  <2>1. q.at \in Nat \ {0} /\ Len(q.text) \in Nat
    BY <1>3, SeqFacts DEF IsParser, Later
  <2>2. p.at <= q.at /\ Len(q.text) <= Len(p.text)
    BY <1>3 DEF Later
  <2>. QED BY <1>1, <2>1, <2>2, Lefts DEF Left
<1>. QED BY <1>2, <1>3

LEMMA Least ==
  ASSUME NEW T, T \subseteq Nat, T # {}
  PROVE  \E x \in T : \A y \in T : x <= y
<1>. DEFINE R == {ss \in Nat \X Nat : ss[1] < ss[2]}
<1>1. IsWellFoundedOn(R, Nat)
  BY NatLessThanWellFounded DEF OpToRel
<1>. HIDE DEF R
<1>2. PICK x \in T : \A y \in T : <<y, x>> \notin R
  BY <1>1, WFMin
<1>3. ASSUME NEW y \in T PROVE x <= y
  <2>1. x \in Nat /\ y \in Nat
    OBVIOUS
  <2>2. y < x => <<y, x>> \in R
    BY <2>1 DEF R
  <2>. QED BY <1>2, <2>1, <2>2
<1>. QED BY <1>3

LEMMA SeekLater ==
  ASSUME NEW p, IsParser(p), NEW chars, NEW wanted
  PROVE  /\ Later(p, Seek(p, chars, wanted))
         /\ Seek(p, chars, wanted).tok = p.tok
         /\ ~Stops(p, p.at, chars, wanted) => Left(Seek(p, chars, wanted)) < Left(p)
<1>. DEFINE n == Len(p.text)
            First(q) == /\ Stops(p, q, chars, wanted)
                        /\ \A k \in p.at..(q - 1) : ~Stops(p, k, chars, wanted)
            q == CHOOSE q \in p.at..(n + 1) : First(q)
<1>1. p.at \in Nat \ {0} /\ n \in Nat /\ IsSeq(p.text) /\ p.at - 1 \in Nat
  BY SeqFacts DEF IsParser
<1>2. CASE Stops(p, p.at, chars, wanted)
  BY <1>2, LaterSelf DEF Seek
<1>3. CASE ~Stops(p, p.at, chars, wanted)
  <2>1. p.at <= n
    BY <1>1, <1>3 DEF Stops
  <2>2. q \in p.at..(n + 1) /\ First(q)
    <3>. DEFINE T == {k \in p.at..(n + 1) : Stops(p, k, chars, wanted)}
    <3>1. n + 1 \in T
      BY <1>1, <2>1 DEF Stops
    <3>2. T \subseteq Nat
      BY <1>1
    <3>3. PICK k \in T : \A j \in T : k <= j
      BY <3>1, <3>2, Least
    <3>4. k \in Nat /\ k \in p.at..(n + 1) /\ Stops(p, k, chars, wanted)
      BY <3>2
    <3>5. ASSUME NEW j \in p.at..(k - 1) PROVE ~Stops(p, j, chars, wanted)
      BY <1>1, <3>3, <3>4
    <3>6. First(k)
      BY <3>4, <3>5
    <3>. HIDE DEF First
    <3>. QED BY <3>4, <3>6
  <2>3. q \in Nat /\ q # p.at /\ q >= p.at /\ q <= n + 1
    BY <1>1, <1>3, <2>2
  <2>4. Seek(p, chars, wanted) =
          IF q < n THEN [p EXCEPT !.at = q]
          ELSE IF p.fin /\ p.at < n THEN [p EXCEPT !.text = Front(@), !.at = n]
          ELSE [p EXCEPT !.at = q, !.fin = TRUE]
    BY <1>3 DEF Seek
  <2>. HIDE DEF q
  <2>. DEFINE r == Seek(p, chars, wanted)
  <2>5. CASE q < n
    <3>1. r = [text |-> p.text, fin |-> p.fin, at |-> q, tok |-> p.tok,
               content |-> p.content, attrs |-> p.attrs, empty |-> p.empty, white |-> p.white]
      BY <2>4, <2>5 DEF IsParser
    <3>2. Later(p, r) /\ r.tok = p.tok /\ r.at > p.at
      BY <1>1, <2>3, <3>1 DEF Later, IsParser
    <3>. QED BY <2>1, <3>2, LeftFacts
  <2>6. CASE ~(q < n) /\ p.fin /\ p.at < n
    <3>1. r = [text |-> Front(p.text), fin |-> p.fin, at |-> n, tok |-> p.tok,
               content |-> p.content, attrs |-> p.attrs, empty |-> p.empty, white |-> p.white]
      BY <2>4, <2>6 DEF IsParser
    <3>2. IsSeq(Front(p.text)) /\ Len(Front(p.text)) = n - 1
      <4>1. p.text # <<>>
        BY <1>1, <2>6, EmptySeq
      <4>. QED BY <1>1, <4>1, FrontFacts
    <3>3. Later(p, r) /\ r.tok = p.tok /\ r.at > p.at
      BY <1>1, <2>6, <3>1, <3>2 DEF Later, IsParser
    <3>. QED BY <2>1, <3>3, LeftFacts
  <2>7. CASE ~(q < n) /\ ~(p.fin /\ p.at < n)
    <3>1. r = [text |-> p.text, fin |-> TRUE, at |-> q, tok |-> p.tok,
               content |-> p.content, attrs |-> p.attrs, empty |-> p.empty, white |-> p.white]
      BY <2>4, <2>7 DEF IsParser
    <3>2. Later(p, r) /\ r.tok = p.tok /\ r.at > p.at
      BY <1>1, <2>3, <3>1 DEF Later, IsParser
    <3>. QED BY <2>1, <3>2, LeftFacts
  <2>. QED BY <2>5, <2>6, <2>7
<1>. QED BY <1>2, <1>3

LEMMA SeekToLater ==
  ASSUME NEW p, IsParser(p), NEW chars
  PROVE  Later(p, SeekTo(p, chars)) /\ SeekTo(p, chars).tok = p.tok
BY SeekLater DEF SeekTo

LEMMA skipSpaceCharsLater ==
  ASSUME NEW p, IsParser(p) PROVE Later(p, skipSpaceChars(p))
BY SeekLater DEF skipSpaceChars

LEMMA skipNameLater ==
  ASSUME NEW p, IsParser(p) PROVE Later(p, skipName(p))
<1>1. Later(p, getNextChar(p)) /\ IsParser(getNextChar(p))
  BY getNextCharLater DEF Later
<1>. QED BY <1>1, SeekToLater, LaterTrans DEF skipName

LEMMA BetweenIsSeq ==
  ASSUME NEW p, IsParser(p), NEW q, IsParser(q)
  PROVE  IsSeq(Between(p, q))
<1>1. p.at \in Int /\ q.at - 1 \in Int /\ Len(q.text) \in Int /\ IsSeq(q.text)
  BY SeqFacts DEF IsParser
<1>2. Shorter(q.at - 1, Len(q.text)) \in Int
  BY <1>1 DEF Shorter
<1>. QED BY <1>1, <1>2, SubSeqIsSeq DEF Between

-----------------------------------------------------------------------------
(* Natural numbers: a set with 0 that is closed under successor has all.   *)
LEMMA NatSet ==
  ASSUME NEW A, 0 \in A, \A n \in Nat : n \in A => n + 1 \in A
  PROVE  Nat \subseteq A
<1>1. SUFFICES ASSUME Nat \ A # {} PROVE FALSE
  OBVIOUS
<1>2. PICK x \in Nat \ A : \A y \in Nat \ A : x <= y
  <2>1. Nat \ A \subseteq Nat
    OBVIOUS
  <2>. QED BY <1>1, <2>1, Least
<1>3. x # 0 /\ x - 1 \in Nat /\ x - 1 + 1 = x /\ ~(x <= x - 1)
  OBVIOUS
<1>. QED BY <1>2, <1>3

(* Texts are decoded character by character.                               *)
Decoding(f, raw, n) ==
  f = [k \in 0..n |-> IF k = 0 THEN [out |-> <<>>, skip |-> 0] ELSE DecodeNext(raw, f[k - 1], k)]

LEMMA DecodingExists ==
  ASSUME NEW raw, NEW n \in Nat
  PROVE  \E f : Decoding(f, raw, n)
<1>. DEFINE A == {m \in Nat : \E f : Decoding(f, raw, m)}
            a == [out |-> <<>>, skip |-> 0]
<1>. HIDE DEF a
<1>1. 0 \in A
  <2>. DEFINE f == [k \in 0..0 |-> a]
  <2>1. f = [k \in 0..0 |-> IF k = 0 THEN a ELSE DecodeNext(raw, f[k - 1], k)]
    OBVIOUS
  <2>2. Decoding(f, raw, 0)
    BY <2>1 DEF Decoding, a
  <2>. QED BY <2>2
<1>2. ASSUME NEW m \in Nat, m \in A PROVE m + 1 \in A
  <2>1. PICK f : Decoding(f, raw, m)
    BY <1>2
  <2>2. f = [k \in 0..m |-> IF k = 0 THEN a ELSE DecodeNext(raw, f[k - 1], k)]
    BY <2>1 DEF Decoding, a
  <2>. DEFINE g == [k \in 0..(m + 1) |-> IF k <= m THEN f[k] ELSE DecodeNext(raw, f[m], k)]
  <2>3. ASSUME NEW k \in 0..(m + 1)
        PROVE  g[k] = IF k = 0 THEN a ELSE DecodeNext(raw, g[k - 1], k)
    <3>1. CASE k = 0
      BY <2>2, <3>1
    <3>2. CASE k \in 1..m
      <4>1. k - 1 \in 0..m /\ k \in 0..m /\ k # 0 /\ k - 1 \in 0..(m + 1) /\ k - 1 <= m
        BY <3>2
      <4>2. g[k - 1] = f[k - 1] /\ g[k] = f[k]
        BY <3>2, <4>1
      <4>. QED BY <2>2, <4>1, <4>2
    <3>3. CASE k = m + 1
      <4>1. k - 1 = m /\ k # 0 /\ ~(k <= m) /\ m \in 0..(m + 1)
        BY <3>3
      <4>. QED BY <4>1
    <3>. QED BY <3>1, <3>2, <3>3
  <2>4. g = [k \in 0..(m + 1) |-> g[k]]
    OBVIOUS
  <2>. HIDE DEF g
  <2>5. g = [k \in 0..(m + 1) |-> IF k = 0 THEN a ELSE DecodeNext(raw, g[k - 1], k)]
    BY <2>3, <2>4
  <2>6. Decoding(g, raw, m + 1)
    BY <2>5 DEF Decoding, a
  <2>. QED BY <2>6
<1>. HIDE DEF A
<1>3. n \in A
  BY <1>1, <1>2, NatSet
<1>. QED BY <1>3 DEF A

IsDecoded(s) == s = [out |-> s.out, skip |-> s.skip] /\ IsSeq(s.out)

LEMMA DecodedIsSeq == ASSUME NEW raw, IsSeq(raw) PROVE IsSeq(Decoded(raw))
<1>. DEFINE n == Len(raw)
<1>0. n \in Nat
  BY SeqFacts
<1>1. PICK f : Decoding(f, raw, n) /\ Decoded(raw) = f[n].out
  <2>. DEFINE f == CHOOSE f : Decoding(f, raw, n)
  <2>1. Decoding(f, raw, n)
    BY <1>0, DecodingExists
  <2>2. Decoded(raw) = f[n].out
    BY DEF Decoded, Decoding
  <2>. QED BY <2>1, <2>2
<1>. HIDE DEF n
<1>2. f = [k \in 0..n |-> IF k = 0 THEN [out |-> <<>>, skip |-> 0]
                         ELSE DecodeNext(raw, f[k - 1], k)]
  BY <1>1 DEF Decoding
<1>. DEFINE A == {k \in Nat : k <= n => IsDecoded(f[k])}
<1>3. 0 \in A
  <2>1. f[0] = [out |-> <<>>, skip |-> 0]
    BY <1>0, <1>2
  <2>. QED BY <2>1, EmptyIsSeq DEF IsDecoded
<1>4. ASSUME NEW k \in Nat, k \in A PROVE k + 1 \in A
  <2>1. CASE k + 1 <= n
    <3>1. k + 1 \in 0..n /\ k + 1 # 0 /\ k + 1 - 1 = k /\ k <= n
      BY <1>0, <2>1
    <3>2. f[k + 1] = DecodeNext(raw, f[k], k + 1)
      BY <1>2, <3>1
    <3>3. PICK s : s = f[k]
      OBVIOUS
    <3>4. s = [out |-> s.out, skip |-> s.skip] /\ IsSeq(s.out)
      BY <1>4, <3>1, <3>3 DEF IsDecoded
    <3>5. PICK r : r = DecodeNext(raw, s, k + 1)
      OBVIOUS
    <3>6. IsSeq(r.out) /\ r = [out |-> r.out, skip |-> r.skip]
      <4>1. \A c : IsSeq(Append(s.out, c))
        BY <3>4, AppendFacts
      <4>2. CASE s.skip > 0
        <5>1. r = [s EXCEPT !.skip = s.skip - 1]
          BY <3>5, <4>2 DEF DecodeNext
        <5>2. r = [out |-> s.out, skip |-> s.skip - 1]
          BY <3>4, <5>1
        <5>. QED BY <3>4, <5>2
      <4>3. CASE ~(s.skip > 0)
        <5>1. \/ \E c, d : r = [out |-> Append(s.out, c), skip |-> d]
              \/ r = [s EXCEPT !.out = Append(s.out, raw[k + 1])]
          BY <3>5, <4>3 DEF DecodeNext
        <5>2. r = [s EXCEPT !.out = Append(s.out, raw[k + 1])]
                => r = [out |-> Append(s.out, raw[k + 1]), skip |-> s.skip]
          BY <3>4
        <5>3. PICK c, d : r = [out |-> Append(s.out, c), skip |-> d]
          BY <5>1, <5>2
        <5>. QED BY <4>1, <5>3
      <4>. QED BY <4>2, <4>3
    <3>7. IsDecoded(f[k + 1])
      BY <3>2, <3>3, <3>5, <3>6 DEF IsDecoded
    <3>. QED BY <3>7
  <2>. QED BY <2>1
<1>. HIDE DEF A
<1>5. n \in A
  BY <1>0, <1>3, <1>4, NatSet
<1>6. IsDecoded(f[n])
  BY <1>0, <1>5 DEF A
<1>. QED BY <1>1, <1>6 DEF IsDecoded

LEMMA processTextLater ==
  ASSUME NEW p, IsParser(p), NEW delim
  PROVE  Later(p, processText(p, delim).p) /\ IsSeq(processText(p, delim).out)
<1>. DEFINE q == SeekTo(peek(p, 1), {delim})
            raw == Between(p, q)
<1>1. Later(p, peek(p, 1)) /\ IsParser(peek(p, 1))
  BY peekLater DEF Later
<1>2. Later(p, q)
  BY <1>1, SeekToLater, LaterTrans
<1>3. IsSeq(raw)
  BY <1>2, BetweenIsSeq DEF Later
<1>. HIDE DEF raw
<1>4. IsSeq(IF KnownEntities(raw) THEN Decoded(raw) ELSE <<>>)
  BY <1>3, DecodedIsSeq, EmptyIsSeq
<1>5. /\ processText(p, delim).p = q
      /\ processText(p, delim).out = IF KnownEntities(raw) THEN Decoded(raw) ELSE <<>>
  BY DEF processText, raw
<1>. HIDE DEF q
<1>. QED BY <1>2, <1>4, <1>5

(* Writing down what was read moves nothing.                               *)
LEMMA Relabelled ==
  ASSUME NEW p, IsParser(p), NEW x
  PROVE  /\ Later(p, [p EXCEPT !.tok = x]) /\ [p EXCEPT !.tok = x].tok = x
         /\ IsSeq(x) => Later(p, [p EXCEPT !.content = x]) /\ [p EXCEPT !.content = x].tok = p.tok
         /\ IsAttrs(x) => Later(p, [p EXCEPT !.attrs = x]) /\ [p EXCEPT !.attrs = x].tok = p.tok
         /\ Later(p, [p EXCEPT !.white = x]) /\ [p EXCEPT !.white = x].tok = p.tok
<1>. DEFINE q1 == [p EXCEPT !.tok = x]
            q2 == [p EXCEPT !.content = x]
            q3 == [p EXCEPT !.attrs = x]
            q4 == [p EXCEPT !.white = x]
<1>1. p.at \in Nat \ {0} /\ Len(p.text) \in Nat /\ IsSeq(p.text)
  BY SeqFacts DEF IsParser
<1>2. q1 = [text |-> p.text, fin |-> p.fin, at |-> p.at, tok |-> x, content |-> p.content,
            attrs |-> p.attrs, empty |-> p.empty, white |-> p.white]
  BY DEF IsParser
<1>3. q2 = [text |-> p.text, fin |-> p.fin, at |-> p.at, tok |-> p.tok, content |-> x,
            attrs |-> p.attrs, empty |-> p.empty, white |-> p.white]
  BY DEF IsParser
<1>4. q3 = [text |-> p.text, fin |-> p.fin, at |-> p.at, tok |-> p.tok, content |-> p.content,
            attrs |-> x, empty |-> p.empty, white |-> p.white]
  BY DEF IsParser
<1>5. q4 = [text |-> p.text, fin |-> p.fin, at |-> p.at, tok |-> p.tok, content |-> p.content,
            attrs |-> p.attrs, empty |-> p.empty, white |-> x]
  BY DEF IsParser
<1>. HIDE DEF q1, q2, q3, q4
<1>6. Later(p, q1) /\ q1.tok = x
  BY <1>1, <1>2 DEF Later, IsParser
<1>7. IsSeq(x) => Later(p, q2) /\ q2.tok = p.tok
  BY <1>1, <1>3 DEF Later, IsParser
<1>8. IsAttrs(x) => Later(p, q3) /\ q3.tok = p.tok
  BY <1>1, <1>4 DEF Later, IsParser
<1>9. Later(p, q4) /\ q4.tok = p.tok
  BY <1>1, <1>5 DEF Later, IsParser
<1>. QED BY <1>6, <1>7, <1>8, <1>9 DEF q1, q2, q3, q4

LEMMA ReturnedLater ==
  ASSUME NEW p, IsParser(p), NEW tok
  PROVE  Later(p, Returned(p, tok)) /\ Returned(p, tok).tok = tok
BY Relabelled DEF Returned

-----------------------------------------------------------------------------
(* Names and attributes.                                                   *)

(* An attribute list that is being read, from p on.                        *)
Reading(p, a) ==
  a = [p |-> a.p, attrs |-> a.attrs, ok |-> a.ok] /\ Later(p, a.p) /\ IsAttrs(a.attrs)

LEMMA AttrAppended ==
  ASSUME NEW s, IsAttrs(s), NEW b, IsAttr(b) PROVE IsAttrs(Append(s, b))
<1>1. /\ IsSeq(Append(s, b)) /\ Len(Append(s, b)) = Len(s) + 1 /\ Len(s) \in Nat
      /\ \A i \in 1..Len(s) : Append(s, b)[i] = s[i]
      /\ Append(s, b)[Len(s) + 1] = b
  BY AppendFacts, SeqFacts DEF IsAttrs
<1>2. ASSUME NEW k \in 1..(Len(s) + 1) PROVE IsAttr(Append(s, b)[k])
  <2>1. k \in 1..Len(s) \/ k = Len(s) + 1
    BY <1>1
  <2>. QED BY <1>1, <2>1 DEF IsAttrs
<1>. QED BY <1>1, <1>2 DEF IsAttrs

LEMMA nextAttributeLater ==
  ASSUME NEW p, IsParser(p), NEW a, Reading(p, a)
  PROVE  Reading(p, nextAttribute(a))
<1>. DEFINE n == skipName(a.p)
            e == skipSpaceChars(n)
            q == getNextChar(e)
            v == processText(getNextChar(q), Here(q))
            w == WithValue(a, n, e, q, v)
<1>1. IsParser(a.p) /\ Later(p, a.p)
  BY DEF Reading, Later
<1>2. Later(a.p, v.p) /\ IsParser(v.p) /\ IsSeq(v.out) /\ IsSeq(Between(a.p, n))
  <2>1. Later(a.p, n) /\ IsParser(n)
    BY <1>1, skipNameLater DEF Later
  <2>2. Later(n, e) /\ IsParser(e)
    BY <2>1, skipSpaceCharsLater DEF Later
  <2>3. Later(e, q) /\ IsParser(q)
    BY <2>2, getNextCharLater DEF Later
  <2>4. Later(q, getNextChar(q)) /\ IsParser(getNextChar(q))
    BY <2>3, getNextCharLater DEF Later
  <2>5. Later(getNextChar(q), v.p) /\ IsSeq(v.out)
    BY <2>4, processTextLater
  <2>. HIDE DEF n, e, q, v
  <2>6. Later(a.p, q)
    BY <1>1, <2>1, <2>2, <2>3, LaterTrans
  <2>7. Later(q, v.p)
    BY <2>3, <2>4, <2>5, LaterTrans
  <2>8. Later(a.p, v.p)
    BY <1>1, <2>6, <2>7, LaterTrans
  <2>9. IsSeq(Between(a.p, n))
    BY <1>1, <2>1, BetweenIsSeq
  <2>. QED BY <2>5, <2>8, <2>9 DEF Later
<1>. HIDE DEF n, e, q, v
<1>3. Later(a.p, skipSpaceChars(getNextChar(v.p)))
  <2>1. Later(v.p, getNextChar(v.p)) /\ IsParser(getNextChar(v.p))
    BY <1>2, getNextCharLater DEF Later
  <2>2. Later(getNextChar(v.p), skipSpaceChars(getNextChar(v.p)))
    BY <2>1, skipSpaceCharsLater
  <2>. QED BY <1>1, <1>2, <2>1, <2>2, LaterTrans
<1>4. Reading(p, w)
  <2>1. \/ /\ w.p = skipSpaceChars(getNextChar(v.p))
           /\ w = [p |-> w.p, attrs |-> w.attrs, ok |-> w.ok]
           /\ w.attrs = Append(a.attrs, [name |-> Between(a.p, n), value |-> v.out])
        \/ w = [a EXCEPT !.ok = FALSE]
    BY DEF WithValue
  <2>2. CASE w = [a EXCEPT !.ok = FALSE]
    <3>1. w = [p |-> a.p, attrs |-> a.attrs, ok |-> FALSE]
      BY <2>2 DEF Reading
    <3>. QED BY <1>1, <3>1 DEF Reading
  <2>3. CASE /\ w.p = skipSpaceChars(getNextChar(v.p))
             /\ w = [p |-> w.p, attrs |-> w.attrs, ok |-> w.ok]
             /\ w.attrs = Append(a.attrs, [name |-> Between(a.p, n), value |-> v.out])
    <3>1. Later(p, w.p)
      BY <1>1, <1>3, <2>3, LaterTrans
    <3>. HIDE DEF w
    <3>2. PICK b : b = [name |-> Between(a.p, n), value |-> v.out]
      OBVIOUS
    <3>3. IsAttr(b)
      BY <1>2, <3>2 DEF IsAttr
    <3>4. IsAttrs(Append(a.attrs, b))
      BY <3>3, AttrAppended DEF Reading
    <3>. QED BY <2>3, <3>1, <3>2, <3>4 DEF Reading
  <2>. QED BY <2>1, <2>2, <2>3
<1>5. nextAttribute(a) = w \/ nextAttribute(a) = a
  BY DEF nextAttribute, oneAttribute, w, v, q, e, n
<1>. QED BY <1>4, <1>5

(* The list as a function exists, so its definition means something.       *)
ListFunction(f, a, n) ==
  f = [k \in 0..n |-> IF k = 0 THEN a ELSE nextAttribute(f[k - 1])]

LEMMA ListFunctionExists ==
  ASSUME NEW a, NEW n \in Nat
  PROVE  \E f : ListFunction(f, a, n)
<1>. DEFINE A == {m \in Nat : \E f : ListFunction(f, a, m)}
<1>1. 0 \in A
  <2>. DEFINE f == [k \in 0..0 |-> a]
  <2>1. f = [k \in 0..0 |-> IF k = 0 THEN a ELSE nextAttribute(f[k - 1])]
    OBVIOUS
  <2>2. ListFunction(f, a, 0)
    BY <2>1 DEF ListFunction
  <2>. QED BY <2>2
<1>2. ASSUME NEW m \in Nat, m \in A PROVE m + 1 \in A
  <2>1. PICK f : ListFunction(f, a, m)
    BY <1>2
  <2>2. f = [k \in 0..m |-> IF k = 0 THEN a ELSE nextAttribute(f[k - 1])]
    BY <2>1 DEF ListFunction
  <2>. DEFINE g == [k \in 0..(m + 1) |-> IF k <= m THEN f[k] ELSE nextAttribute(f[m])]
  <2>3. ASSUME NEW k \in 0..(m + 1)
        PROVE  g[k] = IF k = 0 THEN a ELSE nextAttribute(g[k - 1])
    <3>1. CASE k = 0
      BY <2>2, <3>1
    <3>2. CASE k \in 1..m
      <4>1. k - 1 \in 0..m /\ k \in 0..m /\ k # 0 /\ k - 1 \in 0..(m + 1) /\ k - 1 <= m
        BY <3>2
      <4>2. g[k - 1] = f[k - 1] /\ g[k] = f[k]
        BY <3>2, <4>1
      <4>. QED BY <2>2, <4>1, <4>2
    <3>3. CASE k = m + 1
      <4>1. k - 1 = m /\ k # 0 /\ ~(k <= m) /\ m \in 0..(m + 1)
        BY <3>3
      <4>. QED BY <4>1
    <3>. QED BY <3>1, <3>2, <3>3
  <2>4. g = [k \in 0..(m + 1) |-> g[k]]
    OBVIOUS
  <2>. HIDE DEF g
  <2>5. g = [k \in 0..(m + 1) |-> IF k = 0 THEN a ELSE nextAttribute(g[k - 1])]
    BY <2>3, <2>4
  <2>6. ListFunction(g, a, m + 1)
    BY <2>5 DEF ListFunction
  <2>. QED BY <2>6
<1>. HIDE DEF A
<1>3. n \in A
  BY <1>1, <1>2, NatSet
<1>. QED BY <1>3 DEF A

LEMMA attributeListLater ==
  ASSUME NEW p, IsParser(p), NEW a, Reading(p, a), NEW n \in Nat
  PROVE  Reading(p, attributeList(a, n))
<1>1. PICK f : ListFunction(f, a, n) /\ attributeList(a, n) = f[n]
  <2>. DEFINE f == CHOOSE f : ListFunction(f, a, n)
  <2>1. ListFunction(f, a, n)
    BY ListFunctionExists
  <2>2. attributeList(a, n) = f[n]
    BY DEF attributeList, ListFunction
  <2>. QED BY <2>1, <2>2
<1>2. f = [k \in 0..n |-> IF k = 0 THEN a ELSE nextAttribute(f[k - 1])]
  BY <1>1 DEF ListFunction
<1>. DEFINE A == {k \in Nat : k <= n => Reading(p, f[k])}
<1>3. 0 \in A
  BY <1>2
<1>4. ASSUME NEW k \in Nat, k \in A PROVE k + 1 \in A
  <2>1. CASE k + 1 <= n
    <3>1. k + 1 \in 0..n /\ k + 1 # 0 /\ k + 1 - 1 = k /\ k <= n
      BY <2>1
    <3>2. f[k + 1] = nextAttribute(f[k])
      BY <1>2, <3>1
    <3>3. Reading(p, f[k])
      BY <1>4, <3>1
    <3>. QED BY <3>2, <3>3, nextAttributeLater
  <2>. QED BY <2>1
<1>. HIDE DEF A
<1>5. n \in A
  BY <1>3, <1>4, NatSet
<1>. QED BY <1>1, <1>5 DEF A

LEMMA parseNameAndAttributesLater ==
  ASSUME NEW p, IsParser(p)
  PROVE  Reading(p, parseNameAndAttributes(p))
<1>. DEFINE n == skipName(p)
            c == [n EXCEPT !.content = Between(p, n)]
            a == [p |-> skipSpaceChars(c), attrs |-> <<>>, ok |-> EndsName(Here(n))]
            E == {i \in p.at..Len(p.text) : p.text[i] = "="}
<1>1. Later(p, n) /\ IsParser(n)
  BY skipNameLater DEF Later
<1>. HIDE DEF n
<1>2. Later(n, c) /\ IsParser(c)
  <2>1. Later(n, c)
    BY <1>1, BetweenIsSeq, Relabelled
  <2>. HIDE DEF c
  <2>. QED BY <2>1 DEF Later
<1>. HIDE DEF c
<1>3. Later(p, skipSpaceChars(c))
  BY <1>1, <1>2, skipSpaceCharsLater, LaterTrans
<1>4. Reading(p, a)
  BY <1>3, EmptyIsSeq DEF Reading
<1>5. Cardinality(E) + 1 \in Nat
  <2>1. p.at \in Nat /\ Len(p.text) \in Nat
    BY SeqFacts DEF IsParser
  <2>2. E \subseteq p.at..Len(p.text)
    OBVIOUS
  <2>. HIDE DEF E
  <2>3. p.at \in Int /\ Len(p.text) \in Int
    BY <2>1
  <2>4. IsFiniteSet(p.at..Len(p.text))
    BY <2>3, FS_Interval
  <2>5. Cardinality(E) \in Nat
    BY <2>2, <2>4, FS_Subset, FS_CardinalityType
  <2>. QED BY <2>5
<1>6. parseNameAndAttributes(p) = attributeList(a, Cardinality(E) + 1)
  BY DEF parseNameAndAttributes, n, c
<1>. HIDE DEF a, E
<1>. QED BY <1>4, <1>5, <1>6, attributeListLater

-----------------------------------------------------------------------------
(* The tokens.                                                             *)

(* What a token that starts at p may leave behind.                         *)
Taken(p, t) ==
  /\ IsParser(t) /\ p.at <= t.at /\ Len(t.text) <= Len(p.text)
  /\ t.tok = "StartTag" \/ t.empty = p.empty
  /\ t.tok \in {"StartTag", "EndTag", "Text", "Clear", "ProcessingInstruction",
                "EndDocument", "Error", "Endless"}

LEMMA TakenLater ==
  ASSUME NEW p, IsParser(p), NEW q, Later(p, q), NEW t, Taken(q, t)
  PROVE  Taken(p, t)
<1>1. /\ p.at \in Nat /\ q.at \in Nat /\ t.at \in Nat
      /\ Len(p.text) \in Nat /\ Len(q.text) \in Nat /\ Len(t.text) \in Nat
  BY SeqFacts DEF IsParser, Later, Taken
<1>. QED BY <1>1 DEF Later, Taken

LEMMA LaterTaken ==
  ASSUME NEW p, IsParser(p), NEW t, Later(p, t),
         t.tok \in {"StartTag", "EndTag", "Text", "Clear", "ProcessingInstruction",
                    "EndDocument", "Error", "Endless"}
  PROVE  Taken(p, t)
BY DEF Later, Taken

LEMMA ErrorTaken ==
  ASSUME NEW p, IsParser(p), NEW q, Later(p, q)
  PROVE  Taken(p, Error(q))
<1>1. Later(q, Error(q)) /\ Error(q).tok = "Error"
  BY ReturnedLater DEF Error, Later
<1>2. Later(p, Error(q))
  BY <1>1, LaterTrans
<1>. QED BY <1>1, <1>2, LaterTaken

LEMMA EndTagTaken ==
  ASSUME NEW p, IsParser(p) PROVE Taken(p, EndTag(p))
<1>. DEFINE n == skipName(p)
            e == skipSpaceChars(n)
            g == getNextChar(e)
            t == [g EXCEPT !.tok = "EndTag", !.content = Between(p, n)]
<1>1. Later(p, e) /\ IsParser(e) /\ IsSeq(Between(p, n))
  <2>1. Later(p, n) /\ IsParser(n)
    BY skipNameLater DEF Later
  <2>2. Later(n, e) /\ IsParser(e)
    BY <2>1, skipSpaceCharsLater DEF Later
  <2>. HIDE DEF n, e
  <2>. QED BY <2>1, <2>2, BetweenIsSeq, LaterTrans
<1>2. EndTag(p) = t \/ EndTag(p) = Error(e)
  BY DEF EndTag
<1>. HIDE DEF n, e
<1>3. Later(p, g) /\ IsParser(g)
  <2>1. Later(e, g) /\ IsParser(g)
    BY <1>1, getNextCharLater DEF Later
  <2>. HIDE DEF g
  <2>. QED BY <1>1, <2>1, LaterTrans
<1>. HIDE DEF g
<1>4. Taken(p, t)
  <2>. DEFINE r == [g EXCEPT !.tok = "EndTag"]
  <2>1. Later(g, r) /\ IsParser(r) /\ r.tok = "EndTag"
    BY <1>3, Relabelled DEF Later
  <2>2. t = [r EXCEPT !.content = Between(p, n)]
    OBVIOUS
  <2>. HIDE DEF t, r
  <2>3. Later(r, t) /\ t.tok = "EndTag"
    BY <1>1, <2>1, <2>2, Relabelled
  <2>. QED BY <1>3, <2>1, <2>3, LaterTrans, LaterTaken
<1>5. Taken(p, Error(e))
  BY <1>1, ErrorTaken
<1>. HIDE DEF t
<1>. QED BY <1>2, <1>4, <1>5

LEMMA ProcessingInstructionTaken ==
  ASSUME NEW p, IsParser(p) PROVE Taken(p, ProcessingInstruction(p))
<1>1. PICK a : a = parseNameAndAttributes(p)
  OBVIOUS
<1>2. Later(p, a.p) /\ IsParser(a.p) /\ IsAttrs(a.attrs)
  BY <1>1, parseNameAndAttributesLater DEF Reading, Later
<1>. DEFINE e == getNextChar(a.p)
            g == getNextChar(e)
            t == [g EXCEPT !.tok = "ProcessingInstruction", !.attrs = a.attrs]
<1>3. ProcessingInstruction(p) = t \/ ProcessingInstruction(p) = Error(e)
  BY <1>1 DEF ProcessingInstruction, InstructionToken
<1>4. Later(p, e) /\ IsParser(e)
  <2>1. Later(a.p, e) /\ IsParser(e)
    BY <1>2, getNextCharLater DEF Later
  <2>. HIDE DEF e
  <2>. QED BY <1>2, <2>1, LaterTrans
<1>. HIDE DEF e
<1>5. Later(p, g) /\ IsParser(g)
  <2>1. Later(e, g) /\ IsParser(g)
    BY <1>4, getNextCharLater DEF Later
  <2>. HIDE DEF g
  <2>. QED BY <1>4, <2>1, LaterTrans
<1>. HIDE DEF g
<1>6. Taken(p, t)
  <2>. DEFINE r == [g EXCEPT !.tok = "ProcessingInstruction"]
  <2>1. Later(g, r) /\ IsParser(r) /\ r.tok = "ProcessingInstruction"
    BY <1>5, Relabelled DEF Later
  <2>2. t = [r EXCEPT !.attrs = a.attrs]
    OBVIOUS
  <2>. HIDE DEF t, r
  <2>3. Later(r, t) /\ t.tok = "ProcessingInstruction"
    BY <1>2, <2>1, <2>2, Relabelled
  <2>. QED BY <1>5, <2>1, <2>3, LaterTrans, LaterTaken
<1>7. Taken(p, Error(e))
  BY <1>4, ErrorTaken
<1>. HIDE DEF t
<1>. QED BY <1>3, <1>6, <1>7

LEMMA StartTagTaken ==
  ASSUME NEW p, IsParser(p) PROVE Taken(p, StartTag(p))
<1>1. PICK a : a = parseNameAndAttributes(p)
  OBVIOUS
<1>2. Later(p, a.p) /\ IsParser(a.p) /\ IsAttrs(a.attrs)
  BY <1>1, parseNameAndAttributesLater DEF Reading, Later
<1>. DEFINE alone == Here(a.p) = "/"
            e == IF alone THEN getNextChar(a.p) ELSE a.p
            g == getNextChar(e)
            t == [g EXCEPT !.tok = "StartTag", !.attrs = a.attrs, !.empty = alone]
<1>3. StartTag(p) = t \/ StartTag(p) = Error(e)
  BY <1>1 DEF StartTag, StartToken
<1>4. Later(p, e) /\ IsParser(e)
  <2>1. Later(a.p, getNextChar(a.p)) /\ IsParser(getNextChar(a.p))
    BY <1>2, getNextCharLater DEF Later
  <2>2. Later(p, getNextChar(a.p))
    BY <1>2, <2>1, LaterTrans
  <2>3. e = getNextChar(a.p) \/ e = a.p
    OBVIOUS
  <2>. HIDE DEF e
  <2>. QED BY <1>2, <2>1, <2>2, <2>3
<1>. HIDE DEF e
<1>5. Later(p, g) /\ IsParser(g)
  <2>1. Later(e, g) /\ IsParser(g)
    BY <1>4, getNextCharLater DEF Later
  <2>. HIDE DEF g
  <2>. QED BY <1>4, <2>1, LaterTrans
<1>. HIDE DEF g
<1>6. Taken(p, t)
  <2>. DEFINE r == [g EXCEPT !.tok = "StartTag"]
              v == [r EXCEPT !.attrs = a.attrs]
  <2>1. Later(g, r) /\ IsParser(r) /\ r.tok = "StartTag"
    BY <1>5, Relabelled DEF Later
  <2>2. t = [v EXCEPT !.empty = alone]
    OBVIOUS
  <2>. HIDE DEF t, r, alone
  <2>3. Later(r, v) /\ v.tok = "StartTag" /\ IsParser(v)
    BY <1>2, <2>1, Relabelled DEF Later
  <2>. HIDE DEF v
  <2>4. t = [text |-> v.text, fin |-> v.fin, at |-> v.at, tok |-> v.tok, content |-> v.content,
             attrs |-> v.attrs, empty |-> alone, white |-> v.white]
    BY <2>2, <2>3 DEF IsParser
  <2>5. t.text = v.text /\ t.at = v.at /\ t.tok = "StartTag" /\ IsParser(t)
    BY <2>3, <2>4 DEF IsParser
  <2>6. Later(p, v)
    BY <1>5, <2>1, <2>3, LaterTrans
  <2>. QED BY <2>5, <2>6 DEF Taken, Later
<1>7. Taken(p, Error(e))
  BY <1>4, ErrorTaken
<1>. HIDE DEF t
<1>. QED BY <1>3, <1>6, <1>7

(* A clear tag that is being read.                                         *)
Clearing(p, q) == Later(p, q) /\ q.tok \in {"Clear", "Endless"}

LEMMA findClearTagEndClearing ==
  ASSUME NEW p, IsParser(p), p.tok = "Clear", NEW close
  PROVE  Clearing(p, findClearTagEnd(p, close))
<1>. DEFINE s == peek(p, 1)
            e == SeekTo(s, {Head(close)})
            u == peek(e, Len(close) - 1)
<1>1. Later(p, s) /\ IsParser(s) /\ s.tok = "Clear"
  BY peekLater DEF Later
<1>2. Later(s, e) /\ IsParser(e) /\ e.tok = "Clear"
  BY <1>1, SeekToLater DEF Later
<1>3. Later(e, u) /\ IsParser(u) /\ u.tok = "Clear"
  BY <1>2, peekLater DEF Later
<1>4. findClearTagEnd(p, close) \in {e, u, Returned(u, "Endless")}
  BY DEF findClearTagEnd
<1>. HIDE DEF s, e, u
<1>5. Later(p, e) /\ Later(p, u)
  BY <1>1, <1>2, <1>3, LaterTrans
<1>6. Later(u, Returned(u, "Endless")) /\ Returned(u, "Endless").tok = "Endless"
  BY <1>3, ReturnedLater
<1>7. Later(p, Returned(u, "Endless"))
  BY <1>5, <1>6, LaterTrans
<1>. QED BY <1>2, <1>3, <1>4, <1>5, <1>6, <1>7 DEF Clearing

LEMMA DoctypeEndClearing ==
  ASSUME NEW p, IsParser(p), p.tok = "Clear", NEW close
  PROVE  Clearing(p, DoctypeEnd(p, close))
<1>. DEFINE s == peek(p, 1)
            e == SeekTo(s, {"<", ">"})
<1>1. Later(p, s) /\ IsParser(s) /\ s.tok = "Clear"
  BY peekLater DEF Later
<1>2. Later(s, e) /\ IsParser(e) /\ e.tok = "Clear"
  BY <1>1, SeekToLater DEF Later
<1>3. DoctypeEnd(p, close) \in {e, findClearTagEnd(e, close)}
  BY DEF DoctypeEnd
<1>. HIDE DEF s, e
<1>4. Later(p, e)
  BY <1>1, <1>2, LaterTrans
<1>5. Clearing(e, findClearTagEnd(e, close))
  BY <1>2, findClearTagEndClearing
<1>6. Clearing(p, findClearTagEnd(e, close))
  BY <1>4, <1>5, LaterTrans DEF Clearing
<1>. QED BY <1>2, <1>3, <1>4, <1>6 DEF Clearing

LEMMA ClearTaken ==
  ASSUME NEW p, IsParser(p), NEW tag \in ClearTags
  PROVE  Taken(p, Clear(p, tag))
<1>1. Len(tag.open) \in Nat /\ Len(tag.close) \in Nat
  BY DEF ClearTags, DOCTYPE
<1>2. PICK open \in Nat : open = Len(tag.open)
  BY <1>1
<1>3. PICK close \in Nat : close = Len(tag.close)
  BY <1>1
<1>. DEFINE a == [p EXCEPT !.at = @ + open]
            s == [p EXCEPT !.at = @ + open, !.tok = "Clear"]
            e == IF tag = DOCTYPE THEN DoctypeEnd(s, tag.close)
                 ELSE findClearTagEnd(s, tag.close)
            b == [e EXCEPT !.content = Between(s, e)]
            t == [e EXCEPT !.content = Between(s, e), !.at = @ + close]
<1>4. Clear(p, tag) = t
  BY <1>2, <1>3 DEF Clear
<1>5. Later(p, s) /\ IsParser(s) /\ s.tok = "Clear"
  <2>1. Later(p, a) /\ IsParser(a)
    BY Advanced DEF Later
  <2>2. s = [a EXCEPT !.tok = "Clear"]
    OBVIOUS
  <2>. HIDE DEF a, s
  <2>3. Later(a, s) /\ s.tok = "Clear"
    BY <2>1, <2>2, Relabelled
  <2>4. Later(p, s)
    BY <2>1, <2>3, LaterTrans
  <2>. QED BY <2>3, <2>4 DEF Later
<1>. HIDE DEF s
<1>6. Clearing(s, e)
  BY <1>5, findClearTagEndClearing, DoctypeEndClearing
<1>. HIDE DEF e
<1>7. Later(p, e) /\ IsParser(e) /\ e.tok \in {"Clear", "Endless"}
  <2>1. Later(s, e) /\ e.tok \in {"Clear", "Endless"}
    BY <1>6 DEF Clearing
  <2>2. Later(p, e)
    BY <1>5, <2>1, LaterTrans
  <2>. QED BY <2>1, <2>2 DEF Later
<1>8. Later(p, t) /\ t.tok = e.tok
  <2>1. Later(e, b) /\ b.tok = e.tok /\ IsParser(b)
    <3>1. IsSeq(Between(s, e))
      BY <1>5, <1>7, BetweenIsSeq
    <3>. QED BY <1>7, <3>1, Relabelled DEF Later
  <2>2. t = [b EXCEPT !.at = @ + close]
    BY <1>7 DEF IsParser
  <2>. HIDE DEF t, b
  <2>3. Later(b, t) /\ t.tok = b.tok
    BY <2>1, <2>2, Advanced
  <2>4. Later(p, b)
    BY <1>7, <2>1, LaterTrans
  <2>. QED BY <2>1, <2>3, <2>4, LaterTrans
<1>. HIDE DEF t
<1>. QED BY <1>4, <1>7, <1>8, LaterTaken

LEMMA MarkupTaken ==
  ASSUME NEW p, IsParser(p) PROVE Taken(p, Markup(p))
<1>. DEFINE u == peek(p, maxIXMLClearTagsOpenTagLen)
            tags == {c \in ClearTags : StartsWith(u, c.open)}
            tag == CHOOSE c \in tags : TRUE
            g == getNextChar(p)
<1>1. Later(p, u) /\ IsParser(u) /\ Later(p, g) /\ IsParser(g)
  BY peekLater, getNextCharLater DEF Later
<1>2. \/ Markup(p) = EndTag(g) \/ Markup(p) = ProcessingInstruction(g)
      \/ Markup(p) = StartTag(u) \/ (tags # {} /\ Markup(p) = Clear(u, tag))
  BY DEF Markup
<1>3. tags # {} => tag \in ClearTags
  OBVIOUS
<1>. HIDE DEF u, g, tags, tag
<1>4. Taken(g, EndTag(g)) /\ Taken(g, ProcessingInstruction(g)) /\ Taken(u, StartTag(u))
  BY <1>1, EndTagTaken, ProcessingInstructionTaken, StartTagTaken
<1>5. tags # {} => Taken(u, Clear(u, tag))
  BY <1>1, <1>3, ClearTaken
<1>. QED BY <1>1, <1>2, <1>4, <1>5, TakenLater

(* A text is at least one character.                                       *)
LEMMA processTextLess ==
  ASSUME NEW p, IsParser(p), NEW delim, Here(p) # NUL, Here(p) # delim
  PROVE  Left(processText(p, delim).p) < Left(p)
<1>. DEFINE u == peek(p, 1)
            q == SeekTo(u, {delim})
<1>1. /\ Later(p, u) /\ IsParser(u) /\ u.at = p.at
      /\ \A i \in 1..Len(u.text) : u.text[i] = p.text[i]
  BY peekLater DEF Later
<1>2. p.at \in Nat \ {0} /\ Len(p.text) \in Nat /\ Len(u.text) \in Nat /\ Len(u.text) <= Len(p.text)
  BY <1>1, SeqFacts DEF IsParser, Later
<1>3. p.at <= Len(p.text) /\ Here(p) = p.text[p.at]
  BY <1>2 DEF Here
<1>4. Left(p) \in Nat /\ Left(p) > 0 /\ Left(u) \in Nat /\ Left(u) <= Left(p)
  BY <1>1, <1>3, LeftFacts
<1>5. processText(p, delim).p = q
  BY DEF processText
<1>. HIDE DEF u
<1>6. Later(u, q) /\ Left(q) \in Nat /\ Left(q) <= Left(u)
  BY <1>1, SeekToLater, LeftFacts
<1>7. CASE p.at > Len(u.text)
  <2>1. Left(u) < Left(p)
    BY <1>1, <1>2, <1>3, <1>4, <1>7, LeftFacts
  <2>. HIDE DEF q
  <2>. QED BY <1>4, <1>5, <1>6, <2>1
<1>8. CASE p.at <= Len(u.text)
  <2>1. u.text[u.at] # delim
    BY <1>1, <1>2, <1>3, <1>8
  <2>2. ~Stops(u, u.at, {delim}, TRUE)
    BY <1>1, <1>2, <1>8, <2>1 DEF Stops
  <2>3. Left(q) < Left(u)
    BY <1>1, <2>2, SeekLater DEF SeekTo
  <2>. HIDE DEF q
  <2>. QED BY <1>4, <1>5, <1>6, <2>3
<1>. QED BY <1>2, <1>7, <1>8

LEMMA TextTaken ==
  ASSUME NEW p, IsParser(p), Here(p) # NUL, Here(p) # "<"
  PROVE  Taken(p, Text(p)) /\ Left(Text(p)) < Left(p)
<1>1. PICK x : x = processText(p, "<")
  OBVIOUS
<1>2. Later(p, x.p) /\ IsParser(x.p) /\ Left(x.p) < Left(p) /\ IsSeq(x.out)
  BY <1>1, processTextLater, processTextLess DEF Later
<1>3. Left(p) \in Nat /\ Left(x.p) \in Nat
  BY <1>2, LeftFacts
<1>4. PICK tok : tok = IF Here(x.p) # NUL \/ x.out # <<>> THEN "Text" ELSE "EndDocument"
  OBVIOUS
<1>. DEFINE a == [x.p EXCEPT !.tok = tok]
            b == [a EXCEPT !.content = x.out]
            c == [b EXCEPT !.attrs = <<>>]
            t == [c EXCEPT !.white = x.white]
<1>5. Text(p) = t \/ Text(p) = Error(x.p)
  BY <1>1, <1>4 DEF Text, TextToken
<1>6. Later(x.p, t) /\ t.tok = tok
  <2>1. Later(x.p, a) /\ a.tok = tok /\ IsParser(a)
    BY <1>2, Relabelled DEF Later
  <2>. HIDE DEF a
  <2>2. Later(a, b) /\ b.tok = tok /\ IsParser(b)
    BY <1>2, <2>1, Relabelled DEF Later
  <2>. HIDE DEF b
  <2>3. Later(b, c) /\ c.tok = tok /\ IsParser(c)
    BY <2>2, EmptyIsSeq, Relabelled DEF Later
  <2>. HIDE DEF c
  <2>4. Later(c, t) /\ t.tok = tok
    BY <2>3, Relabelled
  <2>. HIDE DEF t
  <2>5. Later(x.p, c)
    BY <1>2, <2>1, <2>2, <2>3, LaterTrans
  <2>. QED BY <1>2, <2>3, <2>4, <2>5, LaterTrans
<1>. HIDE DEF t
<1>7. Later(x.p, Error(x.p)) /\ Error(x.p).tok = "Error"
  BY <1>2, ReturnedLater DEF Error
<1>8. PICK r : r = Text(p)
  OBVIOUS
<1>9. Later(x.p, r) /\ r.tok \in {"Text", "EndDocument", "Error"}
  BY <1>4, <1>5, <1>6, <1>7, <1>8
<1>10. Left(r) \in Nat /\ Left(r) <= Left(x.p)
  BY <1>2, <1>9, LeftFacts
<1>11. Later(p, r)
  BY <1>2, <1>9, LaterTrans
<1>12. Taken(p, r)
  BY <1>9, <1>11, LaterTaken
<1>13. Left(r) < Left(p)
  BY <1>2, <1>3, <1>10
<1>. QED BY <1>8, <1>12, <1>13

(* A token that keeps a level open or opens one takes a character.         *)
LEMMA nextTokenTaken ==
  ASSUME NEW p, IsParser(p)
  PROVE  /\ IsParser(nextToken(p))
         /\ Left(nextToken(p)) \in Nat /\ Left(nextToken(p)) <= Left(p)
         /\ nextToken(p).tok = "StartTag" \/ (nextToken(p).empty => p.empty)
         /\ nextToken(p).tok \in {"StartTag", "Text", "Clear", "ProcessingInstruction"}
              => Left(nextToken(p)) < Left(p)
<1>1. PICK t : t = nextToken(p)
  OBVIOUS
<1>2. PICK r : r = IF p.tok = "Text" THEN p ELSE peek(p, 1)
  OBVIOUS
<1>3. Later(p, r) /\ IsParser(r)
  BY <1>2, peekLater, LaterSelf DEF Later
<1>4. Left(p) \in Nat /\ Left(r) \in Nat /\ Left(r) <= Left(p)
  BY <1>3, LeftFacts
<1>. DEFINE e == [p EXCEPT !.empty = FALSE, !.tok = "EndTag"]
            Ends(q) == q.tok \in {"EndTag", "Error", "EndDocument", "Endless"}
<1>5. \/ t = p /\ Ends(p)
      \/ p.empty /\ t = e
      \/ t = Error(p)
      \/ t = Returned(r, "EndDocument")
      \/ Here(r) = "<" /\ t = Markup(getNextChar(r))
      \/ Here(r) # NUL /\ Here(r) # "<" /\ t = Text(r)
  BY <1>1, <1>2 DEF nextToken
<1>6. CASE t = p /\ Ends(p)
  BY <1>1, <1>4, <1>6
<1>7. CASE p.empty /\ t = e
  <2>. DEFINE a == [p EXCEPT !.tok = "EndTag"]
  <2>1. Later(p, a) /\ a.tok = "EndTag" /\ IsParser(a)
    BY Relabelled DEF Later
  <2>2. t = [a EXCEPT !.empty = FALSE]
    BY <1>7
  <2>. HIDE DEF a
  <2>3. t = [text |-> a.text, fin |-> a.fin, at |-> a.at, tok |-> a.tok, content |-> a.content,
             attrs |-> a.attrs, empty |-> FALSE, white |-> a.white]
    BY <2>1, <2>2 DEF IsParser
  <2>4. t.text = a.text /\ t.at = a.at /\ t.tok = "EndTag" /\ IsParser(t)
    BY <2>1, <2>3 DEF IsParser
  <2>5. Left(t) = Left(a) /\ Left(a) \in Nat /\ Left(a) <= Left(p)
    BY <2>1, <2>4, LeftFacts DEF Left
  <2>. QED BY <1>1, <1>7, <2>4, <2>5
<1>8. CASE t = Error(p)
  <2>1. Later(p, t) /\ t.tok = "Error"
    BY <1>8, ReturnedLater DEF Error
  <2>. QED BY <1>1, <2>1, LeftFacts DEF Later
<1>9. CASE t = Returned(r, "EndDocument")
  <2>1. Later(r, t) /\ t.tok = "EndDocument"
    BY <1>3, <1>9, ReturnedLater
  <2>2. Later(p, t)
    BY <1>3, <2>1, LaterTrans
  <2>. QED BY <1>1, <2>1, <2>2, LeftFacts DEF Later
<1>10. CASE Here(r) = "<" /\ t = Markup(getNextChar(r))
  <2>1. PICK g : g = getNextChar(r)
    OBVIOUS
  <2>2. Later(r, g) /\ IsParser(g) /\ g.at = r.at + 1
    BY <1>3, <2>1, getNextCharLater DEF Later
  <2>3. r.at \in Nat /\ Len(r.text) \in Nat /\ r.at <= Len(r.text) /\ g.at > r.at
    BY <1>3, <1>10, <2>2, SeqFacts DEF IsParser, Here, NUL
  <2>4. Left(g) \in Nat /\ Left(g) < Left(r)
    BY <1>3, <2>2, <2>3, LeftFacts
  <2>5. Taken(g, t)
    BY <1>10, <2>1, <2>2, MarkupTaken
  <2>6. Left(t) \in Nat /\ Left(t) <= Left(g)
    <3>1. /\ g.at \in Nat /\ t.at \in Nat /\ Len(g.text) \in Nat /\ Len(t.text) \in Nat
          /\ g.at <= t.at /\ Len(t.text) <= Len(g.text)
      BY <2>2, <2>5, SeqFacts DEF IsParser, Taken
    <3>. QED BY <3>1, Lefts DEF Left
  <2>7. g.empty = p.empty
    BY <1>3, <2>2 DEF Later
  <2>. QED BY <1>1, <1>4, <2>4, <2>5, <2>6, <2>7 DEF Taken
<1>11. CASE Here(r) # NUL /\ Here(r) # "<" /\ t = Text(r)
  <2>1. Taken(r, t) /\ Left(t) < Left(r)
    BY <1>3, <1>11, TextTaken
  <2>2. Left(t) \in Nat
    <3>1. t.at \in Nat /\ Len(t.text) \in Nat
      BY <2>1, SeqFacts DEF IsParser, Taken
    <3>. QED BY <3>1 DEF Left
  <2>3. r.empty = p.empty
    BY <1>3 DEF Later
  <2>. QED BY <1>1, <1>4, <2>1, <2>2, <2>3 DEF Taken
<1>. HIDE DEF e, Ends
<1>. QED BY <1>5, <1>6, <1>7, <1>8, <1>9, <1>10, <1>11

-----------------------------------------------------------------------------
(* Sums and flattened sequences, as functions that exist.                  *)

Summing(f, s, n) == f = [k \in 0..n |-> IF k = 0 THEN 0 ELSE f[k - 1] + s[k]]

LEMMA SumExists ==
  ASSUME NEW s, NEW n \in Nat
  PROVE  \E f : Summing(f, s, n)
<1>. DEFINE A == {m \in Nat : \E f : Summing(f, s, m)}
<1>1. 0 \in A
  <2>. DEFINE f == [k \in 0..0 |-> 0]
  <2>1. f = [k \in 0..0 |-> IF k = 0 THEN 0 ELSE f[k - 1] + s[k]]
    OBVIOUS
  <2>2. Summing(f, s, 0)
    BY <2>1 DEF Summing
  <2>. QED BY <2>2
<1>2. ASSUME NEW m \in Nat, m \in A PROVE m + 1 \in A
  <2>1. PICK f : Summing(f, s, m)
    BY <1>2
  <2>2. f = [k \in 0..m |-> IF k = 0 THEN 0 ELSE f[k - 1] + s[k]]
    BY <2>1 DEF Summing
  <2>. DEFINE g == [k \in 0..(m + 1) |-> IF k <= m THEN f[k] ELSE f[m] + s[k]]
  <2>3. ASSUME NEW k \in 0..(m + 1)
        PROVE  g[k] = IF k = 0 THEN 0 ELSE g[k - 1] + s[k]
    <3>1. CASE k = 0
      BY <2>2, <3>1
    <3>2. CASE k \in 1..m
      <4>1. k - 1 \in 0..m /\ k \in 0..m /\ k # 0 /\ k - 1 \in 0..(m + 1) /\ k - 1 <= m
        BY <3>2
      <4>2. g[k - 1] = f[k - 1] /\ g[k] = f[k]
        BY <3>2, <4>1
      <4>. QED BY <2>2, <4>1, <4>2
    <3>3. CASE k = m + 1
      <4>1. k - 1 = m /\ k # 0 /\ ~(k <= m) /\ m \in 0..(m + 1)
        BY <3>3
      <4>. QED BY <4>1
    <3>. QED BY <3>1, <3>2, <3>3
  <2>4. g = [k \in 0..(m + 1) |-> g[k]]
    OBVIOUS
  <2>. HIDE DEF g
  <2>5. g = [k \in 0..(m + 1) |-> IF k = 0 THEN 0 ELSE g[k - 1] + s[k]]
    BY <2>3, <2>4
  <2>6. Summing(g, s, m + 1)
    BY <2>5 DEF Summing
  <2>. QED BY <2>6
<1>. HIDE DEF A
<1>3. n \in A
  BY <1>1, <1>2, NatSet
<1>. QED BY <1>3 DEF A

Flattening(f, ss, n) ==
  f = [i \in 1..n |-> IF i = 1 THEN ss[i] ELSE f[i - 1] \o ss[i]]

LEMMA FlatteningExists ==
  ASSUME NEW ss, NEW n \in Nat
  PROVE  \E f : Flattening(f, ss, n)
<1>. DEFINE A == {m \in Nat : \E f : Flattening(f, ss, m)}
<1>1. 0 \in A
  <2>. DEFINE f == [k \in 1..0 |-> 0]
  <2>1. f = [i \in 1..0 |-> IF i = 1 THEN ss[i] ELSE f[i - 1] \o ss[i]]
    OBVIOUS
  <2>2. Flattening(f, ss, 0)
    BY <2>1 DEF Flattening
  <2>. QED BY <2>2
<1>2. ASSUME NEW m \in Nat, m \in A PROVE m + 1 \in A
  <2>1. PICK f : Flattening(f, ss, m)
    BY <1>2
  <2>2. f = [i \in 1..m |-> IF i = 1 THEN ss[i] ELSE f[i - 1] \o ss[i]]
    BY <2>1 DEF Flattening
  <2>. DEFINE g == [i \in 1..(m + 1) |->
                      IF i <= m THEN f[i] ELSE IF i = 1 THEN ss[i] ELSE f[m] \o ss[i]]
  <2>3. ASSUME NEW k \in 1..(m + 1)
        PROVE  g[k] = IF k = 1 THEN ss[k] ELSE g[k - 1] \o ss[k]
    <3>1. CASE k = 1 /\ k <= m
      BY <2>2, <3>1
    <3>2. CASE k # 1 /\ k <= m
      <4>1. k - 1 \in 1..m /\ k \in 1..m /\ k - 1 \in 1..(m + 1) /\ k - 1 <= m
        BY <3>2
      <4>2. g[k - 1] = f[k - 1] /\ g[k] = f[k]
        BY <3>2, <4>1
      <4>. QED BY <2>2, <3>2, <4>1, <4>2
    <3>3. CASE k # 1 /\ ~(k <= m)
      <4>1. k - 1 = m /\ m \in 1..(m + 1) /\ m <= m
        BY <3>3
      <4>2. g[k - 1] = f[m]
        BY <4>1
      <4>. QED BY <3>3, <4>2
    <3>4. CASE k = 1 /\ ~(k <= m)
      BY <3>4
    <3>. QED BY <3>1, <3>2, <3>3, <3>4
  <2>4. g = [k \in 1..(m + 1) |-> g[k]]
    OBVIOUS
  <2>. HIDE DEF g
  <2>5. g = [k \in 1..(m + 1) |-> IF k = 1 THEN ss[k] ELSE g[k - 1] \o ss[k]]
    BY <2>3, <2>4
  <2>6. Flattening(g, ss, m + 1)
    BY <2>5 DEF Flattening
  <2>. QED BY <2>6
<1>. HIDE DEF A
<1>3. n \in A
  BY <1>1, <1>2, NatSet
<1>. QED BY <1>3 DEF A

LEMMA ConcatFacts ==
  ASSUME NEW s, IsSeq(s), NEW t, IsSeq(t)
  PROVE  IsSeq(s \o t) /\ Len(s \o t) = Len(s) + Len(t) /\ Len(s) \in Nat /\ Len(t) \in Nat
<1>. DEFINE S == ToSet(s) \cup ToSet(t)
<1>1. s \in Seq(S) /\ t \in Seq(S)
  BY SeqMonotonic DEF IsSeq
<1>. HIDE DEF S
<1>2. s \o t \in Seq(S) /\ Len(s \o t) = Len(s) + Len(t)
  BY <1>1, ConcatProperties
<1>. QED BY <1>2, SeqOfElements, SeqFacts

(* Sequences that are strung together are as long as they are together.    *)
LEMMA FlattenLength ==
  ASSUME NEW ss, IsSeq(ss), \A k \in 1..Len(ss) : IsSeq(ss[k]),
         NEW ls, IsSeq(ls), Len(ls) = Len(ss), \A k \in 1..Len(ss) : ls[k] = Len(ss[k])
  PROVE  IsSeq(FlattenSeq(ss)) /\ Len(FlattenSeq(ss)) = Total(ls) /\ Total(ls) \in Nat
<1>. DEFINE n == Len(ss)
<1>0. n \in Nat
  BY SeqFacts
<1>1. PICK g : Summing(g, ls, n) /\ Total(ls) = g[n]
  <2>. DEFINE g == CHOOSE g : Summing(g, ls, n)
  <2>1. Summing(g, ls, n)
    BY <1>0, SumExists
  <2>2. Total(ls) = g[n]
    BY DEF Total, Summing
  <2>. QED BY <2>1, <2>2
<1>2. g = [k \in 0..n |-> IF k = 0 THEN 0 ELSE g[k - 1] + ls[k]]
  BY <1>1 DEF Summing
<1>3. g[0] = 0 /\ \A k \in 1..n : g[k] = g[k - 1] + ls[k]
  BY <1>0, <1>2
<1>4. CASE n = 0
  BY <1>1, <1>3, <1>4 DEF FlattenSeq
<1>5. CASE n # 0
  <2>1. PICK f : Flattening(f, ss, n) /\ FlattenSeq(ss) = f[n]
    <3>. DEFINE f == CHOOSE f : Flattening(f, ss, n)
    <3>1. Flattening(f, ss, n)
      BY <1>0, FlatteningExists
    <3>2. FlattenSeq(ss) = f[n]
      BY <1>5 DEF FlattenSeq, Flattening
    <3>. QED BY <3>1, <3>2
  <2>2. f = [i \in 1..n |-> IF i = 1 THEN ss[i] ELSE f[i - 1] \o ss[i]]
    BY <2>1 DEF Flattening
  <2>. DEFINE A == {k \in Nat : k + 1 <= n =>
                      IsSeq(f[k + 1]) /\ Len(f[k + 1]) = g[k + 1] /\ g[k + 1] \in Nat}
  <2>3. 0 \in A
    <3>1. 1 \in 1..n /\ f[1] = ss[1] /\ g[1] = g[0] + ls[1]
      BY <1>0, <1>3, <1>5, <2>2
    <3>2. IsSeq(f[1]) /\ ls[1] = Len(f[1]) /\ Len(f[1]) \in Nat
      BY <3>1, SeqFacts
    <3>. QED BY <1>3, <3>1, <3>2
  <2>4. ASSUME NEW k \in Nat, k \in A PROVE k + 1 \in A
    <3>1. SUFFICES ASSUME k + 1 + 1 <= n
                   PROVE  /\ IsSeq(f[k + 1 + 1]) /\ Len(f[k + 1 + 1]) = g[k + 1 + 1]
                          /\ g[k + 1 + 1] \in Nat
      OBVIOUS
    <3>2. PICK j : j = k + 1 + 1
      OBVIOUS
    <3>3. j \in 1..n /\ j # 1 /\ j - 1 = k + 1 /\ k + 1 <= n
      BY <1>0, <3>1, <3>2
    <3>4. f[j] = f[k + 1] \o ss[j] /\ g[j] = g[k + 1] + ls[j] /\ ls[j] = Len(ss[j]) /\ IsSeq(ss[j])
      BY <1>3, <2>2, <3>3
    <3>5. IsSeq(f[k + 1]) /\ Len(f[k + 1]) = g[k + 1] /\ g[k + 1] \in Nat
      BY <2>4, <3>3
    <3>6. /\ IsSeq(f[k + 1] \o ss[j]) /\ Len(f[k + 1] \o ss[j]) = Len(f[k + 1]) + Len(ss[j])
          /\ Len(ss[j]) \in Nat
      BY <3>4, <3>5, ConcatFacts
    <3>7. IsSeq(f[j]) /\ Len(f[j]) = g[j] /\ g[j] \in Nat
      BY <3>4, <3>5, <3>6
    <3>. QED BY <3>2, <3>7
  <2>. HIDE DEF A
  <2>5. n - 1 \in A /\ n - 1 + 1 = n
    <3>1. n - 1 \in Nat /\ n - 1 + 1 = n
      BY <1>0, <1>5
    <3>2. Nat \subseteq A
      BY <2>3, <2>4, NatSet
    <3>. QED BY <3>1, <3>2
  <2>6. IsSeq(f[n]) /\ Len(f[n]) = g[n] /\ g[n] \in Nat
    BY <1>0, <2>5 DEF A
  <2>. QED BY <1>1, <2>1, <2>6
<1>. QED BY <1>4, <1>5

-----------------------------------------------------------------------------
(* The two passes of the writer, part by part.                             *)

(* Escaped characters.                                                     *)
Escapes(entities) == \A e \in entities : IsSeq(e.s)

LEMMA ShortTuples ==
  /\ \A a : IsSeq(<<a>>) /\ Len(<<a>>) = 1
  /\ \A a, b : IsSeq(<<a, b>>) /\ Len(<<a, b>>) = 2
<1>1. ASSUME NEW a, NEW b
      PROVE  /\ <<a>> \in Seq({a}) /\ Len(<<a>>) = 1
             /\ <<a, b>> \in Seq({a, b}) /\ Len(<<a, b>>) = 2
  OBVIOUS
<1>. QED BY <1>1, SeqOfElements

LEMMA LongTuples ==
  ASSUME NEW a, NEW b, NEW c, NEW d, NEW e, NEW f
  PROVE  IsSeq(<<a, b, c, d>>) /\ IsSeq(<<a, b, c, d, e>>) /\ IsSeq(<<a, b, c, d, e, f>>)
<1>2. <<a, b, c, d>> \in Seq({a, b, c, d})
  OBVIOUS
<1>3. <<a, b, c, d, e>> \in Seq({a, b, c, d, e})
  OBVIOUS
<1>4. <<a, b, c, d, e, f>> \in Seq({a, b, c, d, e, f})
  OBVIOUS
<1>. QED BY <1>2, <1>3, <1>4, SeqOfElements

LEMMA EscapesKnown == Escapes(InAttribute) /\ Escapes(InText)
<1>1. /\ IsSeq(<<"&", "a", "m", "p", ";">>) /\ IsSeq(<<"&", "l", "t", ";">>)
      /\ IsSeq(<<"&", "q", "u", "o", "t", ";">>) /\ IsSeq(<<"&", "a", "p", "o", "s", ";">>)
  BY LongTuples
<1>2. IsSeq(Amp.s)
  BY <1>1 DEF Amp
<1>3. ASSUME NEW t, IsSeq(t), NEW c PROVE IsSeq([c |-> c, s |-> t].s)
  BY <1>3
<1>4. ASSUME NEW e \in InAttribute PROVE IsSeq(e.s)
  BY <1>1, <1>2, <1>3 DEF InAttribute
<1>5. ASSUME NEW e \in InText PROVE IsSeq(e.s)
  BY <1>1, <1>2, <1>3 DEF InText
<1>. QED BY <1>4, <1>5 DEF Escapes

LEMMA EscapeIsSeq ==
  ASSUME NEW entities, Escapes(entities), NEW c
  PROVE  IsSeq(Escape(entities, c))
<1>. DEFINE E == {e \in entities : e.c = c}
<1>1. CASE E = {}
  BY <1>1, ShortTuples DEF Escape
<1>2. CASE E # {}
  <2>1. (CHOOSE e \in E : TRUE) \in entities
    BY <1>2
  <2>. QED BY <1>2, <2>1 DEF Escape, Escapes
<1>. QED BY <1>1, <1>2

(* A function of the elements of a sequence is a sequence.                 *)
LEMMA toXMLLength ==
  ASSUME NEW entities, Escapes(entities), NEW text, IsSeq(text)
  PROVE  /\ IsSeq(toXML(entities, text))
         /\ Len(toXML(entities, text)) = lengthXMLString(entities, text)
         /\ lengthXMLString(entities, text) \in Nat
<1>. DEFINE n == Len(text)
            ss == [k \in DOMAIN text |-> Escape(entities, text[k])]
            ls == [k \in DOMAIN text |-> Len(Escape(entities, text[k]))]
<1>1. n \in Nat /\ DOMAIN text = 1..n
  BY SeqFacts
<1>2. ss = [k \in 1..n |-> ss[k]] /\ ls = [k \in 1..n |-> ls[k]]
  BY <1>1
<1>3. IsSeq(ss) /\ Len(ss) = n /\ IsSeq(ls) /\ Len(ls) = n
  <2>. HIDE DEF ss, ls
  <2>. QED BY <1>1, <1>2, FunctionIsSeq
<1>4. \A k \in 1..n : IsSeq(ss[k]) /\ ls[k] = Len(ss[k])
  BY <1>1, EscapeIsSeq
<1>. HIDE DEF ss, ls
<1>5. IsSeq(FlattenSeq(ss)) /\ Len(FlattenSeq(ss)) = Total(ls) /\ Total(ls) \in Nat
  BY <1>3, <1>4, FlattenLength
<1>. QED BY <1>5 DEF toXML, lengthXMLString, ss, ls

LEMMA TabsLength ==
  ASSUME NEW n \in Nat
  PROVE  IsSeq(Tabs(n)) /\ Len(Tabs(n)) = n
<1>1. Tabs(n) = [k \in 1..n |-> Tabs(n)[k]]
  BY DEF Tabs
<1>. QED BY <1>1, FunctionIsSeq

LEMMA NewLineLength ==
  ASSUME NEW b
  PROVE  IsSeq(NewLineIf(b)) /\ Len(NewLineIf(b)) = IF b THEN 1 ELSE 0
<1>1. CASE b
  BY <1>1, ShortTuples DEF NewLineIf
<1>2. CASE ~b
  BY <1>2, EmptyIsSeq DEF NewLineIf
<1>. QED BY <1>1, <1>2

LEMMA OneAdded ==
  ASSUME NEW s, IsSeq(s), NEW x
  PROVE  /\ IsSeq(s \o <<x>>) /\ Len(s \o <<x>>) = Len(s) + 1
         /\ IsSeq(<<x>> \o s) /\ Len(<<x>> \o s) = Len(s) + 1
<1>1. IsSeq(<<x>>) /\ Len(<<x>>) = 1
  BY ShortTuples
<1>2. Len(s) \in Nat
  BY SeqFacts
<1>. QED BY <1>1, <1>2, ConcatFacts

LEMMA TwoAdded ==
  ASSUME NEW s, IsSeq(s), NEW x, NEW y
  PROVE  /\ IsSeq(s \o <<x, y>>) /\ Len(s \o <<x, y>>) = Len(s) + 2
         /\ IsSeq(<<x, y>> \o s) /\ Len(<<x, y>> \o s) = Len(s) + 2
<1>1. IsSeq(<<x, y>>) /\ Len(<<x, y>>) = 2
  BY ShortTuples
<1>2. Len(s) \in Nat
  BY SeqFacts
<1>. QED BY <1>1, <1>2, ConcatFacts

LEMMA AttributeLength ==
  ASSUME NEW a, IsAttr(a)
  PROVE  /\ IsSeq(AttributeText(a))
         /\ Len(AttributeText(a)) = Len(a.name) + lengthXMLString(InAttribute, a.value) + 4
<1>. DEFINE v == toXML(InAttribute, a.value)
<1>1. IsSeq(a.name) /\ IsSeq(a.value)
  BY DEF IsAttr
<1>2. IsSeq(v) /\ Len(v) = lengthXMLString(InAttribute, a.value) /\ Len(v) \in Nat
  BY <1>1, EscapesKnown, toXMLLength
<1>. HIDE DEF v
<1>3. Len(a.name) \in Nat
  BY <1>1, SeqFacts
<1>4. PICK s : s = <<" ">> \o a.name
  OBVIOUS
<1>5. IsSeq(s) /\ Len(s) = Len(a.name) + 1
  BY <1>1, <1>4, OneAdded
<1>6. PICK t : t = s \o <<"=", Quote>>
  OBVIOUS
<1>7. IsSeq(t) /\ Len(t) = Len(s) + 2
  BY <1>5, <1>6, TwoAdded
<1>8. PICK u : u = t \o v
  OBVIOUS
<1>9. IsSeq(u) /\ Len(u) = Len(t) + Len(v)
  BY <1>2, <1>7, <1>8, ConcatFacts
<1>10. IsSeq(u \o <<Quote>>) /\ Len(u \o <<Quote>>) = Len(u) + 1
  BY <1>9, OneAdded
<1>11. AttributeText(a) = u \o <<Quote>>
  BY <1>4, <1>6, <1>8 DEF AttributeText, v
<1>12. Len(u \o <<Quote>>) = Len(a.name) + Len(v) + 4
  BY <1>2, <1>3, <1>5, <1>7, <1>9, <1>10
<1>. QED BY <1>2, <1>10, <1>11, <1>12

(* The parts of a node: both passes agree on each.                         *)
LEMMA TextPart ==
  ASSUME NEW text, IsSeq(text), NEW f \in Int
  PROVE  /\ IsSeq(TextText(text, f)) /\ Len(TextText(text, f)) = TextLength(text, f)
<1>1. PICK t : t = toXML(InText, text)
  OBVIOUS
<1>2. PICK cb : cb = lengthXMLString(InText, text)
  OBVIOUS
<1>3. IsSeq(t) /\ Len(t) = cb /\ cb \in Nat
  BY <1>1, <1>2, EscapesKnown, toXMLLength
<1>4. t # <<>> <=> cb > 0
  BY <1>3, EmptySeq DEF IsSeq
<1>5. CASE cb > 0 /\ f >= 0
  <2>1. f + 1 \in Nat
    BY <1>5
  <2>2. IsSeq(Tabs(f + 1)) /\ Len(Tabs(f + 1)) = f + 1
    BY <2>1, TabsLength
  <2>3. IsSeq(Tabs(f + 1) \o t) /\ Len(Tabs(f + 1) \o t) = f + 1 + cb
    BY <1>3, <2>2, ConcatFacts
  <2>4. PICK s : s = Tabs(f + 1) \o t
    OBVIOUS
  <2>5. IsSeq(s \o <<"\n">>) /\ Len(s \o <<"\n">>) = f + 1 + cb + 1
    BY <2>3, <2>4, ShortTuples, ConcatFacts
  <2>6. TextText(text, f) = s \o <<"\n">> /\ TextLength(text, f) = cb + f + 2
    BY <1>1, <1>2, <1>4, <1>5, <2>4 DEF TextText, TextLength
  <2>. QED BY <1>3, <2>5, <2>6
<1>6. CASE ~(cb > 0 /\ f >= 0)
  <2>1. TextText(text, f) = t /\ TextLength(text, f) = cb
    BY <1>1, <1>2, <1>4, <1>6 DEF TextText, TextLength
  <2>. QED BY <1>3, <2>1
<1>. QED BY <1>5, <1>6

-----------------------------------------------------------------------------
LEMMA StartPart ==
  ASSUME NEW nd, IsSeq(nd.name), IsAttrs(nd.attrs), NEW nFormat \in Int
  PROVE  /\ IsSeq(StartText(nd, nFormat))
         /\ Len(StartText(nd, nFormat)) = StartLength(nd, nFormat)
<1>1. CASE ~Named(nd)
  BY <1>1, EmptyIsSeq DEF StartText, StartLength
<1>2. CASE Named(nd)
  <2>. DEFINE attr(a) == Len(a.name) + lengthXMLString(InAttribute, a.value) + 4
              ss == [k \in DOMAIN nd.attrs |-> AttributeText(nd.attrs[k])]
              ls == [k \in DOMAIN nd.attrs |-> attr(nd.attrs[k])]
  <2>1. IsSeq(nd.attrs) /\ Len(nd.attrs) \in Nat /\ DOMAIN nd.attrs = 1..Len(nd.attrs)
    BY SeqFacts DEF IsAttrs
  <2>2. ss = [k \in 1..Len(nd.attrs) |-> ss[k]] /\ ls = [k \in 1..Len(nd.attrs) |-> ls[k]]
    BY <2>1
  <2>3. IsSeq(ss) /\ Len(ss) = Len(nd.attrs) /\ IsSeq(ls) /\ Len(ls) = Len(nd.attrs)
    <3>. HIDE DEF ss, ls
    <3>. QED BY <2>1, <2>2, FunctionIsSeq
  <2>4. \A k \in 1..Len(nd.attrs) : IsSeq(ss[k]) /\ ls[k] = Len(ss[k])
    BY <2>1, AttributeLength DEF IsAttrs
  <2>. HIDE DEF ss, ls
  <2>5. IsSeq(FlattenSeq(ss)) /\ Len(FlattenSeq(ss)) = Total(ls) /\ Total(ls) \in Nat
    BY <2>3, <2>4, FlattenLength
  <2>6. PICK f : f = Inner(nd, nFormat)
    OBVIOUS
  <2>7. f \in Int
    BY <2>6 DEF Inner
  <2>8. PICK z : z = AtLeast0(nFormat)
    OBVIOUS
  <2>9. z \in Nat
    BY <2>8 DEF AtLeast0
  <2>10. PICK t : t = Tabs(z) \o <<"<">>
    OBVIOUS
  <2>11. IsSeq(t) /\ Len(t) = z + 1
    BY <2>9, <2>10, TabsLength, OneAdded
  <2>12. PICK u : u = t \o nd.name
    OBVIOUS
  <2>13. IsSeq(u) /\ Len(u) = z + 1 + Len(nd.name) /\ Len(nd.name) \in Nat
    BY <2>11, <2>12, ConcatFacts
  <2>14. PICK v : v = u \o FlattenSeq(ss)
    OBVIOUS
  <2>15. IsSeq(v) /\ Len(v) = z + 1 + Len(nd.name) + Total(ls)
    BY <2>5, <2>13, <2>14, ConcatFacts
  <2>16. PICK w : w = (IF nd.pOrder = <<>> THEN <<>> ELSE <<">">> \o NewLineIf(f >= 0))
    OBVIOUS
  <2>17. IsSeq(w) /\ Len(w) = 1 + (IF nd.pOrder = <<>> THEN -1 ELSE IF f >= 0 THEN 1 ELSE 0)
    <3>1. CASE nd.pOrder = <<>>
      BY <2>16, <3>1, EmptyIsSeq
    <3>2. CASE nd.pOrder # <<>>
      <4>1. PICK l : l = NewLineIf(f >= 0)
        OBVIOUS
      <4>2. IsSeq(l) /\ Len(l) = IF f >= 0 THEN 1 ELSE 0
        BY <4>1, NewLineLength
      <4>3. IsSeq(<<">">> \o l) /\ Len(<<">">> \o l) = Len(l) + 1
        BY <4>2, OneAdded
      <4>4. w = <<">">> \o l
        BY <2>16, <3>2, <4>1
      <4>. QED BY <3>2, <4>2, <4>3, <4>4
    <3>. QED BY <3>1, <3>2
  <2>18. IsSeq(v \o w) /\ Len(v \o w) = Len(v) + Len(w)
    BY <2>15, <2>17, ConcatFacts
  <2>19. StartText(nd, nFormat) = v \o w
    BY <1>2, <2>6, <2>8, <2>10, <2>12, <2>14, <2>16 DEF StartText, ss
  <2>20. StartLength(nd, nFormat)
           = Len(nd.name) + 2 + z + Total(ls)
               + (IF nd.pOrder = <<>> THEN -1 ELSE IF f >= 0 THEN 1 ELSE 0)
    BY <1>2, <2>6, <2>8 DEF StartLength, ls
  <2>21. PICK a, b, c : a = Len(nd.name) /\ b = Total(ls) /\ c = Len(w) - 1
    OBVIOUS
  <2>22. Len(v \o w) = a + 2 + z + b + c
    <3>1. a \in Nat /\ b \in Nat /\ Len(w) = 1 + c /\ c \in Int
      BY <2>5, <2>13, <2>17, <2>21
    <3>2. Len(v) = z + 1 + a + b
      BY <2>15, <2>21
    <3>. QED BY ONLY <2>9, <2>18, <3>1, <3>2
  <2>23. StartLength(nd, nFormat) = a + 2 + z + b + c
    BY <2>17, <2>20, <2>21
  <2>. QED BY <2>18, <2>19, <2>22, <2>23
<1>. QED BY <1>1, <1>2

LEMMA EndPart ==
  ASSUME NEW nd, IsSeq(nd.name), NEW f \in Int
  PROVE  IsSeq(EndText(nd, f)) /\ Len(EndText(nd, f)) = EndLength(nd, f)
<1>1. CASE ~Named(nd)
  <2>1. EndText(nd, f) = <<>>
    BY <1>1 DEF EndText
  <2>2. EndLength(nd, f) = 0
    BY <1>1 DEF EndLength
  <2>. QED BY <2>1, <2>2, EmptyIsSeq
<1>2. PICK l : l = NewLineIf(f # -1)
  OBVIOUS
<1>3. IsSeq(l) /\ Len(l) = IF f = -1 THEN 0 ELSE 1
  BY <1>2, NewLineLength
<1>4. CASE Named(nd) /\ nd.pOrder = <<>>
  <2>1. EndText(nd, f) = <<"/", ">">> \o l /\ EndLength(nd, f) = IF f = -1 THEN 2 ELSE 3
    BY <1>2, <1>4 DEF EndText, EndLength
  <2>2. IsSeq(<<"/", ">">> \o l) /\ Len(<<"/", ">">> \o l) = Len(l) + 2
    BY <1>3, TwoAdded
  <2>. QED BY <1>3, <2>1, <2>2
<1>5. CASE Named(nd) /\ nd.pOrder # <<>>
  <2>1. PICK z : z = AtLeast0(f)
    OBVIOUS
  <2>2. z \in Nat /\ z = IF f >= 0 THEN f ELSE 0
    BY <2>1 DEF AtLeast0
  <2>3. PICK t : t = Tabs(z) \o <<"<", "/">>
    OBVIOUS
  <2>4. IsSeq(t) /\ Len(t) = z + 2
    BY <2>2, <2>3, TabsLength, TwoAdded
  <2>5. PICK u : u = t \o nd.name
    OBVIOUS
  <2>6. IsSeq(u) /\ Len(u) = z + 2 + Len(nd.name) /\ Len(nd.name) \in Nat
    BY <2>4, <2>5, ConcatFacts
  <2>7. PICK v : v = u \o <<">">>
    OBVIOUS
  <2>8. IsSeq(v) /\ Len(v) = Len(u) + 1
    BY <2>6, <2>7, OneAdded
  <2>9. IsSeq(v \o l) /\ Len(v \o l) = Len(v) + Len(l)
    BY <1>3, <2>8, ConcatFacts
  <2>10. EndText(nd, f) = v \o l
    BY <1>2, <1>5, <2>1, <2>3, <2>5, <2>7 DEF EndText
  <2>11. EndLength(nd, f) = Len(nd.name) + (IF f >= 0 THEN 4 + f ELSE IF f = -1 THEN 3 ELSE 4)
    BY <1>5 DEF EndLength
  <2>12. PICK a : a = Len(nd.name)
    OBVIOUS
  <2>13. Len(v \o l) = (IF f >= 0 THEN f ELSE 0) + 2 + a + 1 + (IF f = -1 THEN 0 ELSE 1)
    BY <1>3, <2>2, <2>6, <2>8, <2>9, <2>12
  <2>14. a \in Nat
    BY <2>6, <2>12
  <2>15. Len(v \o l) = a + (IF f >= 0 THEN 4 + f ELSE IF f = -1 THEN 3 ELSE 4)
    BY ONLY <2>13, <2>14, f \in Int
  <2>. QED BY <2>9, <2>10, <2>11, <2>12, <2>15
<1>. QED BY <1>1, <1>4, <1>5

-----------------------------------------------------------------------------
(* Trees: what genericParseRecur leaves in the nodes.                      *)

(* An entry of a node's order speaks of a child or a text of the node.     *)
IsEntry(e, nd) ==
  \/ e[1] = "child" /\ e[2] \in 0..(Len(nd.pChild) - 1)
  \/ e[1] = "text" /\ e[2] \in 0..(Len(nd.pText) - 1)

(* Node i of n: its children come behind it.                               *)
IsElement(nd, i, n) ==
  /\ IsSeq(nd.name) /\ IsAttrs(nd.attrs)
  /\ IsSeq(nd.pChild) /\ \A k \in 1..Len(nd.pChild) : nd.pChild[k] \in (i + 1)..n
  /\ IsSeq(nd.pText) /\ \A k \in 1..Len(nd.pText) : IsSeq(nd.pText[k])
  /\ IsSeq(nd.pOrder) /\ \A k \in 1..Len(nd.pOrder) : IsEntry(nd.pOrder[k], nd)

LEMMA EntryMeans ==
  ASSUME NEW nd, NEW i, NEW n, IsElement(nd, i, n), NEW k \in 1..Len(nd.pOrder)
  PROVE  \/ nd.pOrder[k][1] = "text" /\ IsSeq(nd.pText[nd.pOrder[k][2] + 1])
         \/ nd.pOrder[k][1] # "text" /\ nd.pChild[nd.pOrder[k][2] + 1] \in (i + 1)..n
<1>1. IsEntry(nd.pOrder[k], nd) /\ Len(nd.pChild) \in Nat /\ Len(nd.pText) \in Nat
  BY SeqFacts DEF IsElement
<1>2. CASE nd.pOrder[k][1] = "child" /\ nd.pOrder[k][2] \in 0..(Len(nd.pChild) - 1)
  <2>1. nd.pOrder[k][2] + 1 \in 1..Len(nd.pChild)
    BY <1>1, <1>2
  <2>. QED BY <1>2, <2>1 DEF IsElement
<1>3. CASE nd.pOrder[k][1] = "text" /\ nd.pOrder[k][2] \in 0..(Len(nd.pText) - 1)
  <2>1. nd.pOrder[k][2] + 1 \in 1..Len(nd.pText)
    BY <1>1, <1>3
  <2>. QED BY <1>3, <2>1 DEF IsElement
<1>. QED BY <1>1, <1>2, <1>3 DEF IsEntry

LEMMA FormatsAreNumbers ==
  ASSUME NEW nd, NEW nFormat \in Int
  PROVE  Inner(nd, nFormat) \in Int /\ \A f \in Int : ChildFormat(nd, f) \in Int
BY DEF Inner, ChildFormat

(* Both passes agree on the nodes behind node i of n.                      *)
AgreeBehind(bl, bs, i, n) ==
  \A c \in (i + 1)..n : \A f \in Int : IsSeq(bs[c][f]) /\ bl[c][f] = Len(bs[c][f])

(* A node's text is as long as its length, if that holds of its children.  *)
LEMMA NodeLength ==
  ASSUME NEW nd, NEW i, NEW n, IsElement(nd, i, n), NEW bl, NEW bs,
         AgreeBehind(bl, bs, i, n), NEW nFormat \in Int
  PROVE  /\ IsSeq(StringOf(bs, nd, nFormat))
         /\ Len(StringOf(bs, nd, nFormat)) = LengthOf(bl, nd, nFormat)
<1>1. PICK f : f = Inner(nd, nFormat)
  OBVIOUS
<1>2. PICK g : g = ChildFormat(nd, f)
  OBVIOUS
<1>3. f \in Int /\ g \in Int
  BY <1>1, <1>2, FormatsAreNumbers
<1>. DEFINE T(e) == IF e[1] = "text" THEN TextText(nd.pText[e[2] + 1], f)
                    ELSE bs[nd.pChild[e[2] + 1]][g]
            L(e) == IF e[1] = "text" THEN TextLength(nd.pText[e[2] + 1], f)
                    ELSE bl[nd.pChild[e[2] + 1]][g]
            ss == [k \in DOMAIN nd.pOrder |-> T(nd.pOrder[k])]
            ls == [k \in DOMAIN nd.pOrder |-> L(nd.pOrder[k])]
<1>4. IsSeq(nd.pOrder) /\ Len(nd.pOrder) \in Nat /\ DOMAIN nd.pOrder = 1..Len(nd.pOrder)
  BY SeqFacts DEF IsElement
<1>5. ASSUME NEW k \in 1..Len(nd.pOrder) PROVE IsSeq(ss[k]) /\ ls[k] = Len(ss[k])
  <2>1. PICK e : e = nd.pOrder[k]
    OBVIOUS
  <2>2. ss[k] = T(e) /\ ls[k] = L(e)
    BY <1>4, <2>1
  <2>3. CASE e[1] = "text" /\ IsSeq(nd.pText[e[2] + 1])
    <3>1. T(e) = TextText(nd.pText[e[2] + 1], f) /\ L(e) = TextLength(nd.pText[e[2] + 1], f)
      BY <2>3
    <3>. HIDE DEF ss, ls, T, L
    <3>. QED BY <1>3, <2>2, <2>3, <3>1, TextPart
  <2>4. CASE e[1] # "text" /\ nd.pChild[e[2] + 1] \in (i + 1)..n
    <3>1. T(e) = bs[nd.pChild[e[2] + 1]][g] /\ L(e) = bl[nd.pChild[e[2] + 1]][g]
      BY <2>4
    <3>. HIDE DEF ss, ls, T, L
    <3>. QED BY <1>3, <2>2, <2>4, <3>1 DEF AgreeBehind
  <2>. QED BY <2>1, <2>3, <2>4, EntryMeans
<1>6. ss = [k \in 1..Len(nd.pOrder) |-> ss[k]] /\ ls = [k \in 1..Len(nd.pOrder) |-> ls[k]]
  BY <1>4
<1>7. StringOf(bs, nd, nFormat) = StartText(nd, nFormat) \o FlattenSeq(ss) \o EndText(nd, f)
  BY <1>1, <1>2 DEF StringOf
<1>8. LengthOf(bl, nd, nFormat) = StartLength(nd, nFormat) + Total(ls) + EndLength(nd, f)
  BY <1>1, <1>2 DEF LengthOf
<1>. HIDE DEF ss, ls
<1>9. IsSeq(ss) /\ Len(ss) = Len(nd.pOrder) /\ IsSeq(ls) /\ Len(ls) = Len(nd.pOrder)
  BY <1>4, <1>6, FunctionIsSeq
<1>10. IsSeq(FlattenSeq(ss)) /\ Len(FlattenSeq(ss)) = Total(ls) /\ Total(ls) \in Nat
  BY <1>5, <1>9, FlattenLength
<1>11. IsSeq(StartText(nd, nFormat)) /\ Len(StartText(nd, nFormat)) = StartLength(nd, nFormat)
  BY StartPart DEF IsElement
<1>12. IsSeq(EndText(nd, f)) /\ Len(EndText(nd, f)) = EndLength(nd, f)
  BY <1>3, EndPart DEF IsElement
<1>13. PICK s : s = StartText(nd, nFormat) \o FlattenSeq(ss)
  OBVIOUS
<1>14. IsSeq(s) /\ Len(s) = StartLength(nd, nFormat) + Total(ls)
  <2>1. IsSeq(s) /\ Len(s) = Len(StartText(nd, nFormat)) + Len(FlattenSeq(ss))
    BY <1>10, <1>11, <1>13, ConcatFacts
  <2>. QED BY <1>10, <1>11, <2>1
<1>15. IsSeq(s \o EndText(nd, f)) /\ Len(s \o EndText(nd, f)) = Len(s) + EndLength(nd, f)
  BY <1>12, <1>14, ConcatFacts
<1>. QED BY <1>7, <1>8, <1>13, <1>14, <1>15

-----------------------------------------------------------------------------
(* The two passes over a tree.                                             *)

IsTree(nodes) ==
  IsSeq(nodes) /\ \A i \in 1..Len(nodes) : IsElement(nodes[i], i, Len(nodes))

(* Only a node's children count.                                           *)
LEMMA SameBelow ==
  ASSUME NEW nd, NEW i, NEW n, IsElement(nd, i, n), NEW f1, NEW f2,
         \A c \in (i + 1)..n : f1[c] = f2[c], NEW nFormat
  PROVE  /\ LengthOf(f1, nd, nFormat) = LengthOf(f2, nd, nFormat)
         /\ StringOf(f1, nd, nFormat) = StringOf(f2, nd, nFormat)
<1>1. PICK f : f = Inner(nd, nFormat)
  OBVIOUS
<1>2. PICK g : g = ChildFormat(nd, f)
  OBVIOUS
<1>3. DOMAIN nd.pOrder = 1..Len(nd.pOrder)
  BY SeqFacts DEF IsElement
<1>. DEFINE Of(b, e, x) == IF e[1] = "text" THEN x ELSE b[nd.pChild[e[2] + 1]][g]
<1>4. ASSUME NEW k \in 1..Len(nd.pOrder), NEW x
      PROVE  Of(f1, nd.pOrder[k], x) = Of(f2, nd.pOrder[k], x)
  <2>1. nd.pOrder[k][1] # "text" => nd.pChild[nd.pOrder[k][2] + 1] \in (i + 1)..n
    BY EntryMeans
  <2>. QED BY <2>1
<1>5. LengthOf(f1, nd, nFormat) = LengthOf(f2, nd, nFormat)
  <2>. DEFINE Part(b, k) == Of(b, nd.pOrder[k], TextLength(nd.pText[nd.pOrder[k][2] + 1], f))
  <2>1. \A k \in 1..Len(nd.pOrder) : Part(f1, k) = Part(f2, k)
    BY <1>4
  <2>2. [k \in 1..Len(nd.pOrder) |-> Part(f1, k)] = [k \in 1..Len(nd.pOrder) |-> Part(f2, k)]
    BY <2>1
  <2>3. /\ LengthOf(f1, nd, nFormat) = StartLength(nd, nFormat)
             + Total([k \in 1..Len(nd.pOrder) |-> Part(f1, k)]) + EndLength(nd, f)
        /\ LengthOf(f2, nd, nFormat) = StartLength(nd, nFormat)
             + Total([k \in 1..Len(nd.pOrder) |-> Part(f2, k)]) + EndLength(nd, f)
    BY <1>1, <1>2, <1>3 DEF LengthOf
  <2>. HIDE DEF Part
  <2>. QED BY <2>2, <2>3
<1>6. StringOf(f1, nd, nFormat) = StringOf(f2, nd, nFormat)
  <2>. DEFINE Part(b, k) == Of(b, nd.pOrder[k], TextText(nd.pText[nd.pOrder[k][2] + 1], f))
  <2>1. \A k \in 1..Len(nd.pOrder) : Part(f1, k) = Part(f2, k)
    BY <1>4
  <2>2. [k \in 1..Len(nd.pOrder) |-> Part(f1, k)] = [k \in 1..Len(nd.pOrder) |-> Part(f2, k)]
    BY <2>1
  <2>3. /\ StringOf(f1, nd, nFormat) = StartText(nd, nFormat)
             \o FlattenSeq([k \in 1..Len(nd.pOrder) |-> Part(f1, k)]) \o EndText(nd, f)
        /\ StringOf(f2, nd, nFormat) = StartText(nd, nFormat)
             \o FlattenSeq([k \in 1..Len(nd.pOrder) |-> Part(f2, k)]) \o EndText(nd, f)
    BY <1>1, <1>2, <1>3 DEF StringOf
  <2>. HIDE DEF Part
  <2>. QED BY <2>2, <2>3
<1>. QED BY <1>5, <1>6

(* Both passes over a tree, as functions that exist.                       *)

LengthsFrom(f, m) == f = [i \in m..Len(node) |-> [nFormat \in Int |-> LengthOf(f, node[i], nFormat)]]

LEMMA LengthsExist ==
  ASSUME IsTree(node)
  PROVE  \E f : LengthsFrom(f, 1)
<1>. DEFINE n == Len(node)
            A == {k \in Nat : k <= n => \E f : LengthsFrom(f, n - k + 1)}
<1>1. n \in Nat
  BY SeqFacts DEF IsTree
<1>2. 0 \in A
  <2>. DEFINE f == [i \in (n + 1)..n |-> 0]
  <2>1. f = [i \in (n + 1)..n |-> [nFormat \in Int |-> LengthOf(f, node[i], nFormat)]]
    BY <1>1
  <2>2. n - 0 + 1 = n + 1
    BY <1>1
  <2>3. LengthsFrom(f, n - 0 + 1)
    BY <2>1, <2>2 DEF LengthsFrom
  <2>. QED BY <2>3
<1>3. ASSUME NEW k \in Nat, k \in A PROVE k + 1 \in A
  <2>1. SUFFICES ASSUME k + 1 <= n PROVE \E f : LengthsFrom(f, n - (k + 1) + 1)
    OBVIOUS
  <2>2. PICK m : m = n - k
    OBVIOUS
  <2>3. m \in 1..n /\ n - k + 1 = m + 1 /\ n - (k + 1) + 1 = m /\ k <= n
    BY <1>1, <2>1, <2>2
  <2>4. PICK f : LengthsFrom(f, m + 1)
    BY <1>3, <2>3
  <2>5. f = [i \in (m + 1)..n |-> [nFormat \in Int |-> LengthOf(f, node[i], nFormat)]]
    BY <2>4 DEF LengthsFrom
  <2>. DEFINE h == [nFormat \in Int |-> LengthOf(f, node[m], nFormat)]
              g == [i \in m..n |-> IF i = m THEN h ELSE f[i]]
  <2>6. \A c \in (m + 1)..n : c \in m..n /\ c # m /\ g[c] = f[c]
    BY <1>1, <2>3
  <2>7. ASSUME NEW i \in m..n
        PROVE  g[i] = [nFormat \in Int |-> LengthOf(g, node[i], nFormat)]
    <3>. HIDE DEF g, h
    <3>1. i \in 1..n /\ IsElement(node[i], i, n) /\ \A c \in (i + 1)..n : g[c] = f[c]
      BY <1>1, <2>3, <2>6 DEF IsTree
    <3>2. \A nFormat \in Int : LengthOf(g, node[i], nFormat) = LengthOf(f, node[i], nFormat)
      BY <3>1, SameBelow
    <3>3. g[i] = [nFormat \in Int |-> LengthOf(f, node[i], nFormat)]
      <4>1. CASE i = m
        BY <2>3, <4>1 DEF g, h
      <4>2. CASE i \in (m + 1)..n
        BY <2>5, <2>6, <4>2
      <4>3. i = m \/ i \in (m + 1)..n
        BY <1>1, <2>3
      <4>. QED BY <4>1, <4>2, <4>3
    <3>. QED BY <3>2, <3>3
  <2>8. g = [i \in m..n |-> g[i]]
    OBVIOUS
  <2>. HIDE DEF g
  <2>9. g = [i \in m..n |-> [nFormat \in Int |-> LengthOf(g, node[i], nFormat)]]
    BY <2>7, <2>8
  <2>10. LengthsFrom(g, m)
    BY <2>9 DEF LengthsFrom
  <2>. QED BY <2>3, <2>10
<1>. HIDE DEF A
<1>4. n \in A
  BY <1>1, <1>2, <1>3, NatSet
<1>5. n - n + 1 = 1 /\ n <= n
  BY <1>1
<1>. QED BY <1>4, <1>5 DEF A

LEMMA lengthRMeans ==
  ASSUME IsTree(node), NEW i \in 1..Len(node), NEW nFormat \in Int
  PROVE  lengthR[i][nFormat] = LengthOf(lengthR, node[i], nFormat)
<1>1. DOMAIN node = 1..Len(node)
  BY SeqFacts DEF IsTree
<1>2. lengthR = CHOOSE f : LengthsFrom(f, 1)
  BY <1>1 DEF lengthR, LengthsFrom
<1>3. LengthsFrom(lengthR, 1)
  BY <1>2, LengthsExist
<1>4. lengthR[i] = [g \in Int |-> LengthOf(lengthR, node[i], g)]
  BY <1>3 DEF LengthsFrom
<1>. QED BY <1>4

StringsFrom(f, m) == f = [i \in m..Len(node) |-> [nFormat \in Int |-> StringOf(f, node[i], nFormat)]]

LEMMA StringsExist ==
  ASSUME IsTree(node)
  PROVE  \E f : StringsFrom(f, 1)
<1>. DEFINE n == Len(node)
            A == {k \in Nat : k <= n => \E f : StringsFrom(f, n - k + 1)}
<1>1. n \in Nat
  BY SeqFacts DEF IsTree
<1>2. 0 \in A
  <2>. DEFINE f == [i \in (n + 1)..n |-> 0]
  <2>1. f = [i \in (n + 1)..n |-> [nFormat \in Int |-> StringOf(f, node[i], nFormat)]]
    BY <1>1
  <2>2. n - 0 + 1 = n + 1
    BY <1>1
  <2>3. StringsFrom(f, n - 0 + 1)
    BY <2>1, <2>2 DEF StringsFrom
  <2>. QED BY <2>3
<1>3. ASSUME NEW k \in Nat, k \in A PROVE k + 1 \in A
  <2>1. SUFFICES ASSUME k + 1 <= n PROVE \E f : StringsFrom(f, n - (k + 1) + 1)
    OBVIOUS
  <2>2. PICK m : m = n - k
    OBVIOUS
  <2>3. m \in 1..n /\ n - k + 1 = m + 1 /\ n - (k + 1) + 1 = m /\ k <= n
    BY <1>1, <2>1, <2>2
  <2>4. PICK f : StringsFrom(f, m + 1)
    BY <1>3, <2>3
  <2>5. f = [i \in (m + 1)..n |-> [nFormat \in Int |-> StringOf(f, node[i], nFormat)]]
    BY <2>4 DEF StringsFrom
  <2>. DEFINE h == [nFormat \in Int |-> StringOf(f, node[m], nFormat)]
              g == [i \in m..n |-> IF i = m THEN h ELSE f[i]]
  <2>6. \A c \in (m + 1)..n : c \in m..n /\ c # m /\ g[c] = f[c]
    BY <1>1, <2>3
  <2>7. ASSUME NEW i \in m..n
        PROVE  g[i] = [nFormat \in Int |-> StringOf(g, node[i], nFormat)]
    <3>. HIDE DEF g, h
    <3>1. i \in 1..n /\ IsElement(node[i], i, n) /\ \A c \in (i + 1)..n : g[c] = f[c]
      BY <1>1, <2>3, <2>6 DEF IsTree
    <3>2. \A nFormat \in Int : StringOf(g, node[i], nFormat) = StringOf(f, node[i], nFormat)
      BY <3>1, SameBelow
    <3>3. g[i] = [nFormat \in Int |-> StringOf(f, node[i], nFormat)]
      <4>1. CASE i = m
        BY <2>3, <4>1 DEF g, h
      <4>2. CASE i \in (m + 1)..n
        BY <2>5, <2>6, <4>2
      <4>3. i = m \/ i \in (m + 1)..n
        BY <1>1, <2>3
      <4>. QED BY <4>1, <4>2, <4>3
    <3>. QED BY <3>2, <3>3
  <2>8. g = [i \in m..n |-> g[i]]
    OBVIOUS
  <2>. HIDE DEF g
  <2>9. g = [i \in m..n |-> [nFormat \in Int |-> StringOf(g, node[i], nFormat)]]
    BY <2>7, <2>8
  <2>10. StringsFrom(g, m)
    BY <2>9 DEF StringsFrom
  <2>. QED BY <2>3, <2>10
<1>. HIDE DEF A
<1>4. n \in A
  BY <1>1, <1>2, <1>3, NatSet
<1>5. n - n + 1 = 1 /\ n <= n
  BY <1>1
<1>. QED BY <1>4, <1>5 DEF A

LEMMA getStringRMeans ==
  ASSUME IsTree(node), NEW i \in 1..Len(node), NEW nFormat \in Int
  PROVE  getStringR[i][nFormat] = StringOf(getStringR, node[i], nFormat)
<1>1. DOMAIN node = 1..Len(node)
  BY SeqFacts DEF IsTree
<1>2. getStringR = CHOOSE f : StringsFrom(f, 1)
  BY <1>1 DEF getStringR, StringsFrom
<1>3. StringsFrom(getStringR, 1)
  BY <1>2, StringsExist
<1>4. getStringR[i] = [g \in Int |-> StringOf(getStringR, node[i], g)]
  BY <1>3 DEF StringsFrom
<1>. QED BY <1>4

Agreed(i) == \A f \in Int : IsSeq(getStringR[i][f]) /\ lengthR[i][f] = Len(getStringR[i][f])

(* The two passes agree, on every node and in every format.                *)
LEMMA PassesAgree ==
  ASSUME IsTree(node), NEW x \in 1..Len(node), NEW nFormat \in Int
  PROVE  IsSeq(getStringR[x][nFormat]) /\ Len(getStringR[x][nFormat]) = lengthR[x][nFormat]
<1>. DEFINE n == Len(node)
            A == {k \in Nat : \A i \in (n - k + 1)..n : i \in 1..n => Agreed(i)}
<1>1. n \in Nat
  BY SeqFacts DEF IsTree
<1>2. 0 \in A
  BY <1>1
<1>3. ASSUME NEW k \in Nat, k \in A PROVE k + 1 \in A
  <2>1. ASSUME NEW i \in (n - (k + 1) + 1)..n, i \in 1..n PROVE Agreed(i)
    <3>1. PICK nd, bl, bs : nd = node[i] /\ bl = lengthR /\ bs = getStringR
      OBVIOUS
    <3>2. \A c \in (i + 1)..n : c \in (n - k + 1)..n /\ c \in 1..n
      BY <1>1, <2>1
    <3>3. \A c \in (i + 1)..n : Agreed(c)
      BY <1>3, <3>2
    <3>4. AgreeBehind(bl, bs, i, n)
      BY <3>1, <3>3 DEF Agreed, AgreeBehind
    <3>5. IsElement(nd, i, n)
      BY <2>1, <3>1 DEF IsTree
    <3>6. ASSUME NEW f \in Int
          PROVE  IsSeq(getStringR[i][f]) /\ lengthR[i][f] = Len(getStringR[i][f])
      <4>1. IsSeq(StringOf(bs, nd, f)) /\ Len(StringOf(bs, nd, f)) = LengthOf(bl, nd, f)
        BY ONLY <3>4, <3>5, f \in Int, NodeLength, SMTT(30)
      <4>2. getStringR[i][f] = StringOf(bs, nd, f) /\ lengthR[i][f] = LengthOf(bl, nd, f)
        BY <2>1, <3>1, lengthRMeans, getStringRMeans
      <4>. QED BY <4>1, <4>2
    <3>. QED BY <3>6 DEF Agreed
  <2>2. k + 1 \in Nat
    OBVIOUS
  <2>. QED BY <2>1, <2>2
<1>. HIDE DEF A
<1>4. n \in A
  BY <1>1, <1>2, <1>3, NatSet
<1>5. x \in (n - n + 1)..n
  BY <1>1
<1>6. Agreed(x)
  BY <1>4, <1>5 DEF A
<1>. QED BY <1>6 DEF Agreed

-----------------------------------------------------------------------------
(* Texts and attributes of a node are sequences.                           *)

LEMMA Greatest ==
  ASSUME NEW n \in Nat, NEW T, T \subseteq 1..n, T # {}
  PROVE  \E x \in T : \A y \in T : x >= y
<1>. DEFINE R == {n - i : i \in T}
<1>1. R \subseteq Nat
  <2>1. ASSUME NEW i \in T PROVE n - i \in Nat
    <3>1. i \in 1..n
      OBVIOUS
    <3>. QED BY <3>1
  <2>. QED BY <2>1
<1>0. R # {}
  OBVIOUS
<1>2. PICK r \in R : \A y \in R : r <= y
  BY <1>0, <1>1, Least
<1>3. PICK x \in T : r = n - x
  OBVIOUS
<1>4. ASSUME NEW y \in T PROVE x >= y
  <2>1. n - y \in R /\ x \in Int /\ y \in Int
    OBVIOUS
  <2>2. n - x <= n - y
    BY <1>2, <1>3, <2>1
  <2>. QED BY <2>1, <2>2
<1>. QED BY <1>4

LEMMA trimTextIsSeq == ASSUME NEW t, IsSeq(t) PROVE IsSeq(trimText(t))
<1>. DEFINE I == {i \in 1..Len(t) : NotSpace(t[i])}
            first == IF I # {} THEN Min(I) ELSE 0
            last == IF I # {} THEN Max(I) ELSE 0
<1>1. Len(t) \in Nat /\ I \subseteq Nat /\ I \subseteq 1..Len(t)
  BY SeqFacts
<1>2. trimText(t) = IF first = 0 THEN <<>> ELSE SubSeq(t, first, last)
  BY DEF trimText, SelectInSeq, SelectLastInSeq
<1>3. first \in Int /\ last \in Int
  <2>1. CASE I = {}
    BY <2>1
  <2>2. CASE I # {}
    <3>. HIDE DEF I
    <3>1. \E x \in I : \A y \in I : x <= y
      BY <1>1, <2>2, Least
    <3>2. \E x \in I : \A y \in I : x >= y
      BY <1>1, <2>2, Greatest
    <3>3. Min(I) \in I
      BY <3>1 DEF Min
    <3>4. Max(I) \in I
      BY <3>2 DEF Max
    <3>5. Min(I) \in Int /\ Max(I) \in Int
      <4>1. PICK a, b : a = Min(I) /\ b = Max(I)
        OBVIOUS
      <4>2. a \in I /\ b \in I
        BY <3>3, <3>4, <4>1
      <4>3. a \in Nat /\ b \in Nat
        BY <1>1, <4>2
      <4>. QED BY <4>1, <4>3
    <3>6. first = Min(I) /\ last = Max(I)
      BY <2>2
    <3>. HIDE DEF first, last
    <3>. QED BY <3>5, <3>6
  <2>. QED BY <2>1, <2>2
<1>. HIDE DEF first, last
<1>4. IsSeq(SubSeq(t, first, last))
  BY <1>3, SubSeqIsSeq
<1>. QED BY <1>2, <1>4, EmptyIsSeq

LEMMA AttributesTrimmed ==
  ASSUME NEW t, IsParser(t), NEW parent
  PROVE  /\ IsSeq(initNTD(t, parent).name) /\ IsAttrs(initNTD(t, parent).attrs)
         /\ Unfilled(initNTD(t, parent))
<1>. DEFINE s == [k \in DOMAIN t.attrs |-> [t.attrs[k] EXCEPT !.value = trimText(@)]]
<1>1. IsSeq(t.content) /\ IsAttrs(t.attrs)
  BY DEF IsParser
<1>2. Len(t.attrs) \in Nat /\ DOMAIN t.attrs = 1..Len(t.attrs)
  BY <1>1, SeqFacts DEF IsAttrs
<1>3. s = [k \in 1..Len(t.attrs) |-> s[k]]
  BY <1>2
<1>4. ASSUME NEW k \in 1..Len(t.attrs) PROVE IsAttr(s[k])
  <2>1. PICK a : a = t.attrs[k]
    OBVIOUS
  <2>2. a = [name |-> a.name, value |-> a.value] /\ IsSeq(a.name) /\ IsSeq(a.value)
    BY <1>1, <2>1 DEF IsAttrs, IsAttr
  <2>3. PICK v : v = trimText(a.value)
    OBVIOUS
  <2>4. IsSeq(v)
    BY <2>2, <2>3, trimTextIsSeq
  <2>5. s[k] = [a EXCEPT !.value = v]
    BY <1>2, <2>1, <2>3
  <2>6. s[k] = [name |-> a.name, value |-> v]
    BY <2>2, <2>5
  <2>7. s[k].name = a.name /\ s[k].value = v
    BY <2>6
  <2>. QED BY <2>2, <2>4, <2>6, <2>7 DEF IsAttr
<1>. HIDE DEF s
<1>5. IsSeq(s) /\ Len(s) = Len(t.attrs)
  BY <1>2, <1>3, FunctionIsSeq
<1>6. IsAttrs(s)
  BY <1>4, <1>5 DEF IsAttrs
<1>. QED BY <1>1, <1>6 DEF initNTD, FreshNode, Unfilled, s

-----------------------------------------------------------------------------
(* What the levels have gathered so far.                                   *)

(* The children of a level come behind its own node.                       *)
Gathered(l, child, text, n) ==
  /\ \A j \in (l.iChild + 1)..l.lastChild : child[j] \in (l.td + 1)..n
  /\ \A j \in (l.iText + 1)..l.lastText : IsSeq(text[j])

LevelsGathered ==
  \A k \in DOMAIN stack : Gathered(stack[k], vChild, vText, Len(node))

TInv == DInv /\ IsTree(node) /\ LevelsGathered

LEMMA MoreNodes ==
  ASSUME NEW nd, NEW i \in Nat, NEW n \in Nat, NEW m \in Nat, n <= m, IsElement(nd, i, n)
  PROVE  IsElement(nd, i, m)
<1>1. (i + 1)..n \subseteq (i + 1)..m
  OBVIOUS
<1>. QED BY <1>1 DEF IsElement

(* A node without contents, wherever it stands.                            *)
LEMMA EmptyElement ==
  ASSUME NEW nd, IsSeq(nd.name), IsAttrs(nd.attrs), Unfilled(nd), NEW i, NEW n
  PROVE  IsElement(nd, i, n)
<1>1. nd.pChild = <<>> /\ nd.pText = <<>> /\ nd.pOrder = <<>>
  BY DEF Unfilled
<1>2. IsSeq(<<>>) /\ Len(<<>>) = 0 /\ 1..0 = {}
  BY EmptyIsSeq
<1>. QED BY <1>1, <1>2 DEF IsElement

(* A level that ends leaves an element.                                    *)
LEMMA LevelIsElement ==
  ASSUME NEW l \in Levels, IsSeq(vChild), IsSeq(vText), IsSeq(vOrder),
         FitsIn(l, vChild, vText, vOrder), Gathered(l, vChild, vText, Len(node)),
         NEW nd, IsSeq(nd.name), IsAttrs(nd.attrs),
         nd.pChild = Slice(vChild, l.iChild, l.lastChild),
         nd.pText = Slice(vText, l.iText, l.lastText),
         nd.pOrder = Slice(vOrder, l.iOrder, l.lastOrder)
  PROVE  IsElement(nd, l.td, Len(node))
<1>1. /\ l.iChild \in Nat /\ l.lastChild \in Nat /\ l.iText \in Nat /\ l.lastText \in Nat
      /\ l.iOrder \in Nat /\ l.lastOrder \in Nat
      /\ l.iChild <= l.lastChild /\ l.lastChild <= Len(vChild)
      /\ l.iText <= l.lastText /\ l.lastText <= Len(vText)
      /\ l.iOrder <= l.lastOrder /\ l.lastOrder <= Len(vOrder)
  BY DEF Levels, FitsIn
<1>2. /\ IsSeq(nd.pChild) /\ Len(nd.pChild) = l.lastChild - l.iChild
      /\ \A k \in 1..(l.lastChild - l.iChild) : nd.pChild[k] = vChild[l.iChild + k]
  <2>1. PICK a, b : a = l.iChild /\ b = l.lastChild
    OBVIOUS
  <2>2. a \in Nat /\ b \in Nat /\ a <= b /\ b <= Len(vChild) /\ nd.pChild = Slice(vChild, a, b)
    BY <1>1, <2>1
  <2>3. /\ IsSeq(Slice(vChild, a, b)) /\ Len(Slice(vChild, a, b)) = b - a
        /\ \A k \in 1..(b - a) : Slice(vChild, a, b)[k] = vChild[a + k]
    BY <2>2, SliceFacts
  <2>. QED BY <2>1, <2>2, <2>3
<1>3. /\ IsSeq(nd.pText) /\ Len(nd.pText) = l.lastText - l.iText
      /\ \A k \in 1..(l.lastText - l.iText) : nd.pText[k] = vText[l.iText + k]
  <2>1. PICK a, b : a = l.iText /\ b = l.lastText
    OBVIOUS
  <2>2. a \in Nat /\ b \in Nat /\ a <= b /\ b <= Len(vText) /\ nd.pText = Slice(vText, a, b)
    BY <1>1, <2>1
  <2>3. /\ IsSeq(Slice(vText, a, b)) /\ Len(Slice(vText, a, b)) = b - a
        /\ \A k \in 1..(b - a) : Slice(vText, a, b)[k] = vText[a + k]
    BY <2>2, SliceFacts
  <2>. QED BY <2>1, <2>2, <2>3
<1>4. /\ IsSeq(nd.pOrder) /\ Len(nd.pOrder) = l.lastOrder - l.iOrder
      /\ \A k \in 1..(l.lastOrder - l.iOrder) : nd.pOrder[k] = vOrder[l.iOrder + k]
  <2>1. PICK a, b : a = l.iOrder /\ b = l.lastOrder
    OBVIOUS
  <2>2. a \in Nat /\ b \in Nat /\ a <= b /\ b <= Len(vOrder) /\ nd.pOrder = Slice(vOrder, a, b)
    BY <1>1, <2>1
  <2>3. /\ IsSeq(Slice(vOrder, a, b)) /\ Len(Slice(vOrder, a, b)) = b - a
        /\ \A k \in 1..(b - a) : Slice(vOrder, a, b)[k] = vOrder[a + k]
    BY <2>2, SliceFacts
  <2>. QED BY <2>1, <2>2, <2>3
<1>5. ASSUME NEW k \in 1..Len(nd.pChild) PROVE nd.pChild[k] \in (l.td + 1)..Len(node)
  <2>1. l.iChild + k \in (l.iChild + 1)..l.lastChild /\ nd.pChild[k] = vChild[l.iChild + k]
    BY <1>1, <1>2, SMTT(30)
  <2>. QED BY <2>1 DEF Gathered
<1>6. ASSUME NEW k \in 1..Len(nd.pText) PROVE IsSeq(nd.pText[k])
  <2>1. l.iText + k \in (l.iText + 1)..l.lastText /\ nd.pText[k] = vText[l.iText + k]
    BY <1>1, <1>3, SMTT(30)
  <2>. QED BY <2>1 DEF Gathered
<1>7. ASSUME NEW k \in 1..Len(nd.pOrder) PROVE IsEntry(nd.pOrder[k], nd)
  <2>1. l.iOrder + k \in (l.iOrder + 1)..l.lastOrder /\ nd.pOrder[k] = vOrder[l.iOrder + k]
    BY <1>1, <1>4, SMTT(30)
  <2>2. Own(nd.pOrder[k], l)
    BY <2>1 DEF FitsIn
  <2>. QED BY <1>2, <1>3, <2>2 DEF Own, IsEntry
<1>. QED BY <1>2, <1>3, <1>4, <1>5, <1>6, <1>7 DEF IsElement

LEMMA TreeKeptAtEnd ==
  ASSUME TInv, stack # <<>>, node' = CREATE_NEW_NODE, stack' = Front(stack),
         UNCHANGED <<vChild, vText, vOrder>>
  PROVE  IsTree(node') /\ LevelsGathered' /\ Len(node') = Len(node)
<1>. DEFINE n == Len(stack)
            nd == [node[Top.td] EXCEPT
                     !.pChild = Slice(vChild, Top.iChild, Top.lastChild),
                     !.pText = Slice(vText, Top.iText, Top.lastText),
                     !.pOrder = Slice(vOrder, Top.iOrder, Top.lastOrder)]
<1>1. /\ n \in Nat \ {0} /\ DOMAIN stack = 1..n /\ n \in DOMAIN stack /\ Top = stack[n]
      /\ Top \in Levels /\ Top.td \in DOMAIN node
      /\ FitsIn(Top, vChild, vText, vOrder)
  BY TopView DEF TInv
<1>2. stack \in Seq(Levels) /\ IsSeq(node) /\ Nodes /\ Arrays /\ IsTree(node) /\ LevelsGathered
  BY DEF DInv, TInv, Nodes
<1>3. Len(node) \in Nat /\ DOMAIN node = 1..Len(node) /\ node = [i \in 1..Len(node) |-> node[i]]
  BY <1>2, SeqFacts
<1>4. node' = [node EXCEPT ![Top.td] = nd]
  BY DEF CREATE_NEW_NODE
<1>5. /\ nd.name = node[Top.td].name /\ nd.attrs = node[Top.td].attrs
      /\ nd.pChild = Slice(vChild, Top.iChild, Top.lastChild)
      /\ nd.pText = Slice(vText, Top.iText, Top.lastText)
      /\ nd.pOrder = Slice(vOrder, Top.iOrder, Top.lastOrder)
  <2>. DEFINE m == node[Top.td]
  <2>1. m = [name |-> m.name, attrs |-> m.attrs, parent |-> m.parent,
             pChild |-> m.pChild, pText |-> m.pText, pOrder |-> m.pOrder]
    BY <1>1, <1>2 DEF Nodes, IsNode
  <2>2. nd = [m EXCEPT !.pChild = Slice(vChild, Top.iChild, Top.lastChild),
                       !.pText = Slice(vText, Top.iText, Top.lastText),
                       !.pOrder = Slice(vOrder, Top.iOrder, Top.lastOrder)]
    OBVIOUS
  <2>. HIDE DEF m, nd
  <2>3. nd = [name |-> m.name, attrs |-> m.attrs, parent |-> m.parent,
            pChild |-> Slice(vChild, Top.iChild, Top.lastChild),
            pText |-> Slice(vText, Top.iText, Top.lastText),
            pOrder |-> Slice(vOrder, Top.iOrder, Top.lastOrder)]
    BY <2>1, <2>2
  <2>. QED BY <2>3 DEF m
<1>. HIDE DEF nd
<1>6. IsElement(nd, Top.td, Len(node))
  <2>1. PICK l : l = Top
    OBVIOUS
  <2>2. IsSeq(nd.name) /\ IsAttrs(nd.attrs)
    BY <1>1, <1>2, <1>3, <1>5 DEF IsTree, IsElement
  <2>3. IsSeq(vChild) /\ IsSeq(vText) /\ IsSeq(vOrder)
    BY <1>2 DEF Arrays
  <2>4. Gathered(l, vChild, vText, Len(node))
    BY <1>1, <1>2, <2>1 DEF LevelsGathered
  <2>. QED BY <1>1, <1>5, <2>1, <2>2, <2>3, <2>4, LevelIsElement
<1>7. /\ IsSeq(node') /\ Len(node') = Len(node)
      /\ \A i \in 1..Len(node) : node'[i] = IF i = Top.td THEN nd ELSE node[i]
  <2>1. node' = [i \in 1..Len(node) |-> node'[i]]
    BY <1>3, <1>4
  <2>2. IsSeq(node') /\ Len(node') = Len(node)
    BY <1>3, <2>1, FunctionIsSeq
  <2>. QED BY <1>1, <1>3, <1>4, <2>2
<1>8. IsTree(node')
  BY <1>2, <1>6, <1>7 DEF IsTree
<1>9. LevelsGathered'
  <2>1. /\ DOMAIN stack' = 1..(n - 1) /\ \A k \in 1..(n - 1) : stack'[k] = stack[k]
    BY <1>1, <1>2, FrontOfStack, LenProperties
  <2>2. \A k \in 1..(n - 1) : k \in DOMAIN stack
    BY <1>1
  <2>. QED BY <1>2, <1>7, <2>1, <2>2 DEF LevelsGathered
<1>. QED BY <1>7, <1>8, <1>9

(* What a level has gathered stays when the arrays are the same up to where*)
(* it stops.                                                               *)
LEMMA GatheredKept ==
  ASSUME NEW l \in Levels, NEW child, NEW text, NEW child2, NEW text2,
         NEW n \in Nat, NEW n2 \in Nat, n <= n2, Gathered(l, child, text, n),
         \A k \in 1..l.lastChild : child2[k] = child[k],
         \A k \in 1..l.lastText : text2[k] = text[k]
  PROVE  Gathered(l, child2, text2, n2)
<1>1. l.iChild \in Nat /\ l.iText \in Nat /\ l.lastChild \in Nat /\ l.lastText \in Nat /\ l.td \in Nat
  BY DEF Levels
<1>2. ASSUME NEW j \in (l.iChild + 1)..l.lastChild PROVE child2[j] \in (l.td + 1)..n2
  <2>1. j \in 1..l.lastChild
    BY <1>1
  <2>2. child[j] \in (l.td + 1)..n
    BY DEF Gathered
  <2>3. child2[j] = child[j]
    BY <2>1
  <2>. QED BY <1>1, <2>2, <2>3
<1>3. ASSUME NEW j \in (l.iText + 1)..l.lastText PROVE IsSeq(text2[j])
  <2>1. j \in 1..l.lastText
    BY <1>1
  <2>2. IsSeq(text[j])
    BY DEF Gathered
  <2>. QED BY <2>1, <2>2
<1>. QED BY <1>2, <1>3 DEF Gathered

LEMMA LevelsBelow ==
  ASSUME DInv, stack # <<>>, NEW k \in 1..(Len(stack) - 1)
  PROVE  /\ stack[k] \in Levels /\ k \in DOMAIN stack
         /\ stack[k].lastChild <= Top.lastChild /\ stack[k].lastText <= Top.lastText
<1>1. /\ Len(stack) \in Nat \ {0} /\ DOMAIN stack = 1..Len(stack)
      /\ Len(stack) \in DOMAIN stack /\ Top = stack[Len(stack)] /\ Top \in Levels
  BY TopView
<1>2. k \in DOMAIN stack /\ k < Len(stack)
  BY <1>1
<1>3. Behind(stack[k], Top)
  BY <1>1, <1>2 DEF DInv, Apart
<1>4. stack[k] \in Levels
  BY <1>1, <1>2, ElementOfSeq DEF DInv
<1>5. /\ stack[k].lastChild \in Nat /\ stack[k].lastText \in Nat
  BY <1>4 DEF Levels
<1>6. /\ stack[k].lastChild <= Top.iChild /\ stack[k].lastText <= Top.iText
  BY <1>3 DEF Behind
<1>. QED BY <1>2, <1>4, <1>5, <1>6, TopNumbers, SMTT(30)

(* The levels below the top keep what they have gathered when the arrays   *)
(* change behind the top only.                                             *)
LEMMA BelowGathered ==
  ASSUME TInv, stack # <<>>, NEW child, NEW text, NEW m \in Nat, Len(node) <= m,
         \A k \in 1..Top.lastChild : child[k] = vChild[k],
         \A k \in 1..Top.lastText : text[k] = vText[k]
  PROVE  \A k \in 1..(Len(stack) - 1) : Gathered(stack[k], child, text, m)
<1>1. DInv /\ LevelsGathered /\ Len(node) \in Nat
  BY SeqFacts DEF TInv, DInv, Nodes
<1>2. Top.lastChild \in Nat /\ Top.lastText \in Nat
  BY <1>1, TopNumbers
<1>3. ASSUME NEW k \in 1..(Len(stack) - 1) PROVE Gathered(stack[k], child, text, m)
  <2>1. /\ stack[k] \in Levels /\ k \in DOMAIN stack
        /\ stack[k].lastChild <= Top.lastChild /\ stack[k].lastText <= Top.lastText
    BY <1>1, LevelsBelow
  <2>2. PICK l : l = stack[k]
    OBVIOUS
  <2>3. l \in Levels /\ l.lastChild \in Nat /\ l.lastText \in Nat
    BY <2>1, <2>2 DEF Levels
  <2>4. Gathered(l, vChild, vText, Len(node))
    BY <1>1, <2>1, <2>2 DEF LevelsGathered
  <2>5. \A i \in 1..l.lastChild : child[i] = vChild[i]
    BY <1>2, <2>1, <2>2, <2>3
  <2>6. \A i \in 1..l.lastText : text[i] = vText[i]
    BY <1>2, <2>1, <2>2, <2>3
  <2>. QED BY <1>1, <2>2, <2>3, <2>4, <2>5, <2>6, GatheredKept
<1>. QED BY <1>3

LEMMA TextKept ==
  ASSUME TInv, stack # <<>>, NEW t, IsParser(t), OnText(t)
  PROVE  IsTree(node') /\ LevelsGathered'
<1>. DEFINE n == Len(stack)
            m == [Top EXCEPT !.lastText = @ + 1, !.lastOrder = @ + 1]
            x == trimText(t.content)
<1>0. DInv /\ IsTree(node) /\ LevelsGathered /\ Len(node) \in Nat
  BY SeqFacts DEF TInv, DInv, Nodes
<1>1. /\ n \in Nat \ {0} /\ DOMAIN stack = 1..n /\ n \in DOMAIN stack /\ Top = stack[n]
      /\ Top \in Levels
  BY <1>0, TopView
<1>2. /\ vText' = Put(vText, Top.lastText, x) /\ stack' = Append(Front(stack), m)
      /\ node' = node /\ vChild' = vChild
  BY DEF OnText
<1>3. /\ m \in Levels /\ m.td = Top.td /\ m.iChild = Top.iChild /\ m.iText = Top.iText
      /\ m.lastChild = Top.lastChild /\ m.lastText = Top.lastText + 1
  <2>1. m = [td |-> Top.td, iChild |-> Top.iChild, iText |-> Top.iText, iOrder |-> Top.iOrder,
             lastChild |-> Top.lastChild, lastText |-> Top.lastText + 1,
             lastOrder |-> Top.lastOrder + 1]
    BY <1>1, LevelGrown
  <2>. HIDE DEF m
  <2>. QED BY <1>0, <2>1, TopNumbers DEF Levels
<1>. HIDE DEF m
<1>4. vText'[m.lastText] = x /\ \A k \in 1..Top.lastText : vText'[k] = vText[k]
  BY <1>0, <1>2, <1>3, TopNumbers, PutFacts
<1>5. IsSeq(x)
  BY trimTextIsSeq DEF IsParser
<1>. HIDE DEF x
<1>6. /\ DOMAIN stack' = 1..n /\ stack'[n] = m
      /\ \A k \in 1..(n - 1) : stack'[k] = stack[k]
  <2>1. stack \in Seq(Levels)
    BY <1>0 DEF DInv
  <2>2. /\ stack' \in Seq(Levels) /\ Len(stack') = n
        /\ \A k \in 1..(n - 1) : stack'[k] = stack[k]
        /\ stack'[n] = m
    BY <1>2, <1>3, <2>1, TopReplaced
  <2>. QED BY <2>2, LenProperties
<1>7. Gathered(m, vChild', vText', Len(node'))
  <2>1. Gathered(Top, vChild, vText, Len(node))
    BY <1>0, <1>1 DEF LevelsGathered
  <2>2. /\ Top.iText \in Nat /\ Top.lastText \in Nat
    BY <1>0, TopNumbers
  <2>3. ASSUME NEW j \in (m.iText + 1)..m.lastText PROVE IsSeq(vText'[j])
    <3>1. j \in (Top.iText + 1)..Top.lastText \/ j = m.lastText
      BY <1>3, <2>2
    <3>2. CASE j \in (Top.iText + 1)..Top.lastText
      <4>1. j \in 1..Top.lastText
        BY <2>2, <3>2
      <4>2. IsSeq(vText[j])
        BY <2>1, <3>2 DEF Gathered
      <4>. QED BY <1>4, <4>1, <4>2
    <3>. QED BY <1>4, <1>5, <3>1, <3>2
  <2>4. \A j \in (m.iChild + 1)..m.lastChild : vChild'[j] \in (m.td + 1)..Len(node')
    BY <1>2, <1>3, <2>1 DEF Gathered
  <2>. QED BY <2>3, <2>4 DEF Gathered
<1>8. \A k \in 1..(n - 1) : Gathered(stack[k], vChild', vText', Len(node'))
  <2>1. PICK child, text, l : child = vChild' /\ text = vText' /\ l = Len(node')
    OBVIOUS
  <2>2. /\ \A k \in 1..Top.lastChild : child[k] = vChild[k]
        /\ \A k \in 1..Top.lastText : text[k] = vText[k]
        /\ l \in Nat /\ Len(node) <= l
    BY <1>0, <1>2, <1>4, <2>1
  <2>3. \A k \in 1..(Len(stack) - 1) : Gathered(stack[k], child, text, l)
    BY <2>2, BelowGathered
  <2>. QED BY <2>1, <2>3
<1>9. ASSUME NEW k \in 1..n PROVE Gathered(stack'[k], vChild', vText', Len(node'))
  <2>1. k = n \/ k \in 1..(n - 1)
    <3>1. n \in Nat \ {0} /\ k \in 1..n
      BY <1>1
    <3>. HIDE DEF n
    <3>. QED BY ONLY <3>1
  <2>. QED BY <1>6, <1>7, <1>8, <2>1
<1>. QED BY <1>0, <1>2, <1>6, <1>9 DEF LevelsGathered

LEMMA ElementKept ==
  ASSUME TInv, stack # <<>>, NEW t, IsParser(t), OnStartTag(t)
  PROVE  IsTree(node') /\ LevelsGathered'
<1>. DEFINE n == Len(stack)
            new == Len(node) + 1
            m == [Top EXCEPT !.lastChild = @ + 1, !.lastOrder = @ + 1]
            b == Below(m, new)
            nd == initNTD(t, Top.td)
<1>0. DInv /\ IsTree(node) /\ LevelsGathered /\ IsSeq(node) /\ Len(node) \in Nat /\ new \in Nat
      /\ DOMAIN node = 1..Len(node)
  BY SeqFacts DEF TInv, DInv, Nodes
<1>1. /\ n \in Nat \ {0} /\ DOMAIN stack = 1..n /\ n \in DOMAIN stack /\ Top = stack[n]
      /\ Top \in Levels /\ Top.td \in 1..Len(node)
  BY <1>0, TopView
<1>2. /\ vChild' = Put(vChild, Top.lastChild, new) /\ vText' = vText
      /\ node' = Append(node, nd) /\ stack' = Append(Front(stack), m) \o <<b>>
  BY DEF OnStartTag
<1>3. /\ m \in Levels /\ m.td = Top.td /\ m.iChild = Top.iChild /\ m.iText = Top.iText
      /\ m.lastChild = Top.lastChild + 1 /\ m.lastText = Top.lastText
  <2>1. m = [td |-> Top.td, iChild |-> Top.iChild, iText |-> Top.iText, iOrder |-> Top.iOrder,
             lastChild |-> Top.lastChild + 1, lastText |-> Top.lastText,
             lastOrder |-> Top.lastOrder + 1]
    BY <1>1, LevelGrown
  <2>. HIDE DEF m
  <2>. QED BY <1>0, <2>1, TopNumbers, SMTT(30) DEF Levels
<1>. HIDE DEF m
<1>4. /\ b \in Levels /\ b.iChild = b.lastChild /\ b.iText = b.lastText
      /\ b.iChild \in Nat /\ b.iText \in Nat
  BY <1>0, <1>3 DEF Below, Level, Levels
<1>. HIDE DEF b
<1>5. vChild'[m.lastChild] = new /\ \A k \in 1..Top.lastChild : vChild'[k] = vChild[k]
  <2>. HIDE DEF new
  <2>. QED BY <1>0, <1>2, <1>3, TopNumbers, PutFacts, SMTT(30)
<1>6. IsSeq(nd.name) /\ IsAttrs(nd.attrs) /\ Unfilled(nd)
  BY AttributesTrimmed
<1>. HIDE DEF nd
<1>7. /\ IsSeq(node') /\ Len(node') = new /\ node'[new] = nd
      /\ \A i \in 1..Len(node) : node'[i] = node[i]
  BY <1>0, <1>2, AppendFacts
<1>8. /\ DOMAIN stack' = 1..(n + 1) /\ stack'[n] = m /\ stack'[n + 1] = b
      /\ \A k \in 1..(n - 1) : stack'[k] = stack[k]
  <2>. DEFINE s == Append(Front(stack), m)
  <2>1. stack \in Seq(Levels)
    BY <1>0 DEF DInv
  <2>2. /\ s \in Seq(Levels) /\ Len(s) = n
        /\ \A k \in 1..(n - 1) : s[k] = stack[k]
        /\ s[n] = m
    BY <1>3, <2>1, TopReplaced
  <2>. HIDE DEF s
  <2>3. /\ s \o <<b>> \in Seq(Levels) /\ Len(s \o <<b>>) = n + 1
        /\ \A k \in 1..n : (s \o <<b>>)[k] = s[k]
        /\ (s \o <<b>>)[n + 1] = b
    BY <1>4, <2>2, LevelPushed
  <2>4. stack' = s \o <<b>>
    BY <1>2 DEF s
  <2>5. \A k \in 1..(n - 1) : k \in 1..n
    BY <1>1
  <2>. QED BY <1>1, <2>2, <2>3, <2>4, <2>5, LenProperties
<1>9. IsTree(node')
  <2>1. ASSUME NEW i \in 1..new PROVE IsElement(node'[i], i, new)
    <3>1. i = new \/ i \in 1..Len(node)
      BY <1>0
    <3>. HIDE DEF new
    <3>2. CASE i = new
      <4>1. IsElement(nd, new, new)
        BY <1>6, EmptyElement
      <4>. QED BY <1>7, <3>2, <4>1
    <3>3. CASE i \in 1..Len(node)
      <4>1. PICK e, l : e = node[i] /\ l = Len(node)
        OBVIOUS
      <4>2. IsElement(e, i, l) /\ l \in Nat /\ i \in Nat /\ l <= new
        BY <1>0, <3>3, <4>1 DEF IsTree, new
      <4>3. IsElement(e, i, new)
        BY <1>0, <4>2, MoreNodes
      <4>. QED BY <1>7, <3>3, <4>1, <4>3
    <3>. QED BY <3>1, <3>2, <3>3
  <2>. HIDE DEF new
  <2>. QED BY <1>7, <2>1 DEF IsTree
<1>10. Gathered(m, vChild', vText', Len(node'))
  <2>1. Gathered(Top, vChild, vText, Len(node))
    BY <1>0, <1>1 DEF LevelsGathered
  <2>2. Top.iChild \in Nat /\ Top.lastChild \in Nat /\ Top.td \in Nat
    BY <1>0, TopNumbers
  <2>3. ASSUME NEW j \in (m.iChild + 1)..m.lastChild PROVE vChild'[j] \in (m.td + 1)..new
    <3>1. j \in (Top.iChild + 1)..Top.lastChild \/ j = m.lastChild
      BY <1>3, <2>2
    <3>2. CASE j \in (Top.iChild + 1)..Top.lastChild
      <4>1. j \in 1..Top.lastChild
        BY <2>2, <3>2
      <4>2. vChild[j] \in (Top.td + 1)..Len(node)
        BY <2>1, <3>2 DEF Gathered
      <4>3. vChild'[j] = vChild[j]
        BY <1>5, <4>1
      <4>. QED BY <1>0, <1>3, <2>2, <4>2, <4>3
    <3>3. CASE j = m.lastChild
      BY <1>0, <1>1, <1>3, <1>5, <2>2, <3>3
    <3>. QED BY <3>1, <3>2, <3>3
  <2>4. \A j \in (m.iText + 1)..m.lastText : IsSeq(vText'[j])
    BY <1>2, <1>3, <2>1 DEF Gathered
  <2>. QED BY <1>7, <2>3, <2>4 DEF Gathered
<1>11. Gathered(b, vChild', vText', Len(node'))
  <2>1. (b.iChild + 1)..b.lastChild = {} /\ (b.iText + 1)..b.lastText = {}
    BY <1>4
  <2>. QED BY <2>1 DEF Gathered
<1>12. \A k \in 1..(n - 1) : Gathered(stack[k], vChild', vText', Len(node'))
  <2>1. PICK child, text, l : child = vChild' /\ text = vText' /\ l = Len(node')
    OBVIOUS
  <2>2. /\ \A k \in 1..Top.lastChild : child[k] = vChild[k]
        /\ \A k \in 1..Top.lastText : text[k] = vText[k]
        /\ l \in Nat /\ Len(node) <= l
    BY <1>0, <1>2, <1>5, <1>7, <2>1
  <2>3. \A k \in 1..(Len(stack) - 1) : Gathered(stack[k], child, text, l)
    BY <2>2, BelowGathered
  <2>. QED BY <2>1, <2>3
<1>13. ASSUME NEW k \in 1..(n + 1) PROVE Gathered(stack'[k], vChild', vText', Len(node'))
  <2>1. k = n + 1 \/ k = n \/ k \in 1..(n - 1)
    <3>1. n \in Nat \ {0} /\ k \in 1..(n + 1)
      BY <1>1
    <3>. HIDE DEF n
    <3>. QED BY ONLY <3>1
  <2>. QED BY <1>8, <1>10, <1>11, <1>12, <2>1
<1>. QED BY <1>8, <1>9, <1>13 DEF LevelsGathered

-----------------------------------------------------------------------------
(* Every step of the parser leaves less to do.                             *)

IfEmpty(p) == IF p.empty THEN 2 ELSE 0

LEMMA WorkMeans ==
  /\ Work = 4 * Left(pp) + IfEmpty(pp) + Len(stack)
  /\ Work' = 4 * Left(pp') + IfEmpty(pp') + Len(stack')
BY DEF Work, IfEmpty

LEMMA LeftIsNat == ASSUME NEW p, IsParser(p) PROVE Left(p) \in Nat
<1>1. p.at \in Nat /\ Len(p.text) \in Nat
  BY SeqFacts DEF IsParser
<1>. QED BY <1>1 DEF Left

(* Less to do, when the stack has m levels instead of n.                   *)
LEMMA WorkFalls ==
  ASSUME NEW p, NEW t, Left(p) \in Nat, Left(t) \in Nat, NEW n \in Nat, NEW m \in Nat,
         \/ Left(t) < Left(p) /\ m <= n + 1
         \/ Left(t) <= Left(p) /\ (t.empty => p.empty) /\ m < n
  PROVE  /\ 4 * Left(p) + IfEmpty(p) + n \in Nat /\ 4 * Left(t) + IfEmpty(t) + m \in Nat
         /\ 4 * Left(t) + IfEmpty(t) + m < 4 * Left(p) + IfEmpty(p) + n
<1>1. PICK a, b, e, f : a = Left(p) /\ b = Left(t) /\ e = IfEmpty(p) /\ f = IfEmpty(t)
  OBVIOUS
<1>2. a \in Nat /\ b \in Nat /\ e \in {0, 2} /\ f \in {0, 2}
  BY <1>1 DEF IfEmpty
<1>3. 4 * a + e + n \in Nat /\ 4 * b + f + m \in Nat
  BY <1>2
<1>4. ASSUME b < a, m <= n + 1 PROVE 4 * b + f + m < 4 * a + e + n
  <2>1. a \in Int /\ b \in Int /\ e \in Int /\ f \in Int /\ m \in Int /\ n \in Int
        /\ 0 <= e /\ f <= 2 /\ b + 1 <= a
    BY <1>2, <1>4
  <2>2. 4 * b + 4 <= 4 * a
    BY ONLY <2>1
  <2>3. PICK a4, b4 \in Int : a4 = 4 * a /\ b4 = 4 * b
    BY ONLY <2>1
  <2>4. b4 + f + m < a4 + e + n
    BY ONLY <1>4, <2>1, <2>2, <2>3
  <2>. QED BY ONLY <2>3, <2>4
<1>5. ASSUME b <= a, t.empty => p.empty, m < n PROVE 4 * b + f + m < 4 * a + e + n
  <2>1. f <= e
    BY <1>1, <1>5 DEF IfEmpty
  <2>2. a \in Int /\ b \in Int /\ e \in Int /\ f \in Int /\ m \in Int /\ n \in Int
        /\ b <= a /\ m < n
    BY <1>2, <1>5
  <2>3. 4 * b <= 4 * a
    BY ONLY <2>2
  <2>4. PICK a4, b4 \in Int : a4 = 4 * a /\ b4 = 4 * b
    BY ONLY <2>2
  <2>5. b4 + f + m < a4 + e + n
    BY ONLY <2>1, <2>2, <2>3, <2>4
  <2>. QED BY ONLY <2>4, <2>5
<1>6. 4 * b + f + m < 4 * a + e + n
  BY <1>1, <1>4, <1>5
<1>. QED BY <1>1, <1>3, <1>6

LEMMA ParserWorks ==
  ASSUME DInv, IsParser(pp), DomNext
  PROVE  IsParser(pp') /\ LessToDo
<1>1. stack \in Seq(Levels) /\ stack # <<>> /\ Len(stack) \in Nat \ {0}
  BY EmptySeq DEF DInv, DomNext, NextToken, Returned1
<1>2. PICK p, t : p = pp /\ t = pp'
  OBVIOUS
<1>3. SUFFICES IsParser(t) /\ (t.tok = "Endless" \/
                \E m \in Nat : /\ m = Len(stack')
                               /\ \/ Left(t) < Left(p) /\ m <= Len(stack) + 1
                                  \/ Left(t) <= Left(p) /\ (t.empty => p.empty) /\ m < Len(stack))
  <2>1. CASE t.tok = "Endless"
    BY <1>2, <1>3, <2>1 DEF LessToDo
  <2>2. ASSUME NEW m \in Nat, m = Len(stack'),
               \/ Left(t) < Left(p) /\ m <= Len(stack) + 1
               \/ Left(t) <= Left(p) /\ (t.empty => p.empty) /\ m < Len(stack)
        PROVE  LessToDo
    <3>1. Left(p) \in Nat /\ Left(t) \in Nat
      BY <1>2, <1>3, LeftIsNat
    <3>2. PICK n \in Nat : n = Len(stack)
      BY <1>1
    <3>3. /\ 4 * Left(p) + IfEmpty(p) + n \in Nat /\ 4 * Left(t) + IfEmpty(t) + m \in Nat
          /\ 4 * Left(t) + IfEmpty(t) + m < 4 * Left(p) + IfEmpty(p) + n
      BY <2>2, <3>1, <3>2, WorkFalls
    <3>4. /\ Work = 4 * Left(p) + IfEmpty(p) + n
          /\ Work' = 4 * Left(t) + IfEmpty(t) + m
      BY <1>2, <2>2, <3>2, WorkMeans
    <3>. QED BY <3>3, <3>4 DEF LessToDo
  <2>. QED BY <1>2, <1>3, <2>1, <2>2
<1>4. Len(Front(stack)) = Len(stack) - 1
  BY <1>1, FrontOfStack
<1>5. CASE NextToken
  <2>1. /\ t = nextToken(p)
        /\ \/ OnStartTag(t) \/ OnText(t) \/ OnIgnored(t)
           \/ OnEndTag(t) \/ OnEndDocument(t) \/ OnError(t)
    BY <1>2, <1>5 DEF NextToken
  <2>2. /\ IsParser(t) /\ Left(t) \in Nat /\ Left(t) <= Left(p)
        /\ t.tok = "StartTag" \/ (t.empty => p.empty)
        /\ t.tok \in {"StartTag", "Text", "Clear", "ProcessingInstruction"} => Left(t) < Left(p)
    BY <1>2, <2>1, nextTokenTaken
  <2>3. CASE OnStartTag(t)
    <3>1. Left(t) < Left(p)
      BY <2>2, <2>3 DEF OnStartTag
    <3>2. PICK m : m = [Top EXCEPT !.lastChild = @ + 1, !.lastOrder = @ + 1]
      OBVIOUS
    <3>3. PICK b : b = Below(m, Len(node) + 1)
      OBVIOUS
    <3>4. stack' = Append(Front(stack), m) \o <<b>>
      BY <2>3, <3>2, <3>3 DEF OnStartTag
    <3>5. IsSeq(Front(stack))
      BY <1>1, FrontOfStack, SeqOfElements
    <3>6. IsSeq(Append(Front(stack), m)) /\ Len(Append(Front(stack), m)) = Len(stack)
      BY <1>1, <1>4, <3>5, AppendFacts
    <3>7. Len(stack') = Len(stack) + 1
      <4>1. PICK s : s = Append(Front(stack), m)
        OBVIOUS
      <4>2. IsSeq(s) /\ Len(s) = Len(stack) /\ stack' = s \o <<b>>
        BY <3>4, <3>6, <4>1
      <4>3. s \o <<b>> = Append(s, b) /\ Len(Append(s, b)) = Len(s) + 1
        <5>1. IsSeq(s) /\ s \in Seq(ToSet(s) \cup {b}) /\ b \in ToSet(s) \cup {b}
          BY <4>2, SeqMonotonic DEF IsSeq
        <5>. QED BY <5>1, AppendIsConcat, AppendFacts
      <4>. QED BY <4>2, <4>3
    <3>. QED BY <1>1, <2>2, <3>1, <3>7
  <2>4. CASE OnText(t)
    <3>1. Left(t) < Left(p)
      BY <2>2, <2>4 DEF OnText
    <3>2. PICK m : m = [Top EXCEPT !.lastText = @ + 1, !.lastOrder = @ + 1]
      OBVIOUS
    <3>3. stack' = Append(Front(stack), m)
      BY <2>4, <3>2 DEF OnText
    <3>4. Len(stack') = Len(stack)
      <4>1. IsSeq(Front(stack))
        BY <1>1, FrontOfStack, SeqOfElements
      <4>. QED BY <1>1, <1>4, <3>3, <4>1, AppendFacts
    <3>. QED BY <1>1, <2>2, <3>1, <3>4
  <2>5. CASE OnIgnored(t)
    <3>1. CASE t.tok = "Endless"
      BY <2>2, <3>1
    <3>2. CASE t.tok # "Endless"
      <4>1. Left(t) < Left(p) /\ stack' = stack
        BY <2>2, <2>5, <3>2 DEF OnIgnored
      <4>. QED BY <1>1, <2>2, <4>1
    <3>. QED BY <3>1, <3>2
  <2>6. CASE OnEndTag(t) \/ OnEndDocument(t)
    <3>1. t.tok # "StartTag" /\ stack' = Front(stack)
      BY <2>6 DEF OnEndTag, OnEndDocument, ForceCloseTag
    <3>. QED BY <1>1, <1>4, <2>2, <3>1
  <2>7. CASE OnError(t)
    <3>1. t.tok # "StartTag" /\ stack' = <<>> /\ Len(<<>>) = 0
      BY <2>7 DEF OnError
    <3>. QED BY <1>1, <2>2, <3>1
  <2>. QED BY <2>1, <2>3, <2>4, <2>5, <2>6, <2>7
<1>6. CASE Returned1
  <2>1. t = p /\ stack' = Front(stack)
    BY <1>2, <1>6 DEF Returned1, ForceCloseTag
  <2>2. IsParser(t) /\ Left(t) \in Nat
    BY <1>2, <2>1, LeftIsNat
  <2>. QED BY <1>1, <1>4, <2>1, <2>2
<1>. QED BY <1>5, <1>6 DEF DomNext

-----------------------------------------------------------------------------
(* All steps together: the tree, the parser and what is written.           *)

LEMMA TreeBegun ==
  ASSUME NEW text, Parse(text)
  PROVE  IsTree(node') /\ LevelsGathered' /\ Len(node') = 1
<1>. DEFINE l == Level(1, 0, 0, 0)
            nd == FreshNode(NoName, <<>>, 0)
<1>1. node' = <<nd>> /\ stack' = <<l>>
  BY DEF Parse
<1>2. l.iChild = 0 /\ l.lastChild = 0 /\ l.iText = 0 /\ l.lastText = 0
  BY DEF Level
<1>3. nd.name = <<>> /\ nd.attrs = <<>> /\ Unfilled(nd)
  BY DEF FreshNode, Unfilled, NoName
<1>. HIDE DEF l, nd
<1>4. IsElement(nd, 1, 1)
  BY <1>3, EmptyIsSeq, EmptyElement
<1>5. IsSeq(node') /\ Len(node') = 1 /\ node'[1] = nd
  <2>1. node' \in Seq({nd}) /\ Len(node') = 1 /\ node'[1] = nd
    BY <1>1
  <2>. QED BY <2>1, SeqOfElements
<1>6. IsTree(node')
  <2>1. \A i \in 1..1 : i = 1
    OBVIOUS
  <2>. QED BY <1>4, <1>5, <2>1 DEF IsTree
<1>7. Gathered(l, vChild', vText', Len(node'))
  <2>1. (l.iChild + 1)..l.lastChild = {} /\ (l.iText + 1)..l.lastText = {}
    BY <1>2
  <2>. QED BY <2>1 DEF Gathered
<1>8. DOMAIN stack' = {1} /\ stack'[1] = l
  BY <1>1
<1>9. LevelsGathered'
  BY <1>7, <1>8 DEF LevelsGathered
<1>. QED BY <1>5, <1>6, <1>9

LEMMA TreeSteps ==
  ASSUME TInv, IsParser(pp), IsParser(pp'), DomNext
  PROVE  TInv' /\ Len(node') \in Nat /\ Len(node) <= Len(node')
<1>1. DInv' /\ stack # <<>>
  BY ParserSteps DEF TInv, DomNext, NextToken, Returned1
<1>2. Len(node) \in Nat
  BY SeqFacts DEF TInv, DInv, Nodes
<1>3. IsSeq(node)
  BY DEF TInv, DInv, Nodes
<1>4. SUFFICES IsTree(node') /\ LevelsGathered' /\ Len(node) <= Len(node')
  BY <1>1, <1>4, SeqFacts DEF TInv, IsTree
<1>5. ASSUME NEW name, ForceCloseTag(name)
      PROVE  IsTree(node') /\ LevelsGathered' /\ Len(node) <= Len(node')
  <2>1. node' = CREATE_NEW_NODE /\ stack' = Front(stack) /\ UNCHANGED <<vChild, vText, vOrder>>
    BY <1>5 DEF ForceCloseTag
  <2>2. Len(node') = Len(node)
    BY <1>1, <2>1, TreeKeptAtEnd
  <2>. QED BY <1>1, <1>2, <2>1, <2>2, TreeKeptAtEnd
<1>6. CASE Returned1
  BY <1>5, <1>6 DEF Returned1
<1>7. CASE NextToken
  <2>1. PICK t : t = pp'
    OBVIOUS
  <2>2. /\ IsParser(t)
        /\ \/ OnStartTag(t) \/ OnText(t) \/ OnIgnored(t)
           \/ OnEndTag(t) \/ OnEndDocument(t) \/ OnError(t)
    BY <1>7, <2>1 DEF NextToken
  <2>3. CASE OnStartTag(t)
    <3>1. PICK nd : node' = Append(node, nd)
      BY <2>3 DEF OnStartTag
    <3>2. Len(node') = Len(node) + 1
      BY <1>3, <3>1, AppendFacts
    <3>. QED BY <1>1, <1>2, <2>2, <2>3, <3>2, ElementKept
  <2>4. CASE OnText(t)
    <3>1. node' = node
      BY <2>4 DEF OnText
    <3>. QED BY <1>1, <1>2, <2>2, <2>4, <3>1, TextKept
  <2>5. CASE OnIgnored(t)
    <3>1. UNCHANGED <<node, stack, vChild, vText>>
      BY <2>5 DEF OnIgnored
    <3>. QED BY <1>2, <3>1 DEF TInv, LevelsGathered
  <2>6. CASE OnEndTag(t)
    BY <1>5, <2>6 DEF OnEndTag
  <2>7. CASE OnEndDocument(t)
    <3>1. node' = CREATE_NEW_NODE /\ stack' = Front(stack) /\ UNCHANGED <<vChild, vText, vOrder>>
      BY <2>7 DEF OnEndDocument
    <3>2. Len(node') = Len(node)
      BY <1>1, <3>1, TreeKeptAtEnd
    <3>. QED BY <1>1, <1>2, <3>1, <3>2, TreeKeptAtEnd
  <2>8. CASE OnError(t)
    <3>1. node' = node /\ DOMAIN stack' = {}
      BY <2>8 DEF OnError
    <3>. QED BY <1>2, <3>1 DEF TInv, LevelsGathered
  <2>. QED BY <2>2, <2>3, <2>4, <2>5, <2>6, <2>7, <2>8
<1>. QED BY <1>6, <1>7 DEF DomNext

(* The node that is looked for at the top is one of the tree, or none.     *)
LEMMA genericParseFinds ==
  ASSUME IsTree(node), 1 <= Len(node), NEW tag
  PROVE  genericParse(tag) \in 0..Len(node)
<1>1. Len(node) \in Nat \ {0}
  BY SeqFacts DEF IsTree
<1>2. ASSUME NEW i \in 1..Len(node), NEW k \in 1..Len(node[i].pChild)
      PROVE  node[i].pChild[k] \in 1..Len(node)
  <2>1. node[i].pChild[k] \in (i + 1)..Len(node)
    BY DEF IsTree, IsElement
  <2>. QED BY <1>1, <2>1
<1>3. PICK x : x = genericParse2
  OBVIOUS
<1>4. x \in 1..Len(node)
  <2>1. CASE Len(node[1].pChild) = 1 /\ nElement(node[1]) = 1
    BY <1>1, <1>2, <1>3, <2>1 DEF genericParse2
  <2>2. CASE ~(Len(node[1].pChild) = 1 /\ nElement(node[1]) = 1)
    BY <1>1, <1>3, <2>2 DEF genericParse2
  <2>. QED BY <2>1, <2>2
<1>5. getChildNode(x, tag) \in 0..Len(node)
  <2>. DEFINE I == {k \in (0 + 1)..Len(node[x].pChild) : node[node[x].pChild[k]].name = tag}
              k == IF I # {} THEN Min(I) ELSE 0
  <2>1. getChildNode(x, tag) = IF k = 0 THEN 0 ELSE node[x].pChild[k]
    BY <1>4, SMTT(30) DEF getChildNode, getNext, SelectInSubSeq, Found, NoNode
  <2>2. /\ Len(node[x].pChild) \in Nat /\ I \subseteq 1..Len(node[x].pChild)
        /\ I \subseteq Nat
    BY <1>4, SeqFacts DEF IsTree, IsElement
  <2>3. CASE I = {}
    BY <2>1, <2>3
  <2>4. CASE I # {}
    <3>. HIDE DEF I
    <3>1. \E m \in I : \A n \in I : m <= n
      BY <2>2, <2>4, Least
    <3>2. Min(I) \in I
      BY <3>1 DEF Min
    <3>3. k \in 1..Len(node[x].pChild)
      BY <2>2, <2>4, <3>2
    <3>. HIDE DEF k
    <3>. QED BY <1>2, <1>4, <2>1, <3>3
  <2>. QED BY <2>3, <2>4
<1>. QED BY <1>1, <1>3, <1>4, <1>5 DEF genericParse, NoNode

FilesOk ==
  \A w \in {"own", "common"} : files[w] # Missing => IsSeq(files[w].text)

(* What holds of a tree that is parsed, read and written.                  *)
RInv ==
  /\ TInv /\ IsParser(pp) /\ FilesOk
  /\ stage = "parsing" => 1 <= Len(node)
  /\ stage # "ready" => xMainNode = 0
  /\ xMainNode \in 0..Len(node)
  /\ RoomExact

LEMMA NewIsParser == ASSUME NEW text, IsSeq(text) PROVE IsParser(New(text))
BY EmptyIsSeq DEF New, IsParser

LEMMA RInvInit == RewriteInit => RInv
<1>. SUFFICES ASSUME RewriteInit PROVE RInv
  OBVIOUS
<1>1. /\ pp = New(<<>>) /\ node = <<>> /\ stack = <<>> /\ stage = "none" /\ xMainNode = 0
      /\ written = NotWritten
  BY DEF RewriteInit, Init, DomInit
<1>2. DOMAIN <<>> = {} /\ Len(node) = 0 /\ IsSeq(node)
  BY <1>1, EmptyIsSeq
<1>3. TInv
  <2>1. IsTree(node) /\ LevelsGathered
    BY <1>1, <1>2 DEF IsTree, LevelsGathered
  <2>. QED BY <2>1, DInvInit DEF TInv
<1>4. IsParser(pp)
  BY <1>1, EmptyIsSeq, NewIsParser
<1>5. FilesOk
  <2>1. PICK m \in Machines : files = [own |-> m.own, common |-> m.common]
    BY DEF RewriteInit, Init
  <2>2. files["own"] = m.own /\ files["common"] = m.common
    BY <2>1
  <2>3. \A f \in {m.own, m.common} : f # Missing => f.text \in Seq(STRING)
    BY MachinesAssumption
  <2>. QED BY <2>2, <2>3, SeqOfElements DEF FilesOk
<1>6. RoomExact
  BY <1>1 DEF RoomExact, NotWritten
<1>. QED BY <1>1, <1>2, <1>3, <1>4, <1>5, <1>6 DEF RInv

LEMMA RInvUnchanged ==
  ASSUME RInv, UNCHANGED <<domVars, files, stage, xMainNode, written>>
  PROVE  RInv'
<1>1. UNCHANGED <<pp, node, stack, vChild, vText, vOrder, ret, errorCode>>
  BY DEF domVars
<1>2. DInv'
  BY NothingDone DEF RInv, TInv
<1>3. TInv'
  BY <1>1, <1>2 DEF RInv, TInv, LevelsGathered
<1>. QED BY <1>1, <1>3 DEF RInv, FilesOk, RoomExact

LEMMA RInvParse ==
  ASSUME RInv, NEW text, IsSeq(text), Parse(text), files' = files, xMainNode' = 0,
         RoomExact'
  PROVE  RInv'
<1>1. DInv' /\ IsTree(node') /\ LevelsGathered' /\ Len(node') = 1
  BY DocumentBegun, TreeBegun DEF RInv, TInv
<1>2. IsParser(pp')
  BY NewIsParser DEF Parse
<1>3. FilesOk'
  BY DEF RInv, FilesOk
<1>. QED BY <1>1, <1>2, <1>3 DEF RInv, TInv

LEMMA RInvSettings ==
  ASSUME RInv, Next, written' = written
  PROVE  RInv' /\ (Parsing => LessToDo)
<1>0. RoomExact'
  BY DEF RInv, RoomExact
<1>1. CASE getInstance
  <2>1. stage = "none" /\ files' = files /\ xMainNode' = xMainNode /\ xMainNode = 0
    BY <1>1 DEF getInstance, RInv
  <2>2. CASE files[Chosen] = Missing
    <3>1. stage' = "ready" /\ UNCHANGED domVars
      BY <1>1, <2>2 DEF getInstance
    <3>2. UNCHANGED <<pp, node, stack, vChild, vText, vOrder, ret, errorCode>>
      BY <3>1 DEF domVars
    <3>3. TInv'
      BY <3>1, <3>2, NothingDone DEF RInv, TInv, LevelsGathered
    <3>. QED BY <1>0, <2>1, <3>1, <3>2, <3>3 DEF RInv, FilesOk, Parsing
  <2>3. CASE files[Chosen] # Missing
    <3>1. Parse(files[Chosen].text)
      BY <1>1, <2>3 DEF getInstance
    <3>2. IsSeq(files[Chosen].text)
      BY <2>3 DEF RInv, FilesOk, Chosen
    <3>. QED BY <1>0, <2>1, <3>1, <3>2, RInvParse DEF Parsing
  <2>. QED BY <2>2, <2>3
<1>2. CASE Parsing
  <2>1. /\ DomNext /\ stage = "parsing" /\ files' = files /\ stage' = stage
        /\ xMainNode' = xMainNode
    BY <1>2 DEF Parsing, settingsVars
  <2>2. IsParser(pp') /\ LessToDo
    BY <2>1, ParserWorks DEF RInv, TInv
  <2>3. TInv' /\ Len(node') \in Nat /\ Len(node) <= Len(node')
    BY <2>1, <2>2, TreeSteps DEF RInv
  <2>4. Len(node) \in Nat
    BY SeqFacts DEF RInv, TInv, IsTree
  <2>5. FilesOk'
    BY <2>1 DEF RInv, FilesOk
  <2>. QED BY <1>0, <2>1, <2>2, <2>3, <2>4, <2>5 DEF RInv
<1>3. CASE parseFile
  <2>1. /\ stage = "parsing" /\ stage' = "ready" /\ files' = files /\ UNCHANGED domVars
        /\ xMainNode' = genericParse(Chars("settings"))
    BY <1>3 DEF parseFile
  <2>2. xMainNode' \in 0..Len(node)
    BY <2>1, genericParseFinds DEF RInv, TInv
  <2>3. UNCHANGED <<pp, node, stack, vChild, vText, vOrder, ret, errorCode>>
    BY <2>1 DEF domVars
  <2>4. TInv'
    BY <2>1, <2>3, NothingDone DEF RInv, TInv, LevelsGathered
  <2>5. ~(stack # <<>>)
    BY <1>3 DEF parseFile, Parsed
  <2>6. ~Parsing
    BY <2>5 DEF Parsing, DomNext, NextToken, Returned1
  <2>. QED BY <1>0, <2>1, <2>2, <2>3, <2>4, <2>6 DEF RInv, FilesOk
<1>4. ASSUME NEW r \in Reads, Read(r) PROVE RInv' /\ (Parsing => LessToDo)
  <2>1. stage = "ready" /\ UNCHANGED <<domVars, files, stage, xMainNode, written>>
    BY <1>4 DEF Read
  <2>. QED BY <2>1, RInvUnchanged DEF Parsing
<1>. QED BY <1>1, <1>2, <1>3, <1>4 DEF Next

LEMMA RInvNext ==
  ASSUME RInv, [RewriteNext]_rewriteVars
  PROVE  RInv' /\ [Parsing => LessToDo]_domVars
<1>1. CASE Next /\ UNCHANGED <<sceneVars, written>>
  BY <1>1, RInvSettings
<1>2. ASSUME NEW j \in SceneNumbers, getData(Chars("s"), j), UNCHANGED written
      PROVE  RInv' /\ [Parsing => LessToDo]_domVars
  <2>1. UNCHANGED <<domVars, files, stage, xMainNode, written>>
    BY <1>2 DEF getData, settingsVars
  <2>. QED BY <2>1, RInvUnchanged
<1>3. ASSUME NEW formatted \in BOOLEAN, WriteAndParse(formatted)
      PROVE  RInv' /\ [Parsing => LessToDo]_domVars
  <2>1. PICK w : w = [x |-> xMainNode, nodes |-> node,
                      text |-> getString(xMainNode, formatted),
                      room |-> bufferSize(xMainNode, formatted)]
    OBVIOUS
  <2>2. /\ stage = "ready" /\ xMainNode # 0 /\ written' = w /\ Parse(w.text \o <<NUL>>)
        /\ files' = files /\ xMainNode' = 0
    BY <1>3, <2>1 DEF WriteAndParse
  <2>3. PICK x, f : x = xMainNode /\ f = Format(formatted)
    OBVIOUS
  <2>4. IsTree(node) /\ x \in 1..Len(node) /\ f \in Int
    <3>1. Len(node) \in Nat /\ x \in 0..Len(node) /\ x # 0
      BY <2>2, <2>3, SeqFacts DEF RInv, TInv, IsTree
    <3>2. f \in Int
      BY <2>3 DEF Format
    <3>. QED BY <3>1, <3>2 DEF RInv, TInv
  <2>5. IsSeq(w.text) /\ Len(w.text) = w.room
    <3>1. w.text = getStringR[x][f] /\ w.room = lengthR[x][f]
      BY <2>1, <2>3 DEF getString, bufferSize
    <3>. QED BY <2>4, <3>1, PassesAgree
  <2>6. PICK text : text = w.text \o <<NUL>>
    OBVIOUS
  <2>7. IsSeq(text)
    <3>1. IsSeq(<<NUL>>)
      <4>1. \A c : <<c>> \in Seq({c})
        OBVIOUS
      <4>. QED BY <4>1, SeqOfElements
    <3>. QED BY <2>5, <2>6, <3>1, ConcatFacts
  <2>8. RoomExact'
    BY <2>2, <2>5 DEF RoomExact
  <2>9. Parse(text)
    BY <2>2, <2>6
  <2>10. RInv'
    BY <2>2, <2>7, <2>8, <2>9, RInvParse
  <2>11. ~Parsing
    BY <2>2 DEF Parsing
  <2>. QED BY <2>10, <2>11
<1>4. CASE UNCHANGED rewriteVars
  <2>1. UNCHANGED <<domVars, files, stage, xMainNode, written>>
    BY <1>4 DEF rewriteVars, settingsVars
  <2>. QED BY <2>1, RInvUnchanged
<1>. QED BY <1>1, <1>2, <1>3, <1>4 DEF RewriteNext

(* Every step of nextToken and genericParseRecur leaves less of a file to  *)
(* read, or fewer levels to end, whatever the file holds: only the loop of *)
(* findClearTagEnd keeps a parse from ending.                              *)
THEOREM ReadingEnds == Spec => ParseEnds
<1>1. RInv /\ [RewriteNext]_rewriteVars => RInv' /\ [Parsing => LessToDo]_domVars
  BY RInvNext
<1>. QED BY <1>1, RInvInit, PTL DEF Spec, ParseEnds

(* Whatever tree was read, the first pass of getStringR counts exactly the *)
(* characters that the second one writes: the buffer is never overrun and  *)
(* has no gap.                                                             *)
THEOREM WriterMakesRoom == Spec => []RoomExact
<1>1. RInv /\ [RewriteNext]_rewriteVars => RInv'
  BY RInvNext
<1>2. RInv => RoomExact
  BY DEF RInv
<1>. QED BY <1>1, <1>2, RInvInit, PTL DEF Spec

-----------------------------------------------------------------------------
(* Searches.  A cursor j goes through the places S of a list: to the first *)
(* one behind it, and when there is none it stays.                         *)

NextIn(S, j) == LET I == {k \in S : k > j} IN IF I = {} THEN 0 ELSE Min(I)

After(S, j) == IF NextIn(S, j) = 0 THEN j ELSE NextIn(S, j)

(* S are places among the first N.                                         *)
Among(S, N) == N \in Nat /\ S \subseteq 1..N

UpTo(S, j) == Cardinality({l \in S : l <= j})

IsWalk(h, S, n) == h \in [0..n -> Nat] /\ \A k \in 1..n : h[k] = After(S, h[k - 1])

LEMMA Places ==
  ASSUME NEW N, NEW S, Among(S, N)
  PROVE  \A k \in S : k \in Nat /\ k # 0 /\ k > 0
<1>1. ASSUME NEW k \in S PROVE k \in 1..N
  BY DEF Among
<1>2. \A k \in 1..N : k \in Nat /\ k # 0 /\ k > 0
  BY DEF Among
<1>. QED BY <1>1, <1>2

LEMMA SameSet ==
  ASSUME NEW A, NEW B, \A l : l \in A <=> l \in B
  PROVE  A = B
OBVIOUS

(* Up to a place is before it, and that place.                             *)
LEMMA UpToPlace ==
  ASSUME NEW N, NEW S, Among(S, N), NEW m \in S
  PROVE  /\ {l \in S : l <= m} = {l \in S : l < m} \cup {m}
         /\ m \notin {l \in S : l < m}
<1>1. \A l \in S : l <= m <=> l < m \/ l = m
  BY Places
<1>2. ASSUME NEW l PROVE l \in {q \in S : q <= m} <=> l \in {q \in S : q < m} \cup {m}
  BY <1>1
<1>3. ~(m < m)
  BY Places
<1>. QED BY <1>2, <1>3, SameSet

LEMMA NextFacts ==
  ASSUME NEW N, NEW S, Among(S, N), NEW j \in Nat
  PROVE  /\ NextIn(S, j) \in Nat /\ After(S, j) \in Nat
         /\ NextIn(S, j) # 0 => /\ NextIn(S, j) \in S /\ NextIn(S, j) > j
                                /\ \A k \in S : k > j => NextIn(S, j) <= k
         /\ NextIn(S, j) = 0 => \A k \in S : k <= j
<1>. DEFINE I == {k \in S : k > j}
<1>1. NextIn(S, j) = IF I = {} THEN 0 ELSE Min(I)
  BY DEF NextIn
<1>2. CASE I = {}
  <2>1. \A k \in S : k \notin I /\ k \in Nat
    BY <1>2, Places
  <2>2. \A k \in S : k <= j
    BY <2>1
  <2>3. NextIn(S, j) = 0
    BY <1>1, <1>2
  <2>. QED BY <2>2, <2>3 DEF After
<1>3. CASE I # {}
  <2>1. I \subseteq Nat /\ \A k \in I : k \in S /\ k > j /\ k # 0
    BY Places
  <2>2. Min(I) \in I /\ \A k \in I : Min(I) <= k
    <3>. HIDE DEF I
    <3>1. \E m \in I : \A k \in I : m <= k
      BY <1>3, <2>1, Least
    <3>. QED BY <3>1 DEF Min
  <2>3. NextIn(S, j) \in I /\ \A k \in I : NextIn(S, j) <= k
    BY <1>1, <1>3, <2>2
  <2>4. \A k \in S : k > j => k \in I
    OBVIOUS
  <2>. HIDE DEF I
  <2>5. NextIn(S, j) \in Nat /\ NextIn(S, j) # 0 /\ NextIn(S, j) \in S /\ NextIn(S, j) > j
    BY <2>1, <2>3
  <2>. QED BY <2>3, <2>4, <2>5 DEF After
<1>. QED BY <1>2, <1>3

LEMMA UpToFacts ==
  ASSUME NEW N, NEW S, Among(S, N)
  PROVE  /\ IsFiniteSet(S)
         /\ \A j \in Nat : UpTo(S, j) \in Nat /\ UpTo(S, j) <= Cardinality(S)
         /\ \A j, k \in Nat : j <= k => UpTo(S, j) <= UpTo(S, k)
         /\ \A j \in Nat, k \in S : j < k => UpTo(S, j) < UpTo(S, k)
         /\ Cardinality(S) \in Nat /\ Cardinality(S) <= N
<1>1. IsFiniteSet(1..N) /\ Cardinality(1..N) = N
  BY FS_Interval DEF Among
<1>2. IsFiniteSet(S) /\ Cardinality(S) \in Nat /\ Cardinality(S) <= N
  BY <1>1, FS_Subset, FS_CardinalityType DEF Among
<1>3. ASSUME NEW j \in Nat
      PROVE  /\ IsFiniteSet({l \in S : l <= j})
             /\ UpTo(S, j) \in Nat /\ UpTo(S, j) <= Cardinality(S)
  <2>1. {l \in S : l <= j} \in SUBSET S
    OBVIOUS
  <2>. QED BY <1>2, <2>1, FS_Subset, FS_CardinalityType DEF UpTo
<1>4. ASSUME NEW j \in Nat, NEW k \in Nat, j <= k
      PROVE  /\ UpTo(S, j) <= UpTo(S, k)
             /\ UpTo(S, k) = UpTo(S, j) => {l \in S : l <= j} = {l \in S : l <= k}
  <2>1. \A l \in S : l <= j => l <= k
    BY <1>4, Places
  <2>2. {l \in S : l <= j} \in SUBSET {l \in S : l <= k}
    BY <2>1
  <2>. QED BY <1>3, <2>2, FS_Subset DEF UpTo
<1>5. ASSUME NEW j \in Nat, NEW k \in S, j < k PROVE UpTo(S, j) < UpTo(S, k)
  <2>0. k \in Nat
    BY Places
  <2>1. k \in Nat /\ j <= k /\ k \in {l \in S : l <= k} /\ k \notin {l \in S : l <= j}
    BY <1>5, <2>0
  <2>2. UpTo(S, j) # UpTo(S, k) /\ UpTo(S, j) <= UpTo(S, k)
    BY <1>4, <2>1
  <2>3. UpTo(S, j) \in Nat /\ UpTo(S, k) \in Nat
    BY <1>3, <2>0
  <2>. QED BY <2>2, <2>3
<1>. QED BY <1>2, <1>3, <1>4, <1>5

(* The next place is one more.                                             *)
LEMMA NextCounts ==
  ASSUME NEW N, NEW S, Among(S, N), NEW j \in Nat, NextIn(S, j) # 0
  PROVE  /\ UpTo(S, NextIn(S, j)) = UpTo(S, j) + 1
         /\ {l \in S : l < NextIn(S, j)} = {l \in S : l <= j}
<1>1. PICK k : k = NextIn(S, j)
  OBVIOUS
<1>2. k \in S /\ k > j /\ k \in Nat /\ \A l \in S : l > j => k <= l
  BY <1>1, NextFacts
<1>3. {l \in S : l < k} = {l \in S : l <= j}
  <2>1. \A l \in S : l < k <=> l <= j
    BY <1>2, Places
  <2>2. ASSUME NEW l PROVE l \in {q \in S : q < k} <=> l \in {q \in S : q <= j}
    BY <2>1
  <2>. QED BY <2>2, SameSet
<1>4. {l \in S : l <= k} = {l \in S : l <= j} \cup {k} /\ k \notin {l \in S : l <= j}
  <2>1. {l \in S : l <= k} = {l \in S : l < k} \cup {k} /\ k \notin {l \in S : l < k}
    BY <1>2, UpToPlace
  <2>. QED BY <1>3, <2>1
<1>5. IsFiniteSet({l \in S : l <= j})
  <2>1. {l \in S : l <= j} \in SUBSET S
    OBVIOUS
  <2>. QED BY <2>1, UpToFacts, FS_Subset
<1>6. UpTo(S, k) = UpTo(S, j) + 1
  BY <1>4, <1>5, FS_AddElement DEF UpTo
<1>. QED BY <1>1, <1>3, <1>6

LEMMA WalkExists ==
  ASSUME NEW N, NEW S, Among(S, N), NEW j \in Nat, NEW n \in Nat
  PROVE  \E h : IsWalk(h, S, n) /\ h[0] = j
<1>. DEFINE A == {m \in Nat : \E h : IsWalk(h, S, m) /\ h[0] = j}
<1>1. 0 \in A
  <2>. DEFINE h == [k \in 0..0 |-> j]
  <2>1. IsWalk(h, S, 0) /\ h[0] = j
    BY DEF IsWalk
  <2>. HIDE DEF h
  <2>. QED BY <2>1
<1>2. ASSUME NEW m \in Nat, m \in A PROVE m + 1 \in A
  <2>1. PICK h : IsWalk(h, S, m) /\ h[0] = j
    BY <1>2
  <2>2. h \in [0..m -> Nat] /\ \A k \in 1..m : h[k] = After(S, h[k - 1])
    BY <2>1 DEF IsWalk
  <2>. DEFINE g == [k \in 0..(m + 1) |-> IF k <= m THEN h[k] ELSE After(S, h[m])]
  <2>3. h[m] \in Nat /\ After(S, h[m]) \in Nat
    <3>1. h[m] \in Nat
      BY <2>2
    <3>. QED BY <3>1, NextFacts
  <2>4. g \in [0..(m + 1) -> Nat]
    BY <2>2, <2>3
  <2>5. ASSUME NEW k \in 1..(m + 1) PROVE g[k] = After(S, g[k - 1])
    <3>1. CASE k \in 1..m
      <4>1. k - 1 \in 0..m /\ k \in 0..m /\ k - 1 \in 0..(m + 1) /\ k - 1 <= m
        BY <3>1
      <4>2. g[k - 1] = h[k - 1] /\ g[k] = h[k]
        BY <3>1, <4>1
      <4>. QED BY <2>2, <3>1, <4>2
    <3>2. CASE k = m + 1
      <4>1. k - 1 = m /\ ~(k <= m) /\ m \in 0..(m + 1)
        BY <3>2
      <4>2. g[k - 1] = h[m] /\ g[k] = After(S, h[m])
        BY <4>1
      <4>. QED BY <4>2
    <3>. QED BY <3>1, <3>2
  <2>6. g[0] = j
    BY <2>1
  <2>. HIDE DEF g
  <2>7. IsWalk(g, S, m + 1)
    BY <2>4, <2>5 DEF IsWalk
  <2>. QED BY <2>6, <2>7
<1>. HIDE DEF A
<1>3. n \in A
  BY <1>1, <1>2, NatSet
<1>. QED BY <1>3 DEF A

LEMMA WalkCounts ==
  ASSUME NEW N, NEW S, Among(S, N), NEW n \in Nat, NEW h, IsWalk(h, S, n)
  PROVE  \A k \in 0..n :
           /\ UpTo(S, h[k]) <= UpTo(S, h[0]) + k
           /\ UpTo(S, h[k]) = UpTo(S, h[0]) + k \/ NextIn(S, h[k]) = 0
           /\ h[k] = h[0] \/ h[k] \in S
<1>0. h \in [0..n -> Nat] /\ \A k \in 1..n : h[k] = After(S, h[k - 1])
  BY DEF IsWalk
<1>. DEFINE P(k) == /\ UpTo(S, h[k]) <= UpTo(S, h[0]) + k
                    /\ UpTo(S, h[k]) = UpTo(S, h[0]) + k \/ NextIn(S, h[k]) = 0
                    /\ h[k] = h[0] \/ h[k] \in S
            A == {k \in Nat : k <= n => P(k)}
<1>1. 0 \in A
  <2>1. UpTo(S, h[0]) \in Nat
    <3>1. h[0] \in Nat
      BY <1>0
    <3>. QED BY <3>1, UpToFacts
  <2>. QED BY <2>1
<1>2. ASSUME NEW k \in Nat, k \in A PROVE k + 1 \in A
  <2>1. SUFFICES ASSUME k + 1 <= n PROVE P(k + 1)
    OBVIOUS
  <2>2. P(k)
    BY <1>2, <2>1
  <2>3. k \in 0..n /\ k + 1 \in 1..n /\ k + 1 - 1 = k /\ 0 \in 0..n
    BY <2>1
  <2>4. h[k] \in Nat /\ h[0] \in Nat /\ h[k + 1] = After(S, h[k])
    BY <1>0, <2>3
  <2>5. UpTo(S, h[k]) \in Nat /\ UpTo(S, h[0]) \in Nat
    BY <2>4, UpToFacts
  <2>6. CASE NextIn(S, h[k]) = 0
    <3>1. h[k + 1] = h[k]
      BY <2>4, <2>6 DEF After
    <3>. QED BY <2>2, <2>5, <2>6, <3>1
  <2>7. CASE NextIn(S, h[k]) # 0
    <3>1. h[k + 1] = NextIn(S, h[k])
      BY <2>4, <2>7 DEF After
    <3>2. h[k + 1] \in S /\ UpTo(S, h[k + 1]) = UpTo(S, h[k]) + 1
      BY <2>4, <2>7, <3>1, NextFacts, NextCounts
    <3>. QED BY <2>2, <2>5, <2>7, <3>2
  <2>. QED BY <2>6, <2>7
<1>. HIDE DEF A
<1>3. Nat \subseteq A
  BY <1>1, <1>2, NatSet
<1>4. \A k \in 0..n : P(k)
  BY <1>3 DEF A
<1>. QED BY <1>4

(* A walk comes by every place behind its start.                           *)
LEMMA WalkReaches ==
  ASSUME NEW N, NEW S, Among(S, N), NEW n \in Nat, NEW h, IsWalk(h, S, n),
         NEW l \in S, h[0] < l, NEW k \in 0..n, UpTo(S, l) = UpTo(S, h[0]) + k
  PROVE  h[k] = l
<1>1. h \in [0..n -> Nat] /\ h[0] \in Nat /\ l \in Nat
  BY Places DEF IsWalk
<1>2. /\ UpTo(S, h[0]) \in Nat /\ UpTo(S, l) \in Nat
      /\ UpTo(S, h[0]) < UpTo(S, l)
  BY <1>1, UpToFacts
<1>4. k \in 1..n /\ k \in 0..n /\ UpTo(S, h[0]) + k = UpTo(S, l)
  BY <1>2
<1>5. h[k] \in Nat
  BY <1>1, <1>4
<1>6. l <= h[k]
  <2>1. SUFFICES ASSUME h[k] < l PROVE FALSE
    BY <1>1, <1>5
  <2>2. UpTo(S, h[k]) < UpTo(S, l)
    BY <1>5, <2>1, UpToFacts
  <2>3. UpTo(S, h[k]) = UpTo(S, h[0]) + k \/ NextIn(S, h[k]) = 0
    BY <1>4, WalkCounts
  <2>4. NextIn(S, h[k]) # 0
    <3>1. ~(l <= h[k])
      BY <1>1, <1>5, <2>1
    <3>. QED BY <1>5, <3>1, NextFacts
  <2>. QED BY <1>2, <1>4, <2>2, <2>3, <2>4
<1>7. h[k] <= l
  <2>1. SUFFICES ASSUME l < h[k] PROVE FALSE
    BY <1>1, <1>5
  <2>2. h[k] \in S
    <3>1. h[k] = h[0] \/ h[k] \in S
      BY <1>4, WalkCounts
    <3>. QED BY <1>1, <1>5, <2>1, <3>1
  <2>3. UpTo(S, l) < UpTo(S, h[k])
    BY <1>1, <2>1, <2>2, UpToFacts
  <2>4. UpTo(S, h[k]) <= UpTo(S, h[0]) + k
    BY <1>4, WalkCounts
  <2>5. UpTo(S, h[k]) \in Nat
    BY <1>5, UpToFacts
  <2>. QED BY <1>2, <1>4, <2>3, <2>4, <2>5
<1>. QED BY <1>1, <1>5, <1>6, <1>7

(* What a cursor at j comes to.                                            *)
Reply(i, S, j) ==
  [x |-> IF NextIn(S, j) = 0 THEN NoNode ELSE node[i].pChild[NextIn(S, j)],
   j |-> After(S, j)]

(* From the start, the search that follows on j others finds what has j in *)
(* front of it.                                                            *)
LEMMA WalkNumbers ==
  ASSUME NEW i, NEW N, NEW S, Among(S, N), NEW n \in Nat, NEW h,
         IsWalk(h, S, n), h[0] = 0, NEW k \in 0..n
  PROVE  Reply(i, S, h[k]).x = NthOf(i, S, k)
<1>. DEFINE K == {m \in S : Cardinality({l \in S : l < m}) = k}
<1>1. NthOf(i, S, k) = IF K = {} THEN NoNode ELSE node[i].pChild[CHOOSE m \in K : TRUE]
  BY DEF NthOf
<1>2. h[k] \in Nat /\ k \in Nat
  BY DEF IsWalk
<1>3. UpTo(S, h[0]) = 0
  <2>1. \A l \in S : ~(l <= h[0])
    BY Places
  <2>2. {l \in S : l <= h[0]} = {}
    BY <2>1
  <2>. QED BY <2>2, FS_EmptySet DEF UpTo
<1>4. UpTo(S, h[k]) \in Nat /\ UpTo(S, h[k]) <= k
      /\ (UpTo(S, h[k]) = k \/ NextIn(S, h[k]) = 0)
  <2>1. UpTo(S, h[k]) \in Nat
    BY <1>2, UpToFacts
  <2>2. UpTo(S, h[k]) <= UpTo(S, h[0]) + k
        /\ (UpTo(S, h[k]) = UpTo(S, h[0]) + k \/ NextIn(S, h[k]) = 0)
    BY WalkCounts
  <2>. QED BY <1>2, <1>3, <2>1, <2>2
<1>5. ASSUME NEW m \in S
      PROVE  Cardinality({l \in S : l < m}) + 1 = UpTo(S, m) /\ m \in Nat
  <2>0. m \in Nat
    BY Places
  <2>1. {l \in S : l <= m} = {l \in S : l < m} \cup {m} /\ m \notin {l \in S : l < m}
        /\ {l \in S : l < m} \in SUBSET S
    BY UpToPlace
  <2>2. IsFiniteSet({l \in S : l < m})
    BY <2>1, UpToFacts, FS_Subset
  <2>3. Cardinality({l \in S : l < m} \cup {m}) = Cardinality({l \in S : l < m}) + 1
    BY <2>1, <2>2, FS_AddElement
  <2>. QED BY <2>0, <2>1, <2>3 DEF UpTo
<1>6. \A m \in S : m \in K <=> UpTo(S, m) = k + 1
  <2>1. ASSUME NEW m \in S PROVE m \in K <=> UpTo(S, m) = k + 1
    <3>1. Cardinality({l \in S : l < m}) + 1 = UpTo(S, m) /\ UpTo(S, m) \in Nat
      BY <1>5, UpToFacts
    <3>2. {l \in S : l < m} \in SUBSET S
      OBVIOUS
    <3>3. Cardinality({l \in S : l < m}) \in Nat
      BY <3>2, UpToFacts, FS_Subset, FS_CardinalityType
    <3>. QED BY <1>2, <3>1, <3>3
  <2>. QED BY <2>1
<1>7. K \subseteq S
  OBVIOUS
<1>. HIDE DEF K
<1>8. CASE NextIn(S, h[k]) = 0
  <2>1. ASSUME NEW m \in K PROVE FALSE
    <3>1. m \in S /\ m \in Nat /\ UpTo(S, m) = k + 1 /\ m <= h[k]
      BY <1>2, <1>5, <1>6, <1>7, <1>8, NextFacts
    <3>2. UpTo(S, m) <= UpTo(S, h[k])
      BY <1>2, <3>1, UpToFacts
    <3>. QED BY <1>2, <1>4, <3>1, <3>2
  <2>. QED BY <1>1, <1>8, <2>1 DEF Reply
<1>9. CASE NextIn(S, h[k]) # 0
  <2>1. PICK m : m = NextIn(S, h[k])
    OBVIOUS
  <2>2. m \in S /\ m \in Nat /\ UpTo(S, m) = k + 1
    <3>1. m \in S /\ m \in Nat
      BY <1>2, <1>9, <2>1, NextFacts
    <3>2. UpTo(S, m) = UpTo(S, h[k]) + 1
      BY <1>2, <1>9, <2>1, NextCounts
    <3>. QED BY <1>4, <1>9, <3>1, <3>2
  <2>3. m \in K
    BY <1>6, <2>2
  <2>4. ASSUME NEW o \in K PROVE o = m
    <3>1. o \in S /\ o \in Nat /\ UpTo(S, o) = k + 1
      BY <1>5, <1>6, <1>7
    <3>2. ~(o < m) /\ ~(m < o)
      <4>1. \A j \in Nat, q \in S : j < q => UpTo(S, j) < UpTo(S, q)
        BY UpToFacts
      <4>2. ~(k + 1 < k + 1)
        BY <1>2
      <4>. QED BY <2>2, <3>1, <4>1, <4>2
    <3>. QED BY <2>2, <3>1, <3>2
  <2>5. (CHOOSE o \in K : TRUE) = m
    BY <2>3, <2>4
  <2>. QED BY <1>1, <1>9, <2>1, <2>3, <2>5 DEF Reply
<1>. QED BY <1>8, <1>9

(* A cursor that takes the steps of a walk stands where the walk does.     *)
StepsWith(f, h, S, n) ==
  /\ f[0].j = h[0]
  /\ \A k \in 1..n : f[k - 1].j = h[k - 1] => f[k].j = After(S, h[k - 1])

StandsWith(f, h, n) == \A k \in 0..n : f[k].j = h[k]

LEMMA Follows ==
  ASSUME NEW S, NEW n \in Nat, NEW h, IsWalk(h, S, n),
         NEW f, StepsWith(f, h, S, n)
  PROVE  StandsWith(f, h, n)
<1>. DEFINE A == {k \in Nat : k <= n => f[k].j = h[k]}
<1>1. 0 \in A
  BY DEF StepsWith
<1>2. ASSUME NEW k \in Nat, k \in A PROVE k + 1 \in A
  <2>1. CASE k + 1 <= n
    <3>1. k + 1 \in 1..n /\ k + 1 - 1 = k /\ k <= n
      BY <2>1
    <3>2. f[k].j = h[k]
      BY <1>2, <3>1
    <3>3. h[k + 1] = After(S, h[k])
      BY <3>1 DEF IsWalk
    <3>4. f[k + 1].j = After(S, h[k])
      BY <3>1, <3>2 DEF StepsWith
    <3>. QED BY <3>3, <3>4
  <2>. QED BY <2>1
<1>. HIDE DEF A
<1>3. Nat \subseteq A
  BY <1>1, <1>2, NatSet
<1>. QED BY <1>3 DEF A, StandsWith

Width(i) == IF i = NoNode THEN 0 ELSE Len(node[i].pChild)

LEMMA ChildrenOf ==
  ASSUME IsTree(node), NEW i \in 0..Len(node)
  PROVE  /\ Width(i) \in Nat
         /\ i # NoNode => DOMAIN node[i].pChild = 1..Width(i)
         /\ \A name : Among(NamedAt(i, name), Width(i))
         /\ \A k \in 1..Width(i) : node[i].pChild[k] \in 1..Len(node)
<1>1. CASE i = NoNode
  BY <1>1 DEF Width, NamedAt, Among
<1>2. CASE i # NoNode
  <2>1. Len(node) \in Nat /\ i \in 1..Len(node)
    BY <1>2, SeqFacts DEF IsTree, NoNode
  <2>2. /\ IsSeq(node[i].pChild)
        /\ \A k \in 1..Len(node[i].pChild) : node[i].pChild[k] \in (i + 1)..Len(node)
    BY <2>1 DEF IsTree, IsElement
  <2>3. DOMAIN node[i].pChild = 1..Width(i) /\ Width(i) \in Nat
    BY <1>2, <2>2, SeqFacts DEF Width
  <2>4. \A k \in 1..Width(i) : node[i].pChild[k] \in 1..Len(node)
    <3>1. (i + 1)..Len(node) \subseteq 1..Len(node)
      BY <2>1
    <3>. QED BY <1>2, <2>2, <3>1 DEF Width
  <2>. QED BY <1>2, <2>3, <2>4 DEF NamedAt, Among
<1>. QED BY <1>1, <1>2

LEMMA getNextReplies ==
  ASSUME IsTree(node), NEW i \in 0..Len(node), NEW name, NEW j \in Nat
  PROVE  getNext(i, name, j) = Reply(i, NamedAt(i, name), j)
<1>1. CASE i = NoNode
  <2>1. NextIn(NamedAt(i, name), j) = 0
    BY <1>1 DEF NamedAt, NextIn
  <2>. QED BY <1>1, <2>1 DEF getNext, Reply, After
<1>2. CASE i # NoNode
  <2>. DEFINE S == NamedAt(i, name)
              I == {k \in (j + 1)..Len(node[i].pChild) : node[node[i].pChild[k]].name = name}
  <2>1. /\ Width(i) = Len(node[i].pChild) /\ Width(i) \in Nat
        /\ DOMAIN node[i].pChild = 1..Width(i)
    BY <1>2, ChildrenOf DEF Width
  <2>2. I = {k \in S : k > j}
    <3>1. \A k : k \in (j + 1)..Width(i) <=> k \in 1..Width(i) /\ k > j
      BY <2>1
    <3>2. \A k : k \in S <=> k \in 1..Width(i) /\ node[node[i].pChild[k]].name = name
      BY <1>2, <2>1 DEF NamedAt, NameOf
    <3>3. ASSUME NEW k PROVE k \in I <=> k \in {q \in S : q > j}
      BY <2>1, <3>1, <3>2
    <3>. HIDE DEF S, I
    <3>. QED BY <3>3, SameSet
  <2>. DEFINE k == IF I # {} THEN Min(I) ELSE 0
  <2>3. getNext(i, name, j) = IF k = 0 THEN [x |-> NoNode, j |-> j] ELSE Found(i, k, k)
    BY <1>2 DEF getNext, SelectInSubSeq
  <2>4. k = NextIn(S, j)
    BY <2>2 DEF NextIn
  <2>. HIDE DEF k, S, I
  <2>5. CASE k = 0
    BY <2>3, <2>4, <2>5 DEF Reply, After, S
  <2>6. CASE k # 0
    BY <2>3, <2>4, <2>6 DEF Reply, After, S, Found
  <2>. QED BY <2>5, <2>6
<1>. QED BY <1>1, <1>2

(* getChildNode(name, j).                                                  *)
Counting(f, i, name, m) ==
  f = [n \in 0..m |->
         IF n = 0 THEN [x |-> NoNode, j |-> 0] ELSE getNext(i, name, f[n - 1].j)]

LEMMA getNthFinds ==
  ASSUME IsTree(node), NEW i \in 0..Len(node), NEW name, NEW j \in Nat
  PROVE  getNthChildNode(i, name, j) = NamedChild(i, name, j)
<1>. DEFINE S == NamedAt(i, name)
<1>1. Width(i) \in Nat /\ Among(S, Width(i))
  BY ChildrenOf
<1>. HIDE DEF S
<1>2. j + 1 \in Nat /\ j \in 0..(j + 1) /\ j + 1 \in 1..(j + 1) /\ j + 1 - 1 = j
      /\ 0 \in 0..(j + 1) /\ j + 1 \in 0..(j + 1) /\ j + 1 # 0
  OBVIOUS
<1>3. PICK h : IsWalk(h, S, j + 1) /\ h[0] = 0
  BY <1>1, <1>2, WalkExists
<1>4. h \in [0..(j + 1) -> Nat]
  BY <1>3 DEF IsWalk
<1>5. \E f : Counting(f, i, name, j + 1)
  <2>. DEFINE g == [n \in 0..(j + 1) |-> IF n = 0 THEN [x |-> NoNode, j |-> 0]
                                         ELSE getNext(i, name, h[n - 1])]
  <2>1. ASSUME NEW n \in 1..(j + 1) PROVE g[n - 1].j = h[n - 1]
    <3>1. CASE n = 1
      BY <1>3, <3>1
    <3>2. CASE n # 1
      <4>1. n - 1 \in 1..(j + 1) /\ n - 1 \in 0..(j + 1) /\ n - 1 # 0 /\ n - 1 - 1 \in 0..(j + 1)
        BY <3>2
      <4>2. g[n - 1] = getNext(i, name, h[n - 1 - 1])
        BY <4>1
      <4>3. getNext(i, name, h[n - 1 - 1]) = Reply(i, S, h[n - 1 - 1])
        BY <1>4, <4>1, getNextReplies DEF S
      <4>4. h[n - 1] = After(S, h[n - 1 - 1])
        BY <1>3, <4>1 DEF IsWalk
      <4>. HIDE DEF g
      <4>. QED BY <4>2, <4>3, <4>4 DEF Reply
    <3>. QED BY <3>1, <3>2
  <2>2. ASSUME NEW n \in 0..(j + 1)
        PROVE  g[n] = IF n = 0 THEN [x |-> NoNode, j |-> 0] ELSE getNext(i, name, g[n - 1].j)
    <3>1. CASE n = 0
      BY <3>1
    <3>2. CASE n # 0
      <4>1. n \in 1..(j + 1)
        BY <3>2
      <4>2. g[n - 1].j = h[n - 1] /\ g[n] = getNext(i, name, h[n - 1])
        BY <2>1, <3>2, <4>1
      <4>. HIDE DEF g
      <4>. QED BY <3>2, <4>2
    <3>. QED BY <3>1, <3>2
  <2>3. g = [n \in 0..(j + 1) |-> g[n]]
    OBVIOUS
  <2>. HIDE DEF g
  <2>4. Counting(g, i, name, j + 1)
    BY <2>2, <2>3 DEF Counting
  <2>. QED BY <2>4
<1>6. PICK f : Counting(f, i, name, j + 1) /\ getNthChildNode(i, name, j) = f[j + 1].x
  <2>. DEFINE f == CHOOSE f : Counting(f, i, name, j + 1)
  <2>1. Counting(f, i, name, j + 1)
    BY <1>5
  <2>2. getNthChildNode(i, name, j) = f[j + 1].x
    BY <1>2 DEF getNthChildNode, Counting
  <2>. QED BY <2>1, <2>2
<1>7. f[0] = [x |-> NoNode, j |-> 0]
      /\ \A n \in 1..(j + 1) : f[n] = getNext(i, name, f[n - 1].j)
  BY <1>6 DEF Counting
<1>8. ASSUME NEW n \in 1..(j + 1), f[n - 1].j = h[n - 1]
      PROVE  f[n] = Reply(i, S, h[n - 1])
  <2>1. h[n - 1] \in Nat
    BY <1>4
  <2>. QED BY <1>7, <1>8, <2>1, getNextReplies DEF S
<1>9. \A n \in 0..(j + 1) : f[n].j = h[n]
  <2>1. StepsWith(f, h, S, j + 1)
    <3>0. f[0].j = h[0]
      BY <1>3, <1>7
    <3>1. ASSUME NEW n \in 1..(j + 1), f[n - 1].j = h[n - 1]
          PROVE  f[n].j = After(S, h[n - 1])
      <4>1. f[n] = Reply(i, S, h[n - 1])
        BY <1>8, <3>1
      <4>. QED BY <4>1 DEF Reply
    <3>. HIDE DEF S
    <3>. QED BY <3>0, <3>1 DEF StepsWith
  <2>. HIDE DEF S
  <2>2. StandsWith(f, h, j + 1)
    BY <1>2, <1>3, <2>1, Follows
  <2>. QED BY <2>2 DEF StandsWith
<1>10. f[j + 1] = Reply(i, S, h[j])
  BY <1>2, <1>8, <1>9
<1>11. Reply(i, S, h[j]).x = NthOf(i, S, j)
  BY <1>1, <1>2, <1>3, WalkNumbers
<1>. QED BY <1>6, <1>10, <1>11 DEF NamedChild, S

LEMMA getLastFinds ==
  ASSUME IsTree(node), NEW i \in 0..Len(node), NEW name
  PROVE  getNthChildNode(i, name, -1) = NamedChild(i, name, Cardinality(NamedAt(i, name)) - 1)
<1>. DEFINE S == NamedAt(i, name)
            n == Cardinality(S)
            K == {k \in S : Cardinality({l \in S : l < k}) = n - 1}
            last == IF i = NoNode THEN 0 ELSE IF S # {} THEN Max(S) ELSE 0
<1>1. Width(i) \in Nat /\ Among(S, Width(i))
  BY ChildrenOf
<1>2. getNthChildNode(i, name, -1) = IF last = 0 THEN NoNode ELSE node[i].pChild[last]
  <2>1. CASE i = NoNode
    BY <2>1 DEF getNthChildNode
  <2>2. CASE i # NoNode
    <3>1. {k \in 1..Len(node[i].pChild) : node[node[i].pChild[k]].name = name} = S
      BY <2>2, ChildrenOf DEF NamedAt, NameOf, Width
    <3>2. last = SelectLastInSeq(node[i].pChild, LAMBDA c : node[c].name = name)
      BY <2>2, <3>1 DEF SelectLastInSeq
    <3>. HIDE DEF last, S
    <3>. QED BY <2>2, <3>2 DEF getNthChildNode
  <2>. QED BY <2>1, <2>2
<1>3. NamedChild(i, name, n - 1) = IF K = {} THEN NoNode ELSE node[i].pChild[CHOOSE k \in K : TRUE]
  BY DEF NamedChild, NthOf
<1>4. i = NoNode => S = {}
  BY DEF NamedAt
<1>5. CASE S = {}
  BY <1>2, <1>3, <1>5
<1>6. CASE S # {}
  <2>. HIDE DEF S, K
  <2>1. last = Max(S)
    BY <1>4, <1>6
  <2>2. Max(S) \in S /\ \A k \in S : k <= Max(S)
    <3>1. \E m \in S : \A k \in S : m >= k
      BY <1>1, <1>6, Greatest DEF Among
    <3>2. Max(S) \in S /\ \A k \in S : Max(S) >= k
      BY <3>1 DEF Max
    <3>. QED BY <1>1, <3>2, Places
  <2>3. last \in S /\ last \in Nat /\ last # 0 /\ \A k \in S : k <= last /\ k \in Nat
    BY <1>1, <2>1, <2>2, Places
  <2>. HIDE DEF last
  <2>4. UpTo(S, last) = n
    <3>1. \A l \in S : l <= last
      BY <2>3
    <3>2. {l \in S : l <= last} = S
      BY <3>1
    <3>. QED BY <3>2 DEF UpTo
  <2>5. ASSUME NEW k \in S
        PROVE  /\ Cardinality({l \in S : l < k}) \in Nat
               /\ Cardinality({l \in S : l < k}) = UpTo(S, k) - 1
    <3>1. {l \in S : l <= k} = {l \in S : l < k} \cup {k} /\ k \notin {l \in S : l < k}
      BY <1>1, UpToPlace
    <3>2. {l \in S : l < k} \in SUBSET S
      OBVIOUS
    <3>3. IsFiniteSet({l \in S : l < k}) /\ Cardinality({l \in S : l < k}) \in Nat
      BY <1>1, <3>2, UpToFacts, FS_Subset, FS_CardinalityType
    <3>4. Cardinality({l \in S : l < k} \cup {k}) = Cardinality({l \in S : l < k}) + 1
      BY <3>1, <3>3, FS_AddElement
    <3>5. UpTo(S, k) = Cardinality({l \in S : l < k}) + 1
      BY <3>1, <3>4 DEF UpTo
    <3>. QED BY <3>3, <3>5
  <2>6. last \in K
    BY <2>3, <2>4, <2>5 DEF K
  <2>7. ASSUME NEW k \in K PROVE k = last
    <3>1. k \in S /\ Cardinality({l \in S : l < k}) = n - 1
      BY DEF K
    <3>2. k \in Nat /\ k <= last /\ UpTo(S, k) \in Nat /\ n \in Nat
      BY <1>1, <2>3, <3>1, UpToFacts
    <3>3. UpTo(S, k) = n
      BY <2>5, <3>1, <3>2
    <3>4. ~(k < last)
      <4>1. k < last => UpTo(S, k) < UpTo(S, last)
        BY <1>1, <2>3, <3>2, UpToFacts
      <4>. QED BY <2>4, <3>2, <3>3, <4>1
    <3>. QED BY <2>3, <3>2, <3>4
  <2>8. (CHOOSE k \in K : TRUE) = last
    BY <2>6, <2>7
  <2>9. NamedChild(i, name, n - 1) = node[i].pChild[last]
    <3>1. K # {}
      BY <2>6
    <3>. QED BY <1>3, <2>8, <3>1
  <2>10. getNthChildNode(i, name, -1) = node[i].pChild[last]
    BY <1>2, <2>3
  <2>. HIDE DEF n
  <2>. QED BY <2>9, <2>10 DEF n, S
<1>. QED BY <1>5, <1>6

(* The attributes of a name, and what a cursor among them comes to.        *)
AttributesNamed(x, name) ==
  {l \in DOMAIN node[x].attrs : node[x].attrs[l].name = name}

AttributeReply(x, name, j) ==
  [value |-> IF NextIn(AttributesNamed(x, name), j) = 0 THEN {}
             ELSE {node[x].attrs[NextIn(AttributesNamed(x, name), j)].value},
   j |-> After(AttributesNamed(x, name), j)]

LEMMA AttributesOf ==
  ASSUME IsTree(node), NEW x \in 1..Len(node)
  PROVE  /\ x # NoNode /\ Attributes(x) = node[x].attrs
         /\ Len(node[x].attrs) \in Nat /\ DOMAIN node[x].attrs = 1..Len(node[x].attrs)
         /\ \A name : Among(AttributesNamed(x, name), Len(node[x].attrs))
<1>1. Len(node) \in Nat
  BY SeqFacts DEF IsTree
<1>2. x # NoNode
  BY <1>1 DEF NoNode
<1>3. IsSeq(node[x].attrs)
  BY DEF IsTree, IsElement, IsAttrs
<1>4. Len(node[x].attrs) \in Nat /\ DOMAIN node[x].attrs = 1..Len(node[x].attrs)
  BY <1>3, SeqFacts
<1>. QED BY <1>2, <1>4 DEF Attributes, AttributesNamed, Among

LEMMA getNextAttributeReplies ==
  ASSUME IsTree(node), NEW x \in 1..Len(node), NEW name, NEW j \in Nat
  PROVE  getNextAttribute(x, name, j) = AttributeReply(x, name, j)
<1>. DEFINE attrs == node[x].attrs
            S == AttributesNamed(x, name)
            I == {l \in (j + 1)..Len(attrs) : attrs[l].name = name}
            k == IF I # {} THEN Min(I) ELSE 0
<1>1. /\ Attributes(x) = attrs
      /\ Len(attrs) \in Nat /\ DOMAIN attrs = 1..Len(attrs)
  BY AttributesOf
<1>2. I = {l \in S : l > j}
  <2>1. \A l : l \in (j + 1)..Len(attrs) <=> l \in 1..Len(attrs) /\ l > j
    BY <1>1
  <2>2. \A l : l \in S <=> l \in 1..Len(attrs) /\ attrs[l].name = name
    BY <1>1 DEF AttributesNamed
  <2>3. ASSUME NEW l PROVE l \in I <=> l \in {q \in S : q > j}
    BY <2>1, <2>2
  <2>. HIDE DEF S, I
  <2>. QED BY <2>3, SameSet
<1>3. getNextAttribute(x, name, j) = IF k = 0 THEN [value |-> {}, j |-> j]
                                     ELSE [value |-> {attrs[k].value}, j |-> k]
  BY <1>1 DEF getNextAttribute, SelectInSubSeq
<1>4. k = NextIn(S, j)
  BY <1>2 DEF NextIn
<1>. HIDE DEF k, S, I, attrs
<1>5. CASE k = 0
  BY <1>3, <1>4, <1>5 DEF AttributeReply, After, S, attrs
<1>6. CASE k # 0
  BY <1>3, <1>4, <1>6 DEF AttributeReply, After, S, attrs
<1>. QED BY <1>5, <1>6

(* The attributes of getChildNodeWithAttribute.                            *)
Comparing(f, x, name, m) ==
  f = [n \in 0..m |->
         IF n = 0 THEN [value |-> {}, j |-> 0] ELSE getNextAttribute(x, name, f[n - 1].j)]

LEMMA ComparingExists ==
  ASSUME IsTree(node), NEW x \in 1..Len(node), NEW name, NEW m \in Nat,
         NEW h, IsWalk(h, AttributesNamed(x, name), m), h[0] = 0
  PROVE  \E f : Comparing(f, x, name, m)
<1>. DEFINE S == AttributesNamed(x, name)
            g == [n \in 0..m |-> IF n = 0 THEN [value |-> {}, j |-> 0]
                                 ELSE getNextAttribute(x, name, h[n - 1])]
<1>0. h \in [0..m -> Nat]
  BY DEF IsWalk
<1>1. ASSUME NEW n \in 1..m PROVE g[n - 1].j = h[n - 1]
  <2>1. CASE n = 1
    BY <2>1
  <2>2. CASE n # 1
    <3>1. n - 1 \in 1..m /\ n - 1 \in 0..m /\ n - 1 # 0 /\ n - 1 - 1 \in 0..m
      BY <2>2
    <3>2. g[n - 1] = getNextAttribute(x, name, h[n - 1 - 1])
      BY <3>1
    <3>3. getNextAttribute(x, name, h[n - 1 - 1]) = AttributeReply(x, name, h[n - 1 - 1])
      BY <1>0, <3>1, getNextAttributeReplies
    <3>4. h[n - 1] = After(S, h[n - 1 - 1])
      BY <3>1 DEF IsWalk
    <3>. HIDE DEF g
    <3>. QED BY <3>2, <3>3, <3>4 DEF AttributeReply
  <2>. QED BY <2>1, <2>2
<1>2. ASSUME NEW n \in 0..m
      PROVE  g[n] = IF n = 0 THEN [value |-> {}, j |-> 0]
                    ELSE getNextAttribute(x, name, g[n - 1].j)
  <2>1. CASE n = 0
    BY <2>1
  <2>2. CASE n # 0
    <3>1. n \in 1..m
      BY <2>2
    <3>2. g[n - 1].j = h[n - 1] /\ g[n] = getNextAttribute(x, name, h[n - 1])
      BY <1>1, <2>2, <3>1
    <3>. HIDE DEF g
    <3>. QED BY <2>2, <3>2
  <2>. QED BY <2>1, <2>2
<1>3. g = [n \in 0..m |-> g[n]]
  OBVIOUS
<1>. HIDE DEF g
<1>4. Comparing(g, x, name, m)
  BY <1>2, <1>3 DEF Comparing
<1>. QED BY <1>4

LEMMA ComparingReplies ==
  ASSUME IsTree(node), NEW x \in 1..Len(node), NEW name, NEW m \in Nat,
         NEW h, IsWalk(h, AttributesNamed(x, name), m), h[0] = 0,
         NEW f, Comparing(f, x, name, m)
  PROVE  \A n \in 1..m : f[n] = AttributeReply(x, name, h[n - 1])
<1>. DEFINE S == AttributesNamed(x, name)
<1>0. h \in [0..m -> Nat] /\ 0 \in 0..m
  BY DEF IsWalk
<1>1. f[0] = [value |-> {}, j |-> 0]
      /\ \A n \in 1..m : f[n] = getNextAttribute(x, name, f[n - 1].j)
  BY DEF Comparing
<1>2. ASSUME NEW n \in 1..m, f[n - 1].j = h[n - 1]
      PROVE  f[n] = AttributeReply(x, name, h[n - 1])
  <2>1. h[n - 1] \in Nat
    BY <1>0
  <2>. QED BY <1>1, <1>2, <2>1, getNextAttributeReplies
<1>3. ASSUME NEW n \in 1..m, f[n - 1].j = h[n - 1] PROVE f[n].j = After(S, h[n - 1])
  <2>1. f[n] = AttributeReply(x, name, h[n - 1])
    BY <1>2, <1>3
  <2>. QED BY <2>1 DEF AttributeReply
<1>4. \A n \in 0..m : f[n].j = h[n]
  <2>. HIDE DEF S
  <2>1. f[0].j = h[0]
    BY <1>1
  <2>2. IsWalk(h, S, m)
    BY DEF S
  <2>3. StepsWith(f, h, S, m)
    BY <1>3, <2>1 DEF StepsWith
  <2>4. StandsWith(f, h, m)
    BY <2>2, <2>3, Follows
  <2>. QED BY <2>4 DEF StandsWith
<1>5. ASSUME NEW n \in 1..m PROVE f[n] = AttributeReply(x, name, h[n - 1])
  <2>1. n - 1 \in 0..m
    OBVIOUS
  <2>. QED BY <1>2, <1>4, <2>1
<1>. QED BY <1>5

OneOrNone(value) == value = {} \/ \E v : value = {v}

(* Some attribute has the name, and the value if one is asked for.         *)
AttributeFits(x, attribute, value) ==
  \E l \in DOMAIN node[x].attrs :
    /\ node[x].attrs[l].name = attribute
    /\ value = {} \/ node[x].attrs[l].value \in value

LEMMA HasAttributeFits ==
  ASSUME IsTree(node), NEW x \in 1..Len(node), NEW attribute, NEW value,
         OneOrNone(value)
  PROVE  HasAttribute(x, attribute, value) <=> AttributeFits(x, attribute, value)
<1>. DEFINE S == AttributesNamed(x, attribute)
            m == Len(node[x].attrs)
<1>1. /\ Attributes(x) = node[x].attrs /\ m \in Nat
      /\ DOMAIN node[x].attrs = 1..m /\ Among(S, m)
  BY AttributesOf
<1>2. CASE value = {}
  BY <1>1, <1>2 DEF HasAttribute, isAttributeSet, AttributeFits
<1>3. ASSUME NEW v, value = {v}
      PROVE  HasAttribute(x, attribute, value) <=> AttributeFits(x, attribute, value)
  <2>0. value # {}
    BY <1>3
  <2>. HIDE DEF S, m
  <2>1. PICK h : IsWalk(h, S, m) /\ h[0] = 0
    <3>1. 0 \in Nat /\ m \in Nat /\ Among(S, m)
      BY <1>1
    <3>. QED BY <3>1, WalkExists
  <2>2. h \in [0..m -> Nat] /\ 0 \in 0..m
    BY <1>1, <2>1 DEF IsWalk
  <2>3. PICK f : /\ Comparing(f, x, attribute, m)
                 /\ HasAttribute(x, attribute, value) <=> \E n \in 1..m : f[n].value = value
    <3>. DEFINE f == CHOOSE f : Comparing(f, x, attribute, m)
    <3>. USE DEF m
    <3>1. Comparing(f, x, attribute, m)
      <4>1. \E g : Comparing(g, x, attribute, m)
        BY <1>1, <2>1, ComparingExists DEF S
      <4>. QED BY <4>1
    <3>2. HasAttribute(x, attribute, value) <=> \E n \in 1..m : f[n].value = value
      BY <1>1, <2>0 DEF HasAttribute, Comparing
    <3>. QED BY <3>1, <3>2
  <2>4. \A n \in 1..m : f[n] = AttributeReply(x, attribute, h[n - 1])
    BY <1>1, <2>1, <2>3, ComparingReplies DEF S
  <2>5. AttributeFits(x, attribute, value) <=> \E l \in S : node[x].attrs[l].value = v
    BY <1>3, <2>0 DEF AttributeFits, S, AttributesNamed
  <2>6. ASSUME NEW n \in 1..m, f[n].value = value
        PROVE  \E l \in S : node[x].attrs[l].value = v
    <3>1. PICK l : l = NextIn(S, h[n - 1])
      OBVIOUS
    <3>2. value = IF l = 0 THEN {} ELSE {node[x].attrs[l].value}
      <4>1. f[n] = AttributeReply(x, attribute, h[n - 1])
        BY <2>4
      <4>2. AttributeReply(x, attribute, h[n - 1]).value
              = IF l = 0 THEN {} ELSE {node[x].attrs[l].value}
        BY <3>1 DEF AttributeReply, S
      <4>. QED BY <2>6, <4>1, <4>2
    <3>3. l # 0 /\ node[x].attrs[l].value = v
      BY <1>3, <2>0, <3>2
    <3>4. h[n - 1] \in Nat
      BY <1>1, <2>2
    <3>5. l \in S
      BY <1>1, <3>1, <3>3, <3>4, NextFacts
    <3>. QED BY <3>3, <3>5
  <2>7. ASSUME NEW l \in S, node[x].attrs[l].value = v
        PROVE  \E n \in 1..m : f[n].value = value
    <3>1. h[0] < l /\ l \in Nat
      BY <1>1, <2>1, Places
    <3>2. UpTo(S, h[0]) = 0
      <4>1. \A q \in S : ~(q <= h[0])
        BY <1>1, <2>1, Places
      <4>2. {q \in S : q <= h[0]} = {}
        BY <4>1
      <4>. QED BY <4>2, FS_EmptySet DEF UpTo
    <3>3. PICK n : n = UpTo(S, l)
      OBVIOUS
    <3>4. n \in Nat /\ n <= m
      <4>1. n \in Nat /\ n <= Cardinality(S) /\ Cardinality(S) \in Nat /\ Cardinality(S) <= m
        BY <1>1, <3>1, <3>3, UpToFacts
      <4>. QED BY <1>1, <4>1
    <3>6. n \in 1..m /\ h[n] = l
      <4>1. UpTo(S, h[0]) < UpTo(S, l)
        BY <1>1, <2>1, <3>1, UpToFacts
      <4>2. n \in 1..m /\ n \in 0..m /\ UpTo(S, l) = UpTo(S, h[0]) + n
        BY <1>1, <3>2, <3>3, <3>4, <4>1
      <4>3. h[n] = l
        BY <1>1, <2>1, <3>1, <4>2, WalkReaches
      <4>. QED BY <4>2, <4>3
    <3>7. h[n] = After(S, h[n - 1]) /\ h[n - 1] \in Nat
      BY <1>1, <2>1, <2>2, <3>6 DEF IsWalk
    <3>8. NextIn(S, h[n - 1]) = l
      <4>1. SUFFICES ASSUME NextIn(S, h[n - 1]) = 0 PROVE FALSE
        BY <3>6, <3>7 DEF After
      <4>2. h[n - 1] = l
        BY <3>6, <3>7, <4>1 DEF After
      <4>3. n - 1 \in 0..m /\ n - 1 < n
        BY <1>1, <3>4, <3>6
      <4>4. UpTo(S, h[n - 1]) <= UpTo(S, h[0]) + (n - 1)
        BY <1>1, <2>1, <4>3, WalkCounts
      <4>. QED BY <3>2, <3>3, <3>4, <4>2, <4>4
    <3>9. l # 0
      BY <3>1, <2>1
    <3>10. f[n].value = {node[x].attrs[l].value}
      <4>1. f[n] = AttributeReply(x, attribute, h[n - 1])
        BY <2>4, <3>6
      <4>2. AttributeReply(x, attribute, h[n - 1]).value
              = IF l = 0 THEN {} ELSE {node[x].attrs[l].value}
        BY <3>8 DEF AttributeReply, S
      <4>. QED BY <3>9, <4>1, <4>2
    <3>. QED BY <1>3, <2>7, <3>6, <3>10
  <2>. QED BY <2>3, <2>5, <2>6, <2>7
<1>. QED BY <1>2, <1>3 DEF OneOrNone

(* The step of a walk that comes to a place.                               *)
LEMMA WalkComesBy ==
  ASSUME NEW N, NEW S, Among(S, N), NEW n \in Nat, NEW h, IsWalk(h, S, n),
         NEW l \in S, h[0] < l, UpTo(S, l) <= UpTo(S, h[0]) + n
  PROVE  \E k \in 0..(n - 1) : /\ UpTo(S, l) = UpTo(S, h[0]) + k + 1
                               /\ NextIn(S, h[k]) = l
<1>1. h \in [0..n -> Nat] /\ h[0] \in Nat /\ l \in Nat /\ l # 0
  BY Places DEF IsWalk
<1>2. UpTo(S, h[0]) \in Nat /\ UpTo(S, l) \in Nat
  BY <1>1, UpToFacts
<1>3. PICK r : r = UpTo(S, l) - UpTo(S, h[0])
  OBVIOUS
<1>4. r \in 1..n /\ r \in 0..n /\ h[r] = l
  <2>1. UpTo(S, h[0]) < UpTo(S, l)
    BY <1>1, UpToFacts
  <2>2. r \in 1..n /\ r \in 0..n /\ UpTo(S, l) = UpTo(S, h[0]) + r
    BY <1>2, <1>3, <2>1
  <2>3. h[r] = l
    BY <2>2, WalkReaches
  <2>. QED BY <2>2, <2>3
<1>5. r - 1 \in 0..(n - 1) /\ r - 1 \in 0..n /\ UpTo(S, l) = UpTo(S, h[0]) + (r - 1) + 1
  BY <1>2, <1>3, <1>4
<1>6. h[r] = After(S, h[r - 1]) /\ h[r - 1] \in Nat
  BY <1>1, <1>4, <1>5 DEF IsWalk
<1>7. NextIn(S, h[r - 1]) = l
  <2>1. SUFFICES ASSUME NextIn(S, h[r - 1]) = 0 PROVE FALSE
    BY <1>4, <1>6 DEF After
  <2>2. h[r - 1] = l
    BY <1>4, <1>6, <2>1 DEF After
  <2>3. UpTo(S, h[r - 1]) <= UpTo(S, h[0]) + (r - 1)
    BY <1>5, WalkCounts
  <2>. QED BY <1>2, <1>5, <2>2, <2>3
<1>. QED BY <1>5, <1>7

(* getChildNodeWithAttribute tries one child of the name after the other.  *)
Trying(f, i, name, j, m) ==
  f = [k \in 0..m |-> IF k = 0 THEN getNext(i, name, j) ELSE getNext(i, name, f[k - 1].j)]

LEMMA TryingExists ==
  ASSUME IsTree(node), NEW i \in 0..Len(node), NEW name, NEW j \in Nat, NEW m \in Nat,
         NEW h, IsWalk(h, NamedAt(i, name), m), h[0] = j
  PROVE  \E f : Trying(f, i, name, j, m)
<1>. DEFINE S == NamedAt(i, name)
            g == [k \in 0..m |-> getNext(i, name, h[k])]
<1>0. h \in [0..m -> Nat]
  BY DEF IsWalk
<1>1. ASSUME NEW k \in 1..m PROVE g[k - 1].j = h[k]
  <2>1. k - 1 \in 0..m
    OBVIOUS
  <2>2. g[k - 1] = Reply(i, S, h[k - 1])
    <3>1. h[k - 1] \in Nat /\ g[k - 1] = getNext(i, name, h[k - 1])
      BY <1>0, <2>1
    <3>. HIDE DEF g
    <3>. QED BY <3>1, getNextReplies
  <2>3. h[k] = After(S, h[k - 1])
    BY DEF IsWalk
  <2>. HIDE DEF g
  <2>. QED BY <2>2, <2>3 DEF Reply
<1>2. ASSUME NEW k \in 0..m
      PROVE  g[k] = IF k = 0 THEN getNext(i, name, j) ELSE getNext(i, name, g[k - 1].j)
  <2>1. CASE k = 0
    BY <2>1
  <2>2. CASE k # 0
    <3>1. k \in 1..m
      BY <2>2
    <3>2. g[k - 1].j = h[k] /\ g[k] = getNext(i, name, h[k])
      BY <1>1, <3>1
    <3>. HIDE DEF g
    <3>. QED BY <2>2, <3>2
  <2>. QED BY <2>1, <2>2
<1>3. g = [k \in 0..m |-> g[k]]
  OBVIOUS
<1>. HIDE DEF g
<1>4. Trying(g, i, name, j, m)
  BY <1>2, <1>3 DEF Trying
<1>. QED BY <1>4

LEMMA TryingReplies ==
  ASSUME IsTree(node), NEW i \in 0..Len(node), NEW name, NEW j \in Nat, NEW m \in Nat,
         NEW h, IsWalk(h, NamedAt(i, name), m), h[0] = j,
         NEW f, Trying(f, i, name, j, m)
  PROVE  \A k \in 0..m : f[k] = Reply(i, NamedAt(i, name), h[k])
<1>. DEFINE S == NamedAt(i, name)
            A == {k \in Nat : k <= m => f[k] = Reply(i, S, h[k])}
<1>1. h \in [0..m -> Nat]
  BY DEF IsWalk
<1>2. /\ f[0] = getNext(i, name, j)
      /\ \A k \in 1..m : f[k] = getNext(i, name, f[k - 1].j)
  BY DEF Trying
<1>3. 0 \in A
  BY <1>2, getNextReplies
<1>4. ASSUME NEW k \in Nat, k \in A PROVE k + 1 \in A
  <2>1. CASE k + 1 <= m
    <3>1. k + 1 \in 1..m /\ k + 1 \in 0..m /\ k + 1 - 1 = k /\ k <= m
      BY <2>1
    <3>2. f[k] = Reply(i, S, h[k])
      BY <1>4, <3>1
    <3>3. h[k + 1] = After(S, h[k]) /\ h[k + 1] \in Nat
      BY <1>1, <3>1 DEF IsWalk
    <3>4. f[k].j = h[k + 1]
      BY <3>2, <3>3 DEF Reply
    <3>5. f[k + 1] = getNext(i, name, h[k + 1])
      BY <1>2, <3>1, <3>4
    <3>6. f[k + 1] = Reply(i, S, h[k + 1])
      BY <3>3, <3>5, getNextReplies
    <3>. QED BY <3>6
  <2>. QED BY <2>1
<1>. HIDE DEF A
<1>5. Nat \subseteq A
  BY <1>3, <1>4, NatSet
<1>. QED BY <1>5 DEF A

Fitting(i, name, attribute, value) ==
  {k \in NamedAt(i, name) : AttributeFits(node[i].pChild[k], attribute, value)}

LEMMA getWithAttributeReplies ==
  ASSUME IsTree(node), NEW i \in 0..Len(node), NEW name, NEW j \in Nat,
         NEW attribute, NEW value, OneOrNone(value)
  PROVE  getChildNodeWithAttribute(i, name, attribute, value, j)
           = Reply(i, Fitting(i, name, attribute, value), j)
<1>. DEFINE S0 == NamedAt(i, name)
            S == Fitting(i, name, attribute, value)
            n == Cardinality(S0)
<1>1. Width(i) \in Nat /\ Among(S0, Width(i))
  BY ChildrenOf
<1>2. S \subseteq S0 /\ Among(S, Width(i))
  BY <1>1 DEF Fitting, Among
<1>3. n \in Nat /\ \A k \in Nat : UpTo(S0, k) \in Nat /\ UpTo(S0, k) <= n
  BY <1>1, UpToFacts
<1>4. nChildNode(i, name) = n
  BY FS_EmptySet DEF nChildNode, NamedAt
<1>5. \A k \in S0 : /\ node[i].pChild[k] \in 1..Len(node) /\ node[i].pChild[k] # NoNode
                    /\ k \in S <=> HasAttribute(node[i].pChild[k], attribute, value)
  <2>1. ASSUME NEW k \in S0
        PROVE  /\ node[i].pChild[k] \in 1..Len(node) /\ node[i].pChild[k] # NoNode
               /\ k \in S <=> HasAttribute(node[i].pChild[k], attribute, value)
    <3>0. k \in 1..Width(i)
      BY <1>1 DEF Among
    <3>1. node[i].pChild[k] \in 1..Len(node)
      BY <3>0, ChildrenOf
    <3>2. node[i].pChild[k] # NoNode
      BY <3>1, AttributesOf
    <3>3. HasAttribute(node[i].pChild[k], attribute, value)
            <=> AttributeFits(node[i].pChild[k], attribute, value)
      BY <3>1, HasAttributeFits
    <3>. QED BY <3>1, <3>2, <3>3 DEF Fitting
  <2>. QED BY <2>1
<1>. HIDE DEF S0, S, n
<1>6. PICK h : IsWalk(h, S0, n + 1) /\ h[0] = j
  <2>1. n + 1 \in Nat
    BY <1>3
  <2>. QED BY <1>1, <2>1, WalkExists
<1>7. h \in [0..(n + 1) -> Nat] /\ n + 1 \in Nat
  <2>1. h \in [0..(n + 1) -> Nat]
    BY <1>6 DEF IsWalk
  <2>2. n + 1 \in Nat
    BY <1>3
  <2>. QED BY <2>1, <2>2
<1>8. PICK f : /\ Trying(f, i, name, j, n + 1)
               /\ getChildNodeWithAttribute(i, name, attribute, value, j) =
                    LET all == {k \in 0..n : f[k].x # NoNode
                                               /\ HasAttribute(f[k].x, attribute, value)}
                    IN  IF all = {} THEN [x |-> NoNode, j |-> j]
                        ELSE f[CHOOSE k \in all : \A l \in all : k <= l]
  <2>. DEFINE f == CHOOSE f : Trying(f, i, name, j, n + 1)
  <2>1. Trying(f, i, name, j, n + 1)
    <3>1. \E g : Trying(g, i, name, j, n + 1)
      BY <1>6, <1>7, TryingExists DEF S0
    <3>. QED BY <3>1
  <2>2. getChildNodeWithAttribute(i, name, attribute, value, j) =
          LET all == {k \in 0..n : f[k].x # NoNode /\ HasAttribute(f[k].x, attribute, value)}
          IN  IF all = {} THEN [x |-> NoNode, j |-> j]
              ELSE f[CHOOSE k \in all : \A l \in all : k <= l]
    BY <1>4 DEF getChildNodeWithAttribute, Trying
  <2>. QED BY <2>1, <2>2
<1>9. \A k \in 0..(n + 1) : f[k] = Reply(i, S0, h[k])
  BY <1>6, <1>7, <1>8, TryingReplies DEF S0
<1>. DEFINE all == {k \in 0..n : f[k].x # NoNode /\ HasAttribute(f[k].x, attribute, value)}
            least == CHOOSE k \in all : \A l \in all : k <= l
<1>10. getChildNodeWithAttribute(i, name, attribute, value, j) =
         IF all = {} THEN [x |-> NoNode, j |-> j] ELSE f[least]
  BY <1>8
(* A child that was tried and fits, and the child a try comes to.          *)
<1>11. ASSUME NEW k \in all
       PROVE  /\ NextIn(S0, h[k]) \in S /\ NextIn(S0, h[k]) # 0 /\ j < NextIn(S0, h[k])
              /\ UpTo(S0, NextIn(S0, h[k])) = UpTo(S0, j) + k + 1
              /\ f[k] = [x |-> node[i].pChild[NextIn(S0, h[k])], j |-> NextIn(S0, h[k])]
  <2>1. /\ k \in 0..n /\ k \in 0..(n + 1) /\ f[k].x # NoNode
        /\ HasAttribute(f[k].x, attribute, value)
    BY <1>3
  <2>2. f[k] = Reply(i, S0, h[k]) /\ h[k] \in Nat
    BY <1>7, <1>9, <2>1
  <2>. HIDE DEF all, least
  <2>3. PICK q : q = NextIn(S0, h[k])
    OBVIOUS
  <2>4. q # 0
    BY <2>1, <2>2, <2>3 DEF Reply
  <2>5. q \in S0 /\ q \in Nat
    BY <1>1, <2>2, <2>3, <2>4, NextFacts
  <2>6. f[k] = [x |-> node[i].pChild[q], j |-> q]
    BY <2>2, <2>3, <2>4 DEF Reply, After
  <2>7. q \in S
    <3>1. f[k].x = node[i].pChild[q]
      BY <2>6
    <3>. QED BY <1>5, <2>1, <2>5, <3>1
  <2>8. UpTo(S0, h[k]) = UpTo(S0, j) + k
    <3>1. UpTo(S0, h[k]) = UpTo(S0, h[0]) + k \/ NextIn(S0, h[k]) = 0
      BY <1>1, <1>6, <1>7, <2>1, WalkCounts
    <3>. QED BY <1>6, <2>3, <2>4, <3>1
  <2>9. UpTo(S0, q) = UpTo(S0, h[k]) + 1
    BY <1>1, <2>2, <2>3, <2>4, NextCounts
  <2>10. j < q
    <3>1. SUFFICES ASSUME q <= j PROVE FALSE
      BY <2>5
    <3>2. UpTo(S0, q) <= UpTo(S0, j)
      BY <1>1, <2>5, <3>1, UpToFacts
    <3>. QED BY <1>3, <2>1, <2>8, <2>9, <3>2
  <2>. QED BY <2>3, <2>4, <2>6, <2>7, <2>8, <2>9, <2>10
<1>12. ASSUME NEW q \in S, j < q
       PROVE  \E k \in all : UpTo(S0, q) = UpTo(S0, j) + k + 1
  <2>1. q \in S0 /\ q \in Nat
    BY <1>1, <1>2, Places
  <2>2. UpTo(S0, q) <= n /\ UpTo(S0, q) \in Nat /\ UpTo(S0, j) \in Nat
    BY <1>3, <2>1
  <2>3. UpTo(S0, q) <= UpTo(S0, h[0]) + (n + 1)
    BY <1>3, <1>6, <2>2
  <2>4. PICK k \in 0..n : /\ UpTo(S0, q) = UpTo(S0, h[0]) + k + 1
                         /\ NextIn(S0, h[k]) = q
    <3>. HIDE DEF all, least
    <3>1. h[0] < q
      BY <1>6, <1>12
    <3>2. PICK m : m = n + 1
      OBVIOUS
    <3>3. m \in Nat /\ IsWalk(h, S0, m) /\ UpTo(S0, q) <= UpTo(S0, h[0]) + m
      BY <1>6, <1>7, <2>3, <3>2
    <3>4. PICK k \in 0..(m - 1) : /\ UpTo(S0, q) = UpTo(S0, h[0]) + k + 1
                                 /\ NextIn(S0, h[k]) = q
      BY <1>1, <2>1, <3>1, <3>3, WalkComesBy
    <3>5. k \in 0..n
      BY <1>3, <3>2
    <3>. QED BY <3>4, <3>5
  <2>5. k \in 0..n /\ k \in 0..(n + 1)
    BY <1>3
  <2>6. f[k].x = node[i].pChild[q]
    <3>1. f[k] = Reply(i, S0, h[k]) /\ q # 0
      BY <1>1, <1>9, <2>1, <2>5, Places
    <3>. QED BY <2>4, <3>1 DEF Reply
  <2>7. f[k].x # NoNode /\ HasAttribute(f[k].x, attribute, value)
    BY <1>5, <2>1, <2>6
  <2>8. k \in all
    BY <2>5, <2>7
  <2>. QED BY <1>6, <2>4, <2>8
<1>13. all \subseteq Nat
  OBVIOUS
<1>. HIDE DEF all
<1>14. CASE all = {}
  <2>1. NextIn(S, j) = 0
    <3>1. SUFFICES ASSUME NextIn(S, j) # 0 PROVE FALSE
      OBVIOUS
    <3>2. NextIn(S, j) \in S /\ j < NextIn(S, j)
      BY <1>2, <1>1, <3>1, NextFacts
    <3>. QED BY <1>12, <1>14, <3>2
  <2>. QED BY <1>10, <1>14, <2>1 DEF Reply, After, S
<1>15. CASE all # {}
  <2>1. least \in all /\ \A l \in all : least <= l
    <3>1. \E k \in all : \A l \in all : k <= l
      BY <1>13, <1>15, Least
    <3>. QED BY <3>1
  <2>. HIDE DEF least
  <2>2. PICK q : q = NextIn(S0, h[least])
    OBVIOUS
  <2>3. /\ q \in S /\ q # 0 /\ j < q /\ UpTo(S0, q) = UpTo(S0, j) + least + 1
        /\ f[least] = [x |-> node[i].pChild[q], j |-> q]
    BY <1>11, <2>1, <2>2
  <2>4. q \in Nat /\ q \in S0 /\ least \in Nat
    BY <1>1, <1>2, <1>13, <2>1, <2>3, Places
  <2>5. PICK m : m = NextIn(S, j)
    OBVIOUS
  <2>6. m # 0
    <3>1. NextIn(S, j) = 0 => q <= j
      BY <1>1, <1>2, <2>3, NextFacts
    <3>. QED BY <2>3, <2>4, <2>5, <3>1
  <2>7. m \in S /\ j < m /\ m <= q /\ m \in Nat /\ m \in S0
    BY <1>1, <1>2, <2>3, <2>5, <2>6, NextFacts
  <2>8. PICK k \in all : UpTo(S0, m) = UpTo(S0, j) + k + 1
    BY <1>12, <2>7
  <2>9. least <= k /\ k \in Nat
    BY <1>13, <2>1
  <2>10. ~(m < q)
    <3>1. m < q => UpTo(S0, m) < UpTo(S0, q)
      BY <1>1, <2>4, <2>7, UpToFacts
    <3>2. UpTo(S0, j) \in Nat
      BY <1>3
    <3>. QED BY <2>3, <2>4, <2>8, <2>9, <3>1, <3>2
  <2>11. m = q
    BY <2>4, <2>7, <2>10
  <2>12. Reply(i, S, j) = [x |-> node[i].pChild[q], j |-> q]
    BY <2>5, <2>6, <2>11 DEF Reply, After
  <2>. QED BY <1>10, <1>15, <2>3, <2>12 DEF S
<1>. QED BY <1>14, <1>15

(* One search by an attribute after the other.                             *)
Selecting(f, i, name, attribute, value, m) ==
  f = [n \in 0..m |-> IF n = 0 THEN [x |-> NoNode, j |-> 0]
                      ELSE getChildNodeWithAttribute(i, name, attribute, value, f[n - 1].j)]

LEMMA SelectingExists ==
  ASSUME IsTree(node), NEW i \in 0..Len(node), NEW name, NEW attribute, NEW value,
         OneOrNone(value), NEW m \in Nat,
         NEW h, IsWalk(h, Fitting(i, name, attribute, value), m), h[0] = 0
  PROVE  \E f : Selecting(f, i, name, attribute, value, m)
<1>. DEFINE S == Fitting(i, name, attribute, value)
            Search(j) == getChildNodeWithAttribute(i, name, attribute, value, j)
            g == [n \in 0..m |-> IF n = 0 THEN [x |-> NoNode, j |-> 0] ELSE Search(h[n - 1])]
<1>0. h \in [0..m -> Nat]
  BY DEF IsWalk
<1>. HIDE DEF Search
<1>1. ASSUME NEW n \in 1..m PROVE g[n - 1].j = h[n - 1]
  <2>1. CASE n = 1
    BY <2>1
  <2>2. CASE n # 1
    <3>1. n - 1 \in 1..m /\ n - 1 \in 0..m /\ n - 1 # 0 /\ n - 1 - 1 \in 0..m
      BY <2>2
    <3>2. g[n - 1] = Search(h[n - 1 - 1])
      BY <3>1
    <3>3. Search(h[n - 1 - 1]) = Reply(i, S, h[n - 1 - 1])
      <4>1. h[n - 1 - 1] \in Nat
        BY <1>0, <3>1
      <4>2. getChildNodeWithAttribute(i, name, attribute, value, h[n - 1 - 1])
              = Reply(i, S, h[n - 1 - 1])
        BY <4>1, getWithAttributeReplies
      <4>. QED BY <4>2 DEF Search
    <3>4. h[n - 1] = After(S, h[n - 1 - 1])
      BY <3>1 DEF IsWalk
    <3>. HIDE DEF g
    <3>. QED BY <3>2, <3>3, <3>4 DEF Reply
  <2>. QED BY <2>1, <2>2
<1>2. ASSUME NEW n \in 0..m
      PROVE  g[n] = IF n = 0 THEN [x |-> NoNode, j |-> 0] ELSE Search(g[n - 1].j)
  <2>1. CASE n = 0
    BY <2>1
  <2>2. CASE n # 0
    <3>1. n \in 1..m
      BY <2>2
    <3>2. g[n - 1].j = h[n - 1] /\ g[n] = Search(h[n - 1])
      BY <1>1, <2>2, <3>1
    <3>. HIDE DEF g
    <3>. QED BY <2>2, <3>2
  <2>. QED BY <2>1, <2>2
<1>3. g = [n \in 0..m |-> g[n]]
  OBVIOUS
<1>. HIDE DEF g
<1>4. Selecting(g, i, name, attribute, value, m)
  BY <1>2, <1>3 DEF Selecting, Search
<1>. QED BY <1>4

LEMMA SelectingReplies ==
  ASSUME IsTree(node), NEW i \in 0..Len(node), NEW name, NEW attribute, NEW value,
         OneOrNone(value), NEW m \in Nat,
         NEW h, IsWalk(h, Fitting(i, name, attribute, value), m), h[0] = 0,
         NEW f, Selecting(f, i, name, attribute, value, m)
  PROVE  \A k \in 1..m : f[k] = Reply(i, Fitting(i, name, attribute, value), h[k - 1])
<1>. DEFINE S == Fitting(i, name, attribute, value)
<1>0. h \in [0..m -> Nat] /\ 0 \in 0..m
  BY DEF IsWalk
<1>1. /\ f[0] = [x |-> NoNode, j |-> 0]
      /\ \A k \in 1..m :
           f[k] = getChildNodeWithAttribute(i, name, attribute, value, f[k - 1].j)
  BY <1>0 DEF Selecting
<1>2. ASSUME NEW k \in 1..m, f[k - 1].j = h[k - 1] PROVE f[k] = Reply(i, S, h[k - 1])
  <2>1. k - 1 \in 0..m
    OBVIOUS
  <2>2. h[k - 1] \in Nat
    BY <1>0, <2>1
  <2>3. f[k] = getChildNodeWithAttribute(i, name, attribute, value, h[k - 1])
    BY <1>1, <1>2
  <2>. QED BY <2>2, <2>3, getWithAttributeReplies
<1>3. ASSUME NEW k \in 1..m, f[k - 1].j = h[k - 1] PROVE f[k].j = After(S, h[k - 1])
  <2>1. f[k] = Reply(i, S, h[k - 1])
    BY <1>2, <1>3
  <2>. QED BY <2>1 DEF Reply
<1>4. \A k \in 0..m : f[k].j = h[k]
  <2>2. IsWalk(h, S, m)
    OBVIOUS
  <2>. HIDE DEF S
  <2>1. f[0].j = h[0]
    BY <1>1
  <2>3. StepsWith(f, h, S, m)
    BY <1>3, <2>1 DEF StepsWith
  <2>4. StandsWith(f, h, m)
    BY <2>2, <2>3, Follows
  <2>. QED BY <2>4 DEF StandsWith
<1>5. ASSUME NEW k \in 1..m PROVE f[k] = Reply(i, S, h[k - 1])
  <2>1. k - 1 \in 0..m
    OBVIOUS
  <2>. QED BY <1>2, <1>4, <2>1
<1>. QED BY <1>5

LEMMA AttributeSelects ==
  ASSUME IsTree(node), NEW i \in 0..Len(node), NEW name, NEW attribute, NEW value,
         OneOrNone(value)
  PROVE  AttributesSelect(i, name, attribute, value)
<1>. DEFINE S == Fitting(i, name, attribute, value)
            n == Cardinality(S)
<1>1. Width(i) \in Nat /\ Among(S, Width(i)) /\ n \in Nat
  <2>1. Width(i) \in Nat /\ Among(NamedAt(i, name), Width(i))
    BY ChildrenOf
  <2>2. Among(S, Width(i))
    BY <2>1 DEF Fitting, Among
  <2>. QED BY <2>1, <2>2, UpToFacts
<1>2. S = {k \in NamedAt(i, name) :
             \E l \in DOMAIN node[node[i].pChild[k]].attrs :
               /\ node[node[i].pChild[k]].attrs[l].name = attribute
               /\ value = {} \/ node[node[i].pChild[k]].attrs[l].value \in value}
  BY DEF Fitting, AttributeFits
<1>3. n + 1 \in Nat /\ 0 \in 0..(n + 1)
  BY <1>1
<1>4. PICK h : IsWalk(h, S, n + 1) /\ h[0] = 0
  <2>1. 0 \in Nat
    OBVIOUS
  <2>. HIDE DEF S, n
  <2>. QED BY <1>1, <1>3, <2>1, WalkExists
<1>5. PICK f : /\ Selecting(f, i, name, attribute, value, n + 1)
               /\ AttributesSelect(i, name, attribute, value) <=>
                    \A k \in 0..n : f[k + 1].x = NthOf(i, S, k)
  <2>. DEFINE f == CHOOSE f : Selecting(f, i, name, attribute, value, n + 1)
  <2>1. Selecting(f, i, name, attribute, value, n + 1)
    <3>1. \E g : Selecting(g, i, name, attribute, value, n + 1)
      BY <1>3, <1>4, SelectingExists
    <3>. QED BY <3>1
  <2>2. AttributesSelect(i, name, attribute, value) <=>
          \A k \in 0..n : f[k + 1].x = NthOf(i, S, k)
    <3>. HIDE DEF S
    <3>. QED BY <1>2 DEF AttributesSelect, Selecting
  <2>. QED BY <2>1, <2>2
<1>. HIDE DEF S, n
<1>6. \A k \in 1..(n + 1) : f[k] = Reply(i, S, h[k - 1])
  <2>1. PICK m : m = n + 1
    OBVIOUS
  <2>2. m \in Nat /\ IsWalk(h, S, m) /\ Selecting(f, i, name, attribute, value, m)
    BY <1>3, <1>4, <1>5, <2>1
  <2>3. \A k \in 1..m : f[k] = Reply(i, S, h[k - 1])
    BY <1>4, <2>2, SelectingReplies DEF S
  <2>. QED BY <2>1, <2>3
<1>10. ASSUME NEW k \in 0..n PROVE f[k + 1].x = NthOf(i, S, k)
  <2>1. k + 1 \in 1..(n + 1) /\ k + 1 - 1 = k /\ k \in 0..(n + 1)
    BY <1>1
  <2>2. f[k + 1] = Reply(i, S, h[k])
    BY <1>6, <2>1
  <2>3. Reply(i, S, h[k]).x = NthOf(i, S, k)
    BY <1>1, <1>3, <1>4, <2>1, WalkNumbers
  <2>. QED BY <2>2, <2>3
<1>. QED BY <1>5, <1>10

LEMMA CursorsAgreeInTree ==
  ASSUME IsTree(node)
  PROVE  CursorsAgree
<1>1. {NoNode} \cup DOMAIN node = 0..Len(node)
  BY SeqFacts DEF IsTree, NoNode
<1>2. ASSUME NEW i \in 0..Len(node), NEW name PROVE CursorsVisitAll(i, name)
  <2>1. Width(i) \in Nat /\ Among(NamedAt(i, name), Width(i))
    BY ChildrenOf
  <2>2. Cardinality(NamedAt(i, name)) \in Nat
    BY <2>1, UpToFacts
  <2>3. \A j \in 0..(Cardinality(NamedAt(i, name)) + 1) :
          getNthChildNode(i, name, j) = NamedChild(i, name, j)
    BY <2>2, getNthFinds
  <2>. QED BY <2>3, getLastFinds DEF CursorsVisitAll
<1>3. ASSUME NEW i \in 0..Len(node), NEW name, NEW given
      PROVE  /\ AttributesSelect(i, name, given.name, {})
             /\ AttributesSelect(i, name, given.name, {given.value})
  BY AttributeSelects DEF OneOrNone
<1>. QED BY <1>1, <1>2, <1>3 DEF CursorsAgree

(* In every tree that is read, all along, cursors, counting and the choice *)
(* by an attribute (getChildNode, getChildNodeWithAttribute) come to each  *)
(* child that fits once, in the order of the file, and then to nothing.    *)
THEOREM SearchesInOrder == Spec => []CursorsAgree
<1>1. RInv => CursorsAgree
  BY CursorsAgreeInTree DEF RInv, TInv
<1>2. RInv /\ [RewriteNext]_rewriteVars => RInv'
  BY RInvNext
<1>. QED BY <1>1, <1>2, RInvInit, PTL DEF Spec
=============================================================================

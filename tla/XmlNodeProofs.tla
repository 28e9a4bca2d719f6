---------------------------- MODULE XmlNodeProofs ----------------------------
(***************************************************************************)
(* Proofs about XmlNode: for any number of nodes, handles and elements.    *)
(***************************************************************************)
EXTENDS XmlNode, SequenceTheorems, FiniteSetTheorems, TLAPS

-----------------------------------------------------------------------------
(* An order and what an insertion makes of it.                             *)

Entries == Types \X Int

(* o puts n[t] elements of each type t in order.                           *)
Ranked(o, n) ==
  /\ \A k \in 1..Len(o) : IndexOf(o[k]) \in 0..(n[TypeOf(o[k])] - 1)
  /\ \A k, l \in 1..Len(o) :
       k < l /\ TypeOf(o[k]) = TypeOf(o[l]) => IndexOf(o[k]) < IndexOf(o[l])
  /\ \A t \in Types : \A i \in 0..(n[t] - 1) : \E k \in 1..Len(o) : o[k] = Entry(t, i)

Up(e, t) == IF TypeOf(e) = t THEN Entry(t, IndexOf(e) + 1) ELSE e

(* o2 is o with an element of type t and index at in place q.              *)
Slot(o, o2, t, q, at) ==
  /\ Len(o2) = Len(o) + 1
  /\ q \in 1..(Len(o) + 1) /\ at \in Nat
  /\ o2[q] = Entry(t, at)
  /\ \A k \in 1..(q - 1) : o2[k] = o[k] /\ (TypeOf(o[k]) = t => IndexOf(o[k]) < at)
  /\ \A k \in q..Len(o) : o2[k + 1] = Up(o[k], t) /\ (TypeOf(o[k]) = t => at <= IndexOf(o[k]))

LEMMA EntryParts ==
  ASSUME NEW e \in Entries
  PROVE  TypeOf(e) \in Types /\ IndexOf(e) \in Int /\ e = Entry(TypeOf(e), IndexOf(e))
BY DEF Entries, TypeOf, IndexOf, Entry

LEMMA EntryOf ==
  ASSUME NEW t, NEW i
  PROVE  TypeOf(Entry(t, i)) = t /\ IndexOf(Entry(t, i)) = i
BY DEF TypeOf, IndexOf, Entry

LEMMA UpParts ==
  ASSUME NEW e \in Entries, NEW t \in Types
  PROVE  /\ Up(e, t) \in Entries
         /\ TypeOf(Up(e, t)) = TypeOf(e)
         /\ IndexOf(Up(e, t)) = IF TypeOf(e) = t THEN IndexOf(e) + 1 ELSE IndexOf(e)
<1>1. TypeOf(e) \in Types /\ IndexOf(e) \in Int
  BY EntryParts
<1>2. CASE TypeOf(e) = t
  <2>1. Up(e, t) = Entry(t, IndexOf(e) + 1) /\ IndexOf(e) + 1 \in Int
    BY <1>1, <1>2 DEF Up
  <2>2. Entry(t, IndexOf(e) + 1) \in Entries
    BY <2>1 DEF Entry, Entries
  <2> QED
    BY <1>2, <2>1, <2>2, EntryOf
<1>3. CASE TypeOf(e) # t
  BY <1>3 DEF Up
<1> QED
  BY <1>2, <1>3

(* Places of the longer order: those before q, q itself, those behind it.  *)
SlotParts(o, o2, t, q, at) ==
  /\ Len(o) \in Nat /\ q \in Nat /\ at \in Nat
  /\ \A k \in 1..(q - 1) : /\ k \in 1..Len(o) /\ k \in 1..Len(o2)
                           /\ TypeOf(o2[k]) = TypeOf(o[k])
                           /\ IndexOf(o2[k]) = IndexOf(o[k])
  /\ \A k \in q..Len(o) : /\ k \in 1..Len(o) /\ k + 1 \in 1..Len(o2)
                          /\ TypeOf(o2[k + 1]) = TypeOf(o[k])
                          /\ IndexOf(o2[k + 1]) =
                               IF TypeOf(o[k]) = t THEN IndexOf(o[k]) + 1 ELSE IndexOf(o[k])
  /\ q \in 1..Len(o2) /\ TypeOf(o2[q]) = t /\ IndexOf(o2[q]) = at
  /\ \A k \in 1..Len(o) : /\ TypeOf(o[k]) \in Types /\ IndexOf(o[k]) \in Int
                          /\ k \in 1..(q - 1) \/ k \in q..Len(o)
  /\ \A k \in 1..Len(o2) : k \in 1..(q - 1) \/ k = q \/ (k - 1 \in q..Len(o) /\ (k - 1) + 1 = k)

LEMMA SlotPlaces ==
  ASSUME NEW o \in Seq(Entries), NEW o2, NEW t \in Types, NEW q, NEW at, Slot(o, o2, t, q, at)
  PROVE  SlotParts(o, o2, t, q, at)
<1>1. Len(o) \in Nat /\ q \in Nat /\ at \in Nat /\ 1 <= q /\ q <= Len(o) + 1 /\ Len(o2) = Len(o) + 1
  BY DEF Slot
<1>2. \A k \in 1..Len(o) : o[k] \in Entries /\ TypeOf(o[k]) \in Types /\ IndexOf(o[k]) \in Int
  BY EntryParts
<1>3. \A k \in 1..(q - 1) : k \in 1..Len(o) /\ k \in 1..Len(o2) /\ o2[k] = o[k]
  BY <1>1 DEF Slot
<1>4. ASSUME NEW k \in q..Len(o)
      PROVE  /\ k \in 1..Len(o) /\ k + 1 \in 1..Len(o2)
             /\ TypeOf(o2[k + 1]) = TypeOf(o[k])
             /\ IndexOf(o2[k + 1]) = IF TypeOf(o[k]) = t THEN IndexOf(o[k]) + 1 ELSE IndexOf(o[k])
  <2>1. k \in 1..Len(o) /\ k + 1 \in 1..Len(o2)
    BY <1>1
  <2>2. o2[k + 1] = Up(o[k], t)
    BY DEF Slot
  <2> QED
    BY <1>2, <2>1, <2>2, UpParts
<1>5. q \in 1..Len(o2) /\ TypeOf(o2[q]) = t /\ IndexOf(o2[q]) = at
  BY <1>1, EntryOf DEF Slot
<1>6. \A k \in 1..Len(o) : k \in 1..(q - 1) \/ k \in q..Len(o)
  BY <1>1
<1>7. \A k \in 1..Len(o2) : k \in 1..(q - 1) \/ k = q \/ (k - 1 \in q..Len(o) /\ (k - 1) + 1 = k)
  BY <1>1
<1> QED
  BY <1>1, <1>2, <1>3, <1>4, <1>5, <1>6, <1>7 DEF SlotParts

LEMMA SlotRanked ==
  ASSUME NEW o \in Seq(Entries), NEW o2, NEW t \in Types, NEW q, NEW at, Slot(o, o2, t, q, at),
         NEW n \in [Types -> Nat], at <= n[t], Ranked(o, n)
  PROVE  Ranked(o2, [n EXCEPT ![t] = @ + 1])
<1> DEFINE m == [n EXCEPT ![t] = @ + 1]
           Before == 1..(q - 1)
           Behind == q..Len(o)
<1>1. m \in [Types -> Nat] /\ m[t] = n[t] + 1 /\ \A u \in Types \ {t} : m[u] = n[u]
  OBVIOUS
<1>0. SlotParts(o, o2, t, q, at)
  BY SlotPlaces
<1>2. /\ Len(o) \in Nat /\ q \in Nat /\ at \in Nat
      /\ \A k \in Before : /\ k \in 1..Len(o) /\ k \in 1..Len(o2)
                           /\ TypeOf(o2[k]) = TypeOf(o[k]) /\ IndexOf(o2[k]) = IndexOf(o[k])
      /\ \A k \in Behind : /\ k \in 1..Len(o) /\ k + 1 \in 1..Len(o2)
                           /\ TypeOf(o2[k + 1]) = TypeOf(o[k])
                           /\ IndexOf(o2[k + 1]) =
                                IF TypeOf(o[k]) = t THEN IndexOf(o[k]) + 1 ELSE IndexOf(o[k])
      /\ q \in 1..Len(o2) /\ TypeOf(o2[q]) = t /\ IndexOf(o2[q]) = at
      /\ \A k \in 1..Len(o) : /\ TypeOf(o[k]) \in Types /\ IndexOf(o[k]) \in Int
                              /\ k \in Before \/ k \in Behind
      /\ \A k \in 1..Len(o2) : k \in Before \/ k = q \/ (k - 1 \in Behind /\ (k - 1) + 1 = k)
  BY <1>0 DEF SlotParts
<1>3. /\ \A k \in Before : o2[k] = o[k] /\ (TypeOf(o[k]) = t => IndexOf(o[k]) < at)
      /\ \A k \in Behind : o2[k + 1] = Up(o[k], t) /\ (TypeOf(o[k]) = t => at <= IndexOf(o[k]))
      /\ o2[q] = Entry(t, at)
  BY DEF Slot
<1>4. /\ \A k \in 1..Len(o) : IndexOf(o[k]) \in 0..(n[TypeOf(o[k])] - 1)
      /\ \A k, l \in 1..Len(o) :
           k < l /\ TypeOf(o[k]) = TypeOf(o[l]) => IndexOf(o[k]) < IndexOf(o[l])
      /\ \A u \in Types : \A i \in 0..(n[u] - 1) : \E k \in 1..Len(o) : o[k] = Entry(u, i)
  BY DEF Ranked
<1> HIDE DEF m
<1>5. ASSUME NEW k \in 1..Len(o2) PROVE IndexOf(o2[k]) \in 0..(m[TypeOf(o2[k])] - 1)
  <2>1. CASE k \in Before
    <3>1. /\ IndexOf(o[k]) \in 0..(n[TypeOf(o[k])] - 1) /\ TypeOf(o[k]) \in Types
          /\ TypeOf(o2[k]) = TypeOf(o[k]) /\ IndexOf(o2[k]) = IndexOf(o[k])
      BY <1>2, <1>4, <2>1
    <3>2. n[TypeOf(o[k])] \in Nat /\ n[TypeOf(o[k])] <= m[TypeOf(o[k])] /\ m[TypeOf(o[k])] \in Nat
      BY <1>1, <3>1, SMTT(30)
    <3> QED
      BY <3>1, <3>2
  <2>2. CASE k = q
    BY <1>1, <1>2, <2>2
  <2>3. ASSUME NEW j \in Behind, k = j + 1 PROVE IndexOf(o2[k]) \in 0..(m[TypeOf(o2[k])] - 1)
    <3>1. CASE TypeOf(o[j]) = t
      <4>1. IndexOf(o[j]) \in 0..(n[t] - 1)
        BY <1>2, <1>4, <3>1
      <4>2. TypeOf(o2[k]) = t /\ IndexOf(o2[k]) = IndexOf(o[j]) + 1
        BY <1>2, <2>3, <3>1
      <4> QED
        BY <1>1, <4>1, <4>2
    <3>2. CASE TypeOf(o[j]) # t
      <4>1. IndexOf(o[j]) \in 0..(n[TypeOf(o[j])] - 1) /\ TypeOf(o[j]) \in Types
        BY <1>2, <1>4
      <4>2. TypeOf(o2[k]) = TypeOf(o[j]) /\ IndexOf(o2[k]) = IndexOf(o[j])
        BY <1>2, <2>3, <3>2
      <4> QED
        BY <1>1, <3>2, <4>1, <4>2
    <3> QED
      BY <3>1, <3>2
  <2> QED
    BY <1>2, <2>1, <2>2, <2>3
<1>6. ASSUME NEW k \in 1..Len(o2), NEW l \in 1..Len(o2), k < l, TypeOf(o2[k]) = TypeOf(o2[l])
      PROVE  IndexOf(o2[k]) < IndexOf(o2[l])
  <2>1. CASE k \in Before /\ l \in Before
    BY <1>2, <1>4, <1>6, <2>1
  <2>2. CASE k \in Before /\ l = q
    BY <1>2, <1>3, <1>6, <2>2
  <2>3. ASSUME k \in Before, NEW j \in Behind, l = j + 1
        PROVE  IndexOf(o2[k]) < IndexOf(o2[l])
    <3>1. k < j /\ TypeOf(o[k]) = TypeOf(o[j])
      BY <1>2, <1>6, <2>3
    <3>2. IndexOf(o[k]) < IndexOf(o[j])
      BY <1>2, <1>4, <2>3, <3>1
    <3>3. IndexOf(o2[k]) = IndexOf(o[k]) /\ IndexOf(o2[l]) >= IndexOf(o[j])
          /\ IndexOf(o[k]) \in Int /\ IndexOf(o[j]) \in Int /\ IndexOf(o2[l]) \in Int
      BY <1>2, <2>3, SMTT(30)
    <3> QED
      BY <3>2, <3>3
  <2>4. ASSUME k = q, NEW j \in Behind, l = j + 1
        PROVE  IndexOf(o2[k]) < IndexOf(o2[l])
    <3>1. TypeOf(o[j]) = t /\ IndexOf(o2[l]) = IndexOf(o[j]) + 1 /\ at <= IndexOf(o[j])
      BY <1>2, <1>3, <1>6, <2>4
    <3> QED
      BY <1>2, <2>4, <3>1
  <2>5. ASSUME NEW i \in Behind, k = i + 1, NEW j \in Behind, l = j + 1
        PROVE  IndexOf(o2[k]) < IndexOf(o2[l])
    <3>1. i < j /\ TypeOf(o[i]) = TypeOf(o[j])
      BY <1>2, <1>6, <2>5
    <3>2. /\ IndexOf(o[i]) < IndexOf(o[j])
          /\ IndexOf(o[i]) \in Int /\ IndexOf(o[j]) \in Int
      BY <1>2, <1>4, <3>1
    <3>3. /\ IndexOf(o2[k]) = IF TypeOf(o[i]) = t THEN IndexOf(o[i]) + 1 ELSE IndexOf(o[i])
          /\ IndexOf(o2[l]) = IF TypeOf(o[j]) = t THEN IndexOf(o[j]) + 1 ELSE IndexOf(o[j])
      BY <1>2, <2>5
    <3> QED
      BY <3>1, <3>2, <3>3
  <2>6. ~(k = q /\ l \in Before) /\ ~(k = q /\ l = q)
    BY <1>2, <1>6
  <2>7. ASSUME NEW j \in Behind, k = j + 1 PROVE l \notin Before /\ l # q
    BY <1>2, <1>6, <2>7
  <2> QED
    BY <1>2, <2>1, <2>2, <2>3, <2>4, <2>5, <2>6, <2>7
<1>7. ASSUME NEW u \in Types, NEW i \in 0..(m[u] - 1)
      PROVE  \E k \in 1..Len(o2) : o2[k] = Entry(u, i)
  <2>1. ASSUME u # t \/ i < at
        PROVE  \E k \in 1..Len(o2) : o2[k] = Entry(u, i)
    <3>1. i \in 0..(n[u] - 1)
      BY <1>1, <1>2, <2>1
    <3>2. PICK k \in 1..Len(o) : o[k] = Entry(u, i)
      BY <1>4, <3>1
    <3>3. TypeOf(o[k]) = u /\ IndexOf(o[k]) = i
      BY <3>2, EntryOf
    <3>4. CASE k \in Before
      BY <1>2, <1>3, <3>2, <3>4
    <3>5. CASE k \in Behind
      <4>1. TypeOf(o[k]) # t
        BY <1>2, <1>3, <2>1, <3>3, <3>5
      <4>2. o2[k + 1] = o[k]
        BY <1>3, <3>5, <4>1 DEF Up
      <4> QED
        BY <1>2, <3>2, <3>5, <4>2
    <3> QED
      BY <1>2, <3>4, <3>5
  <2>2. CASE u = t /\ i = at
    BY <1>2, <1>3, <2>2
  <2>3. ASSUME u = t, at < i PROVE \E k \in 1..Len(o2) : o2[k] = Entry(u, i)
    <3>1. i - 1 \in 0..(n[t] - 1) /\ at <= i - 1 /\ (i - 1) + 1 = i
      BY <1>1, <1>2, <2>3
    <3>2. PICK k \in 1..Len(o) : o[k] = Entry(t, i - 1)
      BY <1>4, <3>1
    <3>3. TypeOf(o[k]) = t /\ IndexOf(o[k]) = i - 1
      BY <3>2, EntryOf
    <3>4. k \notin Before
      BY <1>2, <1>3, <3>1, <3>3
    <3>5. k \in Behind
      BY <1>2, <3>4
    <3>6. o2[k + 1] = Entry(t, i)
      BY <1>3, <3>1, <3>3, <3>5 DEF Up
    <3> QED
      BY <1>2, <2>3, <3>5, <3>6
  <2> QED
    BY <1>2, <2>1, <2>2, <2>3
<1> QED
  BY <1>5, <1>6, <1>7 DEF Ranked, m

LEMMA SlotUnranked ==
  ASSUME NEW o \in Seq(Entries), NEW o2, NEW t \in Types, NEW q, NEW at, Slot(o, o2, t, q, at),
         NEW m \in [Types -> Nat], Ranked(o2, m)
  PROVE  at <= m[t] - 1 /\ Ranked(o, [m EXCEPT ![t] = @ - 1])
<1> DEFINE n == [m EXCEPT ![t] = @ - 1]
           Before == 1..(q - 1)
           Behind == q..Len(o)
<1>1. n[t] = m[t] - 1 /\ m[t] \in Nat /\ \A u \in Types \ {t} : n[u] = m[u] /\ m[u] \in Nat
  OBVIOUS
<1>0. SlotParts(o, o2, t, q, at)
  BY SlotPlaces
<1>2. /\ Len(o) \in Nat /\ q \in Nat /\ at \in Nat
      /\ \A k \in Before : /\ k \in 1..Len(o) /\ k \in 1..Len(o2)
                           /\ TypeOf(o2[k]) = TypeOf(o[k]) /\ IndexOf(o2[k]) = IndexOf(o[k])
      /\ \A k \in Behind : /\ k \in 1..Len(o) /\ k + 1 \in 1..Len(o2)
                           /\ TypeOf(o2[k + 1]) = TypeOf(o[k])
                           /\ IndexOf(o2[k + 1]) =
                                IF TypeOf(o[k]) = t THEN IndexOf(o[k]) + 1 ELSE IndexOf(o[k])
      /\ q \in 1..Len(o2) /\ TypeOf(o2[q]) = t /\ IndexOf(o2[q]) = at
      /\ \A k \in 1..Len(o) : /\ TypeOf(o[k]) \in Types /\ IndexOf(o[k]) \in Int
                              /\ k \in Before \/ k \in Behind
      /\ \A k \in 1..Len(o2) : k \in Before \/ k = q \/ (k - 1 \in Behind /\ (k - 1) + 1 = k)
  BY <1>0 DEF SlotParts
<1>3. /\ \A k \in Before : o2[k] = o[k] /\ (TypeOf(o[k]) = t => IndexOf(o[k]) < at)
      /\ \A k \in Behind : o2[k + 1] = Up(o[k], t) /\ (TypeOf(o[k]) = t => at <= IndexOf(o[k]))
      /\ o2[q] = Entry(t, at)
  BY DEF Slot
<1>4. /\ \A k \in 1..Len(o2) : IndexOf(o2[k]) \in 0..(m[TypeOf(o2[k])] - 1)
      /\ \A k, l \in 1..Len(o2) :
           k < l /\ TypeOf(o2[k]) = TypeOf(o2[l]) => IndexOf(o2[k]) < IndexOf(o2[l])
      /\ \A u \in Types : \A i \in 0..(m[u] - 1) : \E k \in 1..Len(o2) : o2[k] = Entry(u, i)
  BY DEF Ranked
<1> HIDE DEF n
<1>5. at <= m[t] - 1
  BY <1>1, <1>2, <1>4
<1>6. ASSUME NEW k \in 1..Len(o) PROVE IndexOf(o[k]) \in 0..(n[TypeOf(o[k])] - 1)
  <2>1. CASE k \in Before
    <3>1. IndexOf(o[k]) \in 0..(m[TypeOf(o[k])] - 1)
      BY <1>2, <1>4, <2>1
    <3>2. TypeOf(o[k]) = t => IndexOf(o[k]) < at
      BY <1>3, <2>1
    <3> QED
      BY <1>1, <1>2, <1>5, <3>1, <3>2
  <2>2. CASE k \in Behind
    <3>1. IndexOf(o2[k + 1]) \in 0..(m[TypeOf(o[k])] - 1)
      BY <1>2, <1>4, <2>2
    <3>2. TypeOf(o[k]) = t => at <= IndexOf(o[k]) /\ IndexOf(o2[k + 1]) = IndexOf(o[k]) + 1
      BY <1>2, <1>3, <2>2
    <3>3. TypeOf(o[k]) # t => IndexOf(o2[k + 1]) = IndexOf(o[k])
      BY <1>2, <2>2
    <3> QED
      BY <1>1, <1>2, <3>1, <3>2, <3>3
  <2> QED
    BY <1>2, <2>1, <2>2
<1>7. ASSUME NEW k \in 1..Len(o), NEW l \in 1..Len(o), k < l, TypeOf(o[k]) = TypeOf(o[l])
      PROVE  IndexOf(o[k]) < IndexOf(o[l])
  <2>1. CASE k \in Before /\ l \in Before
    BY <1>2, <1>4, <1>7, <2>1
  <2>2. CASE k \in Before /\ l \in Behind
    <3>1. k < l + 1 /\ IndexOf(o2[k]) < IndexOf(o2[l + 1])
      BY <1>2, <1>4, <1>7, <2>2
    <3>2. TypeOf(o[l]) = t => IndexOf(o[k]) < at /\ at <= IndexOf(o[l])
      BY <1>3, <1>7, <2>2
    <3> QED
      BY <1>2, <2>2, <3>1, <3>2
  <2>3. CASE k \in Behind /\ l \in Behind
    <3>1. k + 1 < l + 1
      BY <1>2, <1>7
    <3>2. IndexOf(o2[k + 1]) < IndexOf(o2[l + 1])
      BY <1>2, <1>4, <1>7, <2>3, <3>1
    <3>3. /\ IndexOf(o2[k + 1]) = IF TypeOf(o[k]) = t THEN IndexOf(o[k]) + 1 ELSE IndexOf(o[k])
          /\ IndexOf(o2[l + 1]) = IF TypeOf(o[l]) = t THEN IndexOf(o[l]) + 1 ELSE IndexOf(o[l])
          /\ IndexOf(o[k]) \in Int /\ IndexOf(o[l]) \in Int
      BY <1>2, <2>3
    <3> QED
      BY <1>7, <3>2, <3>3
  <2>4. ~(k \in Behind /\ l \in Before)
    BY <1>2, <1>7
  <2> QED
    BY <1>2, <2>1, <2>2, <2>3, <2>4
<1>8. ASSUME NEW u \in Types, NEW i \in 0..(n[u] - 1)
      PROVE  \E k \in 1..Len(o) : o[k] = Entry(u, i)
  <2>1. ASSUME u # t \/ i < at
        PROVE  \E k \in 1..Len(o) : o[k] = Entry(u, i)
    <3>1. i \in 0..(m[u] - 1)
      BY <1>1, <1>2
    <3>2. PICK k \in 1..Len(o2) : o2[k] = Entry(u, i)
      BY <1>4, <3>1
    <3>3. TypeOf(o2[k]) = u /\ IndexOf(o2[k]) = i
      BY <3>2, EntryOf
    <3>4. CASE k \in Before
      BY <1>2, <1>3, <3>2, <3>4
    <3>5. k # q
      BY <1>2, <2>1, <3>3
    <3>6. ASSUME NEW j \in Behind, k = j + 1 PROVE \E l \in 1..Len(o) : o[l] = Entry(u, i)
      <4>1. TypeOf(o[j]) # t
        BY <1>2, <1>3, <2>1, <3>3, <3>6
      <4>2. o2[k] = o[j]
        BY <1>3, <3>6, <4>1 DEF Up
      <4> QED
        BY <1>2, <3>2, <3>6, <4>2
    <3> QED
      BY <1>2, <3>4, <3>5, <3>6
  <2>2. ASSUME u = t, at <= i PROVE \E k \in 1..Len(o) : o[k] = Entry(u, i)
    <3>1. i + 1 \in 0..(m[t] - 1) /\ i + 1 # at
      BY <1>1, <1>2, <2>2
    <3>2. PICK k \in 1..Len(o2) : o2[k] = Entry(t, i + 1)
      BY <1>4, <3>1
    <3>3. TypeOf(o2[k]) = t /\ IndexOf(o2[k]) = i + 1
      BY <3>2, EntryOf
    <3>4. k \notin Before
      BY <1>2, <1>3, <2>2, <3>3
    <3>5. k # q
      BY <1>2, <3>1, <3>3
    <3>6. PICK j \in Behind : k = j + 1
      BY <1>2, <3>4, <3>5
    <3>7. TypeOf(o[j]) = t /\ IndexOf(o[j]) + 1 = i + 1 /\ IndexOf(o[j]) \in Int /\ o[j] \in Entries
      BY <1>2, <3>3, <3>6
    <3>8. IndexOf(o[j]) = i
      BY <3>7
    <3> QED
      BY <1>2, <2>2, <3>6, <3>7, <3>8, EntryParts
  <2> QED
    BY <1>2, <2>1, <2>2
<1> QED
  BY <1>5, <1>6, <1>7, <1>8 DEF Ranked, n

-----------------------------------------------------------------------------
(* Sequences.                                                              *)

(* r is s with v in place i.                                               *)
Insertion(S, s, i, v, r) ==
  /\ r \in Seq(S \cup {v})
  /\ Len(r) = Len(s) + 1
  /\ r[i] = v
  /\ \A k \in 1..(i - 1) : r[k] = s[k]
  /\ \A k \in i..Len(s) : r[k + 1] = s[k]

LEMMA Inserted ==
  ASSUME NEW S, NEW s \in Seq(S), NEW v, NEW i \in 1..(Len(s) + 1)
  PROVE  Insertion(S, s, i, v, InsertAt(s, i, v))
<1> DEFINE V == S \cup {v}
           n == Len(s)
           b == SubSeq(s, 1, i - 1)
           c == SubSeq(s, i, Len(s))
           bv == b \o <<v>>
<1>1. n \in Nat /\ i \in Nat /\ 1 <= i /\ i <= n + 1 /\ \A k \in 1..n : s[k] \in V
  OBVIOUS
<1>2. b \in Seq(V) /\ Len(b) = i - 1 /\ \A k \in 1..(i - 1) : b[k] = s[k]
  <2>1. \A k \in 1..(i - 1) : s[k] \in V
    BY <1>1
  <2>2. 1 \in Int /\ i - 1 \in Int
    BY <1>1
  <2>3. /\ b \in Seq(V) /\ Len(b) = (IF 1 <= i - 1 THEN (i - 1) - 1 + 1 ELSE 0)
        /\ \A k \in 1..((i - 1) - 1 + 1) : b[k] = s[1 + k - 1]
    BY <2>1, <2>2, SubSeqProperties
  <2> QED
    BY <1>1, <2>3
<1>3. c \in Seq(V) /\ Len(c) = n - i + 1 /\ \A k \in 1..(n - i + 1) : c[k] = s[i + k - 1]
  <2>1. \A k \in i..n : s[k] \in V
    BY <1>1
  <2>2. i \in Int /\ n \in Int
    BY <1>1
  <2>3. /\ c \in Seq(V) /\ Len(c) = (IF i <= n THEN n - i + 1 ELSE 0)
        /\ \A k \in 1..(n - i + 1) : c[k] = s[i + k - 1]
    BY <2>1, <2>2, SubSeqProperties
  <2> QED
    BY <1>1, <2>3
<1> HIDE DEF b, c
<1>4. bv \in Seq(V) /\ Len(bv) = i /\ bv[i] = v /\ \A k \in 1..(i - 1) : bv[k] = s[k]
  <2>1. <<v>> \in Seq(V) /\ Len(<<v>>) = 1 /\ <<v>>[1] = v
    OBVIOUS
  <2>2. /\ bv \in Seq(V) /\ Len(bv) = Len(b) + 1
        /\ \A k \in 1..(Len(b) + 1) : bv[k] = IF k <= Len(b) THEN b[k] ELSE <<v>>[k - Len(b)]
    BY <1>2, <2>1, ConcatProperties
  <2>3. i \in 1..(Len(b) + 1) /\ ~(i <= Len(b)) /\ i - Len(b) = 1 /\ Len(b) + 1 = i
    BY <1>1, <1>2
  <2>4. \A k \in 1..(i - 1) : k \in 1..(Len(b) + 1) /\ k <= Len(b)
    BY <1>1, <1>2
  <2> QED
    BY <1>2, <2>1, <2>2, <2>3, <2>4
<1> HIDE DEF bv
<1> DEFINE t == bv \o c
<1>5. /\ t \in Seq(V) /\ Len(t) = Len(bv) + Len(c)
      /\ \A k \in 1..(Len(bv) + Len(c)) : t[k] = IF k <= Len(bv) THEN bv[k] ELSE c[k - Len(bv)]
  BY <1>3, <1>4, ConcatProperties
<1>6. InsertAt(s, i, v) = t
  BY DEF InsertAt, b, c, bv
<1> HIDE DEF t
<1>7. Len(t) = n + 1 /\ Len(bv) + Len(c) = n + 1
  BY <1>1, <1>3, <1>4, <1>5
<1>8. t[i] = v
  BY <1>1, <1>4, <1>5, <1>7
<1>9. ASSUME NEW k \in 1..(i - 1) PROVE t[k] = s[k]
  <2>1. k \in 1..(n + 1) /\ k <= i
    BY <1>1
  <2> QED
    BY <1>4, <1>5, <1>7, <2>1
<1>10. ASSUME NEW k \in i..n PROVE t[k + 1] = s[k]
  <2>1. k + 1 \in 1..(n + 1) /\ ~(k + 1 <= i) /\ k + 1 - i \in 1..(n - i + 1)
        /\ i + (k + 1 - i) - 1 = k
    BY <1>1
  <2>2. t[k + 1] = c[k + 1 - i]
    BY <1>4, <1>5, <1>7, <2>1
  <2> QED
    BY <1>3, <2>1, <2>2
<1> QED
  BY <1>5, <1>6, <1>7, <1>8, <1>9, <1>10 DEF Insertion

LEMMA Removed ==
  ASSUME NEW S, NEW s \in Seq(S), NEW i \in 1..Len(s)
  PROVE  /\ RemoveAt(s, i) \in Seq(S)
         /\ Len(RemoveAt(s, i)) = Len(s) - 1
         /\ \A k \in 1..(i - 1) : RemoveAt(s, i)[k] = s[k]
         /\ \A k \in i..(Len(s) - 1) : RemoveAt(s, i)[k] = s[k + 1]
<1> DEFINE n == Len(s)
           b == SubSeq(s, 1, i - 1)
           c == SubSeq(s, i + 1, Len(s))
           t == b \o c
<1>1. n \in Nat /\ i \in Nat /\ 1 <= i /\ i <= n /\ \A k \in 1..n : s[k] \in S
  OBVIOUS
<1>2. b \in Seq(S) /\ Len(b) = i - 1 /\ \A k \in 1..(i - 1) : b[k] = s[k]
  <2>1. \A k \in 1..(i - 1) : s[k] \in S
    BY <1>1
  <2>2. 1 \in Int /\ i - 1 \in Int
    BY <1>1
  <2>3. /\ b \in Seq(S) /\ Len(b) = (IF 1 <= i - 1 THEN (i - 1) - 1 + 1 ELSE 0)
        /\ \A k \in 1..((i - 1) - 1 + 1) : b[k] = s[1 + k - 1]
    BY <2>1, <2>2, SubSeqProperties
  <2> QED
    BY <1>1, <2>3
<1>3. c \in Seq(S) /\ Len(c) = n - i /\ \A k \in 1..(n - i) : c[k] = s[i + k]
  <2>1. \A k \in (i + 1)..n : s[k] \in S
    BY <1>1
  <2>2. i + 1 \in Int /\ n \in Int
    BY <1>1
  <2>3. /\ c \in Seq(S) /\ Len(c) = (IF i + 1 <= n THEN n - (i + 1) + 1 ELSE 0)
        /\ \A k \in 1..(n - (i + 1) + 1) : c[k] = s[(i + 1) + k - 1]
    BY <2>1, <2>2, SubSeqProperties
  <2> QED
    BY <1>1, <2>3
<1> HIDE DEF b, c
<1>4. /\ t \in Seq(S) /\ Len(t) = Len(b) + Len(c)
      /\ \A k \in 1..(Len(b) + Len(c)) : t[k] = IF k <= Len(b) THEN b[k] ELSE c[k - Len(b)]
  BY <1>2, <1>3, ConcatProperties
<1>5. RemoveAt(s, i) = t
  BY DEF RemoveAt, b, c
<1> HIDE DEF t
<1>6. Len(t) = n - 1 /\ Len(b) + Len(c) = n - 1
  BY <1>1, <1>2, <1>3, <1>4
<1>7. ASSUME NEW k \in 1..(i - 1) PROVE t[k] = s[k]
  <2>1. k \in 1..(n - 1) /\ k <= i - 1
    BY <1>1
  <2> QED
    BY <1>2, <1>4, <1>6, <2>1
<1>8. ASSUME NEW k \in i..(n - 1) PROVE t[k] = s[k + 1]
  <2>1. k \in 1..(n - 1) /\ ~(k <= i - 1) /\ k - (i - 1) \in 1..(n - i) /\ i + (k - (i - 1)) = k + 1
    BY <1>1
  <2>2. t[k] = c[k - (i - 1)]
    BY <1>2, <1>4, <1>6, <2>1
  <2> QED
    BY <1>3, <2>1, <2>2
<1> QED
  BY <1>4, <1>5, <1>6, <1>7, <1>8

(* The first of some numbers.                                              *)
LEMMA FirstOf ==
  ASSUME NEW S \in SUBSET Nat, S # {}
  PROVE  First(S) \in S /\ \A l \in S : First(S) <= l
<1> DEFINE R == {ss \in Nat \X Nat : ss[1] < ss[2]}
<1>1. PICK x \in S : \A y \in S : <<y, x>> \notin R
  <2>1. IsWellFoundedOn(R, Nat)
    BY NatLessThanWellFounded DEF OpToRel
  <2> HIDE DEF R
  <2> QED
    BY <2>1, WFMin
<1>2. ASSUME NEW l \in S PROVE x <= l
  <2>1. <<l, x>> \in Nat \X Nat /\ <<l, x>>[1] = l /\ <<l, x>>[2] = x
    OBVIOUS
  <2>2. ~(l < x)
    BY <1>1, <2>1
  <2> QED
    BY <2>1, <2>2
<1> QED
  BY <1>2 DEF First

-----------------------------------------------------------------------------
(* Nodes.                                                                  *)

Elements == {e \in [Types -> Seq(Ids \cup Values)] : e["child"] \in Seq(Ids)}

NodeType == [named : BOOLEAN, parent : Ids \cup {Null}, ref : Nat,
             elem : Elements, order : Seq(Entries)]

(* How many elements of each type a node has.                              *)
Numbers(nd) == [t \in Types |-> Len(nd.elem[t])]

Sized(nd) == Len(nd.order) = Size(nd)

LEMMA ElementsOf ==
  ASSUME NEW nd \in NodeType, NEW t \in Types
  PROVE  /\ nd.elem[t] \in Seq(Ids \cup Values) /\ Len(nd.elem[t]) \in Nat
         /\ Numbers(nd) \in [Types -> Nat] /\ Numbers(nd)[t] = Len(nd.elem[t])
<1>1. \A u \in Types : nd.elem[u] \in Seq(Ids \cup Values) /\ Len(nd.elem[u]) \in Nat
  BY DEF NodeType, Elements
<1> QED
  BY <1>1 DEF Numbers

LEMMA SizeType ==
  ASSUME NEW nd \in NodeType
  PROVE  Size(nd) \in Nat /\ Len(nd.order) \in Nat /\ nd.order \in Seq(Entries)
<1>1. "child" \in Types /\ "text" \in Types /\ "clear" \in Types
  BY DEF Types
<1>2. nd.order \in Seq(Entries)
  BY DEF NodeType
<1>3. /\ Len(nd.elem["child"]) \in Nat /\ Len(nd.elem["text"]) \in Nat
      /\ Len(nd.elem["clear"]) \in Nat
  BY <1>1, ElementsOf
<1>4. \A i, j, k \in Nat : i + j + k \in Nat
  OBVIOUS
<1>5. Size(nd) \in Nat
  BY <1>3, <1>4, Zenon DEF Size
<1> QED
  BY <1>2, <1>5

LEMMA WellOrderedRanked ==
  ASSUME NEW nd \in NodeType
  PROVE  WellOrdered(nd) <=> Sized(nd) /\ Ranked(nd.order, Numbers(nd))
<1>1. \A t \in Types : Numbers(nd)[t] = Len(nd.elem[t])
  BY ElementsOf
<1>2. \A k \in 1..Len(nd.order) : TypeOf(nd.order[k]) \in Types
  BY SizeType, EntryParts
<1> QED
  BY <1>1, <1>2 DEF WellOrdered, Ranked, Sized, Found

(* Sizes after one element has come or gone.                               *)
LEMMA SizeChange ==
  ASSUME NEW nd, NEW nd2, NEW t \in Types, NEW n \in Int,
         \A u \in Types : Len(nd.elem[u]) \in Nat,
         \A u \in Types : Len(nd2.elem[u]) = IF u = t THEN Len(nd.elem[u]) + n ELSE Len(nd.elem[u])
  PROVE  Size(nd2) = Size(nd) + n
<1>1. Types = {"child", "text", "clear"}
  BY DEF Types
<1> DEFINE C == Len(nd.elem["child"])
           T == Len(nd.elem["text"])
           K == Len(nd.elem["clear"])
<1>2. C \in Nat /\ T \in Nat /\ K \in Nat
  BY <1>1
<1>a. Size(nd) = C + T + K
  BY DEF Size
<1>b. ASSUME NEW c, NEW x, NEW k,
             Len(nd2.elem["child"]) = c, Len(nd2.elem["text"]) = x, Len(nd2.elem["clear"]) = k
      PROVE  Size(nd2) = c + x + k
  BY <1>b DEF Size
<1>c. \A i, j, k \in Nat : /\ (i + n) + j + k = i + j + k + n
                           /\ i + (j + n) + k = i + j + k + n
                           /\ i + j + (k + n) = i + j + k + n
  OBVIOUS
<1> HIDE DEF C, T, K
<1>3. CASE t = "child"
  <2>1. Len(nd2.elem["child"]) = C + n /\ Len(nd2.elem["text"]) = T /\ Len(nd2.elem["clear"]) = K
    BY <1>1, <1>3 DEF C, T, K
  <2>2. Size(nd2) = (C + n) + T + K
    BY <1>b, <2>1
  <2> QED
    BY <1>2, <1>a, <1>c, <2>2
<1>4. CASE t = "text"
  <2>1. Len(nd2.elem["child"]) = C /\ Len(nd2.elem["text"]) = T + n /\ Len(nd2.elem["clear"]) = K
    BY <1>1, <1>4 DEF C, T, K
  <2>2. Size(nd2) = C + (T + n) + K
    BY <1>b, <2>1
  <2> QED
    BY <1>2, <1>a, <1>c, <2>2
<1>5. CASE t = "clear"
  <2>1. Len(nd2.elem["child"]) = C /\ Len(nd2.elem["text"]) = T /\ Len(nd2.elem["clear"]) = K + n
    BY <1>1, <1>5 DEF C, T, K
  <2>2. Size(nd2) = C + T + (K + n)
    BY <1>b, <2>1
  <2> QED
    BY <1>2, <1>a, <1>c, <2>2
<1> QED
  BY <1>1, <1>3, <1>4, <1>5

-----------------------------------------------------------------------------
(* Insertion: addToOrder.                                                  *)

LEMMA ShiftedOrder ==
  ASSUME NEW o \in Seq(Entries), NEW pos \in 0..(Len(o) - 1)
  PROVE  /\ Shifted(o, pos) \in Seq(Entries) /\ Len(Shifted(o, pos)) = Len(o) + 1
         /\ \A k \in 1..(Len(o) + 1) :
              Shifted(o, pos)[k] = IF k <= pos + 1 THEN o[k] ELSE o[k - 1]
<1> DEFINE e(k) == IF k <= pos + 1 THEN o[k] ELSE o[k - 1]
<1>1. Len(o) \in Nat /\ pos \in Nat /\ pos + 1 <= Len(o)
  OBVIOUS
<1>2. \A k \in 1..(Len(o) + 1) : e(k) \in Entries
  BY <1>1
<1>3. Shifted(o, pos) = [k \in 1..(Len(o) + 1) |-> e(k)] /\ Len(o) + 1 \in Nat
  BY <1>1 DEF Shifted
<1> HIDE DEF e
<1>4. Shifted(o, pos) \in Seq(Entries) /\ Len(Shifted(o, pos)) = Len(o) + 1
  BY <1>2, <1>3, IsASeq
<1> QED
  BY <1>3, <1>4 DEF e

LEMMA SameTypeOf ==
  ASSUME NEW o \in Seq(Entries), NEW pos \in 0..(Len(o) - 1), NEW t, SameType(o, t, pos) # {}
  PROVE  /\ First(SameType(o, t, pos)) \in (pos + 1)..Len(o)
         /\ TypeOf(Shifted(o, pos)[First(SameType(o, t, pos))]) = t
         /\ \A l \in SameType(o, t, pos) : First(SameType(o, t, pos)) <= l
<1>1. SameType(o, t, pos) \subseteq Nat
  BY DEF SameType
<1>2. /\ First(SameType(o, t, pos)) \in SameType(o, t, pos)
      /\ \A l \in SameType(o, t, pos) : First(SameType(o, t, pos)) <= l
  BY <1>1, FirstOf
<1> QED
  BY <1>2 DEF SameType

LEMMA RaisedOrder ==
  ASSUME NEW o \in Seq(Entries), NEW pos \in 0..(Len(o) - 1), NEW t \in Types,
         NEW q \in (pos + 1)..Len(o)
  PROVE  /\ Raised(o, t, pos, q) \in Seq(Entries) /\ Len(Raised(o, t, pos, q)) = Len(o) + 1
         /\ \A k \in 1..(Len(o) + 1) :
              Raised(o, t, pos, q)[k] =
                IF k = pos + 1 THEN Shifted(o, pos)[q]
                ELSE IF k > q THEN Up(Shifted(o, pos)[k], t)
                ELSE Shifted(o, pos)[k]
<1> DEFINE s == Shifted(o, pos)
           e(k) == IF k = pos + 1 THEN s[q]
                   ELSE IF k > q /\ TypeOf(s[k]) = t THEN Entry(t, IndexOf(s[k]) + 1) ELSE s[k]
           u(k) == IF k = pos + 1 THEN s[q] ELSE IF k > q THEN Up(s[k], t) ELSE s[k]
<1>1. Len(o) \in Nat /\ q \in 1..(Len(o) + 1)
  OBVIOUS
<1>2. \A k \in 1..(Len(o) + 1) : s[k] \in Entries
  BY ShiftedOrder, ElementOfSeq
<1> HIDE DEF s
<1>3. \A k \in 1..(Len(o) + 1) : e(k) = u(k) /\ u(k) \in Entries
  BY <1>1, <1>2, UpParts DEF Up
<1>4. Raised(o, t, pos, q) = [k \in 1..(Len(o) + 1) |-> e(k)] /\ Len(o) + 1 \in Nat
  BY <1>1 DEF Raised, s
<1>5. \A k \in 1..(Len(o) + 1) : e(k) \in Entries
  BY <1>3
<1> HIDE DEF e
<1>6. Raised(o, t, pos, q) \in Seq(Entries) /\ Len(Raised(o, t, pos, q)) = Len(o) + 1
  BY <1>4, <1>5, IsASeq
<1>7. \A k \in 1..(Len(o) + 1) : Raised(o, t, pos, q)[k] = u(k)
  BY <1>3, <1>4
<1> QED
  BY <1>6, <1>7 DEF s

LEMMA AddedAtEnd ==
  ASSUME NEW nd, NEW t, NEW pos, ~Inside(nd, pos)
  PROVE  /\ addToOrder(nd, t, pos).order = Append(nd.order, Entry(t, Len(nd.elem[t])))
         /\ addToOrder(nd, t, pos).at = Len(nd.elem[t])
BY DEF addToOrder

LEMMA AddedAlone ==
  ASSUME NEW nd, NEW t, NEW pos, Inside(nd, pos), SameType(nd.order, t, pos) = {}
  PROVE  /\ addToOrder(nd, t, pos).order =
              [Shifted(nd.order, pos) EXCEPT ![Len(nd.order) + 1] = Entry(t, Len(nd.elem[t]))]
         /\ addToOrder(nd, t, pos).at = Len(nd.elem[t])
BY DEF addToOrder

LEMMA AddedBefore ==
  ASSUME NEW nd, NEW t, NEW pos, Inside(nd, pos), SameType(nd.order, t, pos) # {}
  PROVE  /\ addToOrder(nd, t, pos).order =
              Raised(nd.order, t, pos, First(SameType(nd.order, t, pos)))
         /\ addToOrder(nd, t, pos).at =
              IndexOf(Shifted(nd.order, pos)[First(SameType(nd.order, t, pos))])
BY DEF addToOrder

(* addToOrder adds an entry, wherever it puts it, and the entry has an     *)
(* index the arrays have room for, if the order is right.                  *)
LEMMA AddedAnywhere ==
  ASSUME NEW nd \in NodeType, Sized(nd), NEW t \in Types, NEW pos \in Int
  PROVE  /\ addToOrder(nd, t, pos).order \in Seq(Entries)
         /\ Len(addToOrder(nd, t, pos).order) = Len(nd.order) + 1
         /\ addToOrder(nd, t, pos).at \in Int
         /\ WellOrdered(nd) => addToOrder(nd, t, pos).at \in 0..Len(nd.elem[t])
<1> DEFINE o == nd.order
           nc == Len(nd.elem[t])
           a == addToOrder(nd, t, pos)
<1>1. o \in Seq(Entries) /\ Len(o) \in Nat /\ nc \in Nat
  BY SizeType, ElementsOf
<1>2. Entry(t, nc) \in Entries /\ nc \in 0..nc
  BY <1>1 DEF Entry, Entries
<1>3. CASE ~Inside(nd, pos)
  <2>1. a.order = Append(o, Entry(t, nc)) /\ a.at = nc
    BY <1>3, AddedAtEnd
  <2>2. Append(o, Entry(t, nc)) \in Seq(Entries) /\ Len(Append(o, Entry(t, nc))) = Len(o) + 1
    BY <1>1, <1>2, AppendProperties
  <2> QED
    BY <1>1, <1>2, <2>1, <2>2
<1>4. CASE Inside(nd, pos)
  <2>1. pos \in 0..(Len(o) - 1)
    BY <1>4 DEF Inside, Sized
  <2>2. /\ Shifted(o, pos) \in Seq(Entries) /\ Len(Shifted(o, pos)) = Len(o) + 1
        /\ \A k \in 1..(Len(o) + 1) : Shifted(o, pos)[k] = IF k <= pos + 1 THEN o[k] ELSE o[k - 1]
    BY <1>1, <2>1, ShiftedOrder
  <2>3. CASE SameType(o, t, pos) = {}
    <3>1. Len(o) + 1 \in 1..Len(Shifted(o, pos))
      BY <1>1, <2>2
    <3>2. /\ [Shifted(o, pos) EXCEPT ![Len(o) + 1] = Entry(t, nc)] \in Seq(Entries)
          /\ Len([Shifted(o, pos) EXCEPT ![Len(o) + 1] = Entry(t, nc)]) = Len(o) + 1
      BY <1>2, <2>2, <3>1, ExceptSeq
    <3>3. a.order = [Shifted(o, pos) EXCEPT ![Len(o) + 1] = Entry(t, nc)] /\ a.at = nc
      BY <1>4, <2>3, AddedAlone
    <3> QED
      BY <1>1, <1>2, <3>2, <3>3
  <2>4. CASE SameType(o, t, pos) # {}
    <3> DEFINE q == First(SameType(o, t, pos))
    <3>1. q \in (pos + 1)..Len(o) /\ TypeOf(Shifted(o, pos)[q]) = t
      BY <1>1, <2>1, <2>4, SameTypeOf
    <3> HIDE DEF q
    <3>2. a.order = Raised(o, t, pos, q) /\ a.at = IndexOf(Shifted(o, pos)[q])
      BY <1>4, <2>4, AddedBefore DEF q
    <3>3. Raised(o, t, pos, q) \in Seq(Entries) /\ Len(Raised(o, t, pos, q)) = Len(o) + 1
      BY <1>1, <2>1, <3>1, RaisedOrder
    <3>4. q \in 1..Len(o) /\ q \in 1..(Len(o) + 1) /\ (q <= pos + 1 \/ q - 1 \in 1..Len(o))
      BY <1>1, <2>1, <3>1
    <3>5. \E k \in 1..Len(o) : Shifted(o, pos)[q] = o[k]
      BY <2>2, <3>4
    <3>6. Shifted(o, pos)[q] \in Entries
      BY <1>1, <3>5, ElementOfSeq
    <3>7. WellOrdered(nd) => IndexOf(Shifted(o, pos)[q]) \in 0..(nc - 1)
      BY <3>1, <3>5 DEF WellOrdered
    <3> QED
      BY <1>1, <3>2, <3>3, <3>6, <3>7, EntryParts
  <2> QED
    BY <2>3, <2>4
<1> QED
  BY <1>3, <1>4

Where(nd, pos) == IF Inside(nd, pos) THEN pos + 1 ELSE Len(nd.order) + 1

(* With an element of its own type at pos, or none, the new one takes its  *)
(* place and its index.                                                    *)
LEMMA AddedSlot ==
  ASSUME NEW nd \in NodeType, WellOrdered(nd), NEW t \in Types, NEW pos \in Int,
         ~OtherTypeAt(nd, t, pos)
  PROVE  /\ Slot(nd.order, addToOrder(nd, t, pos).order, t, Where(nd, pos),
                 addToOrder(nd, t, pos).at)
         /\ addToOrder(nd, t, pos).at \in 0..Len(nd.elem[t])
<1> DEFINE o == nd.order
           nc == Len(nd.elem[t])
           a == addToOrder(nd, t, pos)
<1>1. o \in Seq(Entries) /\ Len(o) \in Nat /\ nc \in Nat
  BY SizeType, ElementsOf
<1>2. /\ a.order \in Seq(Entries) /\ Len(a.order) = Len(o) + 1 /\ a.at \in 0..nc
      /\ Len(o) = Size(nd)
  BY AddedAnywhere DEF WellOrdered, Sized
<1>3. \A k \in 1..Len(o) : o[k] \in Entries
  BY <1>1
<1>4. CASE ~Inside(nd, pos)
  <2>1. Entry(t, nc) \in Entries
    BY <1>1 DEF Entry, Entries
  <2>2. a.at = nc /\ a.order = Append(o, Entry(t, nc))
    BY <1>4, AddedAtEnd
  <2>3. /\ \A k \in 1..Len(o) : a.order[k] = o[k]
        /\ a.order[Len(o) + 1] = Entry(t, nc)
    BY <1>1, <2>1, <2>2, AppendProperties
  <2>4. ASSUME NEW k \in 1..Len(o), TypeOf(o[k]) = t PROVE IndexOf(o[k]) < nc
    BY <1>1, <2>4 DEF WellOrdered
  <2>5. Where(nd, pos) = Len(o) + 1
    BY <1>4 DEF Where
  <2>6. /\ Len(o) + 1 \in 1..(Len(o) + 1) /\ (Len(o) + 1) - 1 = Len(o)
        /\ (Len(o) + 1)..Len(o) = {}
    BY <1>1
  <2>7. Slot(o, a.order, t, Len(o) + 1, a.at)
    BY <1>1, <1>2, <2>2, <2>3, <2>4, <2>6 DEF Slot
  <2> QED
    BY <1>2, <2>5, <2>7
<1>5. CASE Inside(nd, pos)
  <2> DEFINE q == pos + 1
             s == Shifted(o, pos)
  <2>1. pos \in 0..(Len(o) - 1) /\ q \in Nat /\ q \in 1..Len(o) /\ q \in (pos + 1)..Len(o)
    BY <1>1, <1>2, <1>5 DEF Inside
  <2>2. TypeOf(o[q]) = t
    BY <1>5 DEF OtherTypeAt
  <2>3. \A k \in 1..(Len(o) + 1) : s[k] = IF k <= q THEN o[k] ELSE o[k - 1]
    BY <1>1, <2>1, ShiftedOrder
  <2> HIDE DEF s
  <2>4. s[q] = o[q]
    BY <1>1, <2>1, <2>3
  <2>5. q \in SameType(o, t, pos)
    BY <2>1, <2>2, <2>4 DEF SameType, s
  <2>6. First(SameType(o, t, pos)) \in (pos + 1)..Len(o) /\ First(SameType(o, t, pos)) <= q
    BY <1>1, <2>1, <2>5, SameTypeOf
  <2>7. First(SameType(o, t, pos)) = q
    BY <2>1, <2>6
  <2>8. a.order = Raised(o, t, pos, q) /\ a.at = IndexOf(o[q])
    BY <1>5, <2>4, <2>5, <2>7, AddedBefore DEF s
  <2>9. \A k \in 1..(Len(o) + 1) :
          a.order[k] = IF k = q THEN s[q] ELSE IF k > q THEN Up(s[k], t) ELSE s[k]
    BY <1>1, <2>1, <2>8, RaisedOrder DEF s
  <2>10. a.order[q] = Entry(t, a.at)
    <3>1. a.order[q] = o[q]
      BY <1>1, <2>1, <2>4, <2>9
    <3> QED
      BY <1>3, <2>1, <2>2, <2>8, <3>1, EntryParts
  <2>11. ASSUME NEW k \in 1..(q - 1)
         PROVE  a.order[k] = o[k] /\ (TypeOf(o[k]) = t => IndexOf(o[k]) < a.at)
    <3>1. k \in 1..(Len(o) + 1) /\ k < q /\ k \in 1..Len(o)
      BY <1>1, <2>1
    <3>2. a.order[k] = o[k]
      BY <1>1, <2>1, <2>3, <2>9, <3>1
    <3>3. TypeOf(o[k]) = t => IndexOf(o[k]) < IndexOf(o[q])
      BY <2>1, <2>2, <3>1 DEF WellOrdered
    <3> QED
      BY <2>8, <3>2, <3>3
  <2>12. ASSUME NEW k \in q..Len(o)
         PROVE  a.order[k + 1] = Up(o[k], t) /\ (TypeOf(o[k]) = t => a.at <= IndexOf(o[k]))
    <3>1. k + 1 \in 1..(Len(o) + 1) /\ ~(k + 1 <= q) /\ k + 1 # q /\ k + 1 > q
          /\ (k + 1) - 1 = k /\ k \in 1..Len(o) /\ (k = q \/ q < k)
      BY <1>1, <2>1
    <3>2. s[k + 1] = o[k]
      BY <2>3, <3>1
    <3>3. a.order[k + 1] = Up(o[k], t)
      BY <2>9, <3>1, <3>2
    <3>4. TypeOf(o[k]) = t /\ q < k => IndexOf(o[q]) < IndexOf(o[k])
      BY <2>1, <2>2, <3>1 DEF WellOrdered
    <3>5. IndexOf(o[k]) \in Int /\ IndexOf(o[q]) \in Int
      BY <1>3, <2>1, <3>1, EntryParts
    <3>6. TypeOf(o[k]) = t => IndexOf(o[q]) <= IndexOf(o[k])
      BY <3>1, <3>4, <3>5
    <3> QED
      BY <2>8, <3>3, <3>6
  <2>13. Where(nd, pos) = q
    BY <1>5 DEF Where
  <2>14. q \in 1..(Len(o) + 1) /\ a.at \in Nat
    BY <1>1, <1>2, <2>1
  <2> HIDE DEF q
  <2>15. Slot(o, a.order, t, q, a.at)
    BY <1>2, <2>10, <2>11, <2>12, <2>14 DEF Slot
  <2> QED
    BY <1>2, <2>13, <2>15
<1> QED
  BY <1>4, <1>5

-----------------------------------------------------------------------------
(* A node with an element more, and with one less.                         *)

LEMMA ElemAndOrder ==
  ASSUME NEW nd \in NodeType, NEW t, NEW x, NEW o
  PROVE  [nd EXCEPT !.elem[t] = x, !.order = o] =
           [named |-> nd.named, parent |-> nd.parent, ref |-> nd.ref,
            elem |-> [nd.elem EXCEPT ![t] = x], order |-> o]
<1> DEFINE e == [nd.elem EXCEPT ![t] = x]
<1>1. nd = [named |-> nd.named, parent |-> nd.parent, ref |-> nd.ref,
            elem |-> nd.elem, order |-> nd.order]
  BY DEF NodeType
<1>2. [nd EXCEPT !.elem[t] = x, !.order = o] = [[nd EXCEPT !.elem = e] EXCEPT !.order = o]
  OBVIOUS
<1> HIDE DEF e
<1>3. [nd EXCEPT !.elem = e] = [named |-> nd.named, parent |-> nd.parent, ref |-> nd.ref,
                                elem |-> e, order |-> nd.order]
  BY <1>1
<1>4. [[named |-> nd.named, parent |-> nd.parent, ref |-> nd.ref, elem |-> e,
        order |-> nd.order] EXCEPT !.order = o]
        = [named |-> nd.named, parent |-> nd.parent, ref |-> nd.ref, elem |-> e, order |-> o]
  OBVIOUS
<1>5. [nd EXCEPT !.elem[t] = x, !.order = o]
        = [named |-> nd.named, parent |-> nd.parent, ref |-> nd.ref, elem |-> e, order |-> o]
  BY <1>2, <1>3, <1>4
<1> QED
  BY <1>5 DEF e

LEMMA WithFields ==
  ASSUME NEW nd \in NodeType, NEW t \in Types, NEW v, NEW pos
  PROVE  With(nd, t, v, pos) =
           [named |-> nd.named, parent |-> nd.parent, ref |-> nd.ref,
            elem |-> [nd.elem EXCEPT ![t] = InsertAt(@, addToOrder(nd, t, pos).at + 1, v)],
            order |-> addToOrder(nd, t, pos).order]
<1> DEFINE a == addToOrder(nd, t, pos)
           o == a.order
           x == InsertAt(nd.elem[t], a.at + 1, v)
<1>1. With(nd, t, v, pos) = [nd EXCEPT !.elem[t] = x, !.order = o]
  BY DEF With
<1> HIDE DEF o, x
<1>2. With(nd, t, v, pos) =
        [named |-> nd.named, parent |-> nd.parent, ref |-> nd.ref,
         elem |-> [nd.elem EXCEPT ![t] = x], order |-> o]
  BY <1>1, ElemAndOrder
<1> QED
  BY <1>2 DEF o, x

LEMMA WithoutFields ==
  ASSUME NEW nd \in NodeType, NEW t \in Types, NEW i
  PROVE  Without(nd, t, i) =
           [named |-> nd.named, parent |-> nd.parent, ref |-> nd.ref,
            elem |-> [nd.elem EXCEPT ![t] = RemoveAt(@, i + 1)],
            order |-> Lowered(nd.order, findPosition(nd, t, i), t)]
<1> DEFINE o == Lowered(nd.order, findPosition(nd, t, i), t)
           x == RemoveAt(nd.elem[t], i + 1)
<1>1. Without(nd, t, i) = [nd EXCEPT !.elem[t] = x, !.order = o]
  BY DEF Without
<1> HIDE DEF o, x
<1>2. Without(nd, t, i) =
        [named |-> nd.named, parent |-> nd.parent, ref |-> nd.ref,
         elem |-> [nd.elem EXCEPT ![t] = x], order |-> o]
  BY <1>1, ElemAndOrder
<1> QED
  BY <1>2 DEF o, x

LEMMA ElementsExcept ==
  ASSUME NEW e \in Elements, NEW t \in Types, NEW x \in Seq(Ids \cup Values),
         t = "child" => x \in Seq(Ids)
  PROVE  [e EXCEPT ![t] = x] \in Elements
<1>1. "child" \in Types /\ e \in [Types -> Seq(Ids \cup Values)] /\ e["child"] \in Seq(Ids)
  BY DEF Types, Elements
<1>2. [e EXCEPT ![t] = x] \in [Types -> Seq(Ids \cup Values)]
  BY <1>1
<1>3. [e EXCEPT ![t] = x]["child"] = IF t = "child" THEN x ELSE e["child"]
  BY <1>1
<1> QED
  BY <1>1, <1>2, <1>3 DEF Elements

LEMMA WithKeeps ==
  ASSUME NEW nd \in NodeType, Sized(nd), NEW t \in Types, NEW pos \in Int,
         NEW v \in Ids \cup Values, t = "child" => v \in Ids, Insertable(nd, t, pos)
  PROVE  /\ With(nd, t, v, pos) \in NodeType
         /\ Sized(With(nd, t, v, pos))
         /\ WellOrdered(nd) /\ ~OtherTypeAt(nd, t, pos) => WellOrdered(With(nd, t, v, pos))
<1> DEFINE a == addToOrder(nd, t, pos)
           at == a.at
           o == a.order
           w == With(nd, t, v, pos)
           x == InsertAt(nd.elem[t], at + 1, v)
<1>1. w = [named |-> nd.named, parent |-> nd.parent, ref |-> nd.ref,
           elem |-> [nd.elem EXCEPT ![t] = x], order |-> o]
  BY WithFields
<1>2. o \in Seq(Entries) /\ Len(o) = Len(nd.order) + 1 /\ at \in 0..Len(nd.elem[t])
  BY AddedAnywhere DEF Insertable
<1>3. nd.elem[t] \in Seq(Ids \cup Values) /\ nd.elem \in Elements /\ Len(nd.elem[t]) \in Nat
  BY ElementsOf DEF NodeType
<1>4. at + 1 \in 1..(Len(nd.elem[t]) + 1)
  BY <1>2, <1>3
<1> HIDE DEF w, a
<1>5. x \in Seq(Ids \cup Values) /\ Len(x) = Len(nd.elem[t]) + 1
  <2>1. (Ids \cup Values) \cup {v} = Ids \cup Values
    OBVIOUS
  <2>2. ASSUME NEW s \in Seq(Ids \cup Values), NEW j \in 1..(Len(s) + 1)
        PROVE  InsertAt(s, j, v) \in Seq(Ids \cup Values) /\ Len(InsertAt(s, j, v)) = Len(s) + 1
    BY <2>1, Inserted DEF Insertion
  <2> QED
    BY <1>3, <1>4, <2>2
<1>6. t = "child" => x \in Seq(Ids)
  <2>1. SUFFICES ASSUME t = "child" PROVE x \in Seq(Ids)
    OBVIOUS
  <2>2. nd.elem[t] \in Seq(Ids)
    BY <1>3, <2>1 DEF Elements
  <2>3. x \in Seq(Ids \cup {v})
    BY <1>4, <2>2, Inserted DEF Insertion
  <2>4. Ids \cup {v} = Ids
    BY <2>1
  <2> QED
    BY <2>3, <2>4
<1> HIDE DEF x, o, at
<1>7. [nd.elem EXCEPT ![t] = x] \in Elements
  BY <1>3, <1>5, <1>6, ElementsExcept
<1>8. w \in NodeType
  BY <1>1, <1>2, <1>7 DEF NodeType
<1>9. \A u \in Types : Len(w.elem[u]) = IF u = t THEN Len(nd.elem[u]) + 1 ELSE Len(nd.elem[u])
  BY <1>1, <1>3, <1>5 DEF Elements
<1>10. Size(w) = Size(nd) + 1
  <2>1. \A u \in Types : Len(nd.elem[u]) \in Nat
    BY ElementsOf
  <2> QED
    BY <1>9, <2>1, SizeChange
<1>11. Sized(w)
  BY <1>1, <1>2, <1>10 DEF Sized
<1>12. ASSUME WellOrdered(nd), ~OtherTypeAt(nd, t, pos) PROVE WellOrdered(w)
  <2>1. Slot(nd.order, o, t, Where(nd, pos), at)
    BY <1>12, AddedSlot DEF o, at, a
  <2>2. Ranked(nd.order, Numbers(nd)) /\ nd.order \in Seq(Entries)
    BY <1>12, WellOrderedRanked, SizeType
  <2>3. Numbers(nd) \in [Types -> Nat] /\ at <= Numbers(nd)[t]
    BY <1>2, ElementsOf
  <2>4. Ranked(o, [Numbers(nd) EXCEPT ![t] = @ + 1])
    BY <2>1, <2>2, <2>3, SlotRanked
  <2>5. Numbers(w) = [Numbers(nd) EXCEPT ![t] = @ + 1]
    BY <1>9 DEF Numbers
  <2>6. w.order = o
    BY <1>1
  <2> QED
    BY <1>8, <1>11, <2>4, <2>5, <2>6, WellOrderedRanked
<1> QED
  BY <1>8, <1>11, <1>12 DEF w

(* A right order has room for whatever is inserted, and for each element   *)
(* it has a place.                                                         *)
LEMMA WellOrderedInsertable ==
  ASSUME NEW nd \in NodeType, WellOrdered(nd), NEW t \in Types, NEW pos \in Int
  PROVE  Insertable(nd, t, pos)
BY AddedAnywhere DEF Insertable, WellOrdered, Sized

-----------------------------------------------------------------------------
(* Removal: removeOrderElement.                                            *)

LEMMA PositionFound ==
  ASSUME NEW nd \in NodeType, NEW t \in Types, NEW i, Found(nd, t, i)
  PROVE  /\ findPosition(nd, t, i) \in 0..(Len(nd.order) - 1)
         /\ nd.order[findPosition(nd, t, i) + 1] = Entry(t, i)
<1> DEFINE o == nd.order
           S == {k \in 1..Len(o) : o[k] = Entry(t, i)}
           P(k) == o[k] = Entry(t, i) /\ \A l \in 1..(k - 1) : o[l] # Entry(t, i)
           c == CHOOSE k \in 1..Len(o) : P(k)
<1>1. Len(o) \in Nat
  BY SizeType
<1>2. S \subseteq Nat /\ S # {}
  BY DEF Found
<1>3. First(S) \in S /\ \A l \in S : First(S) <= l
  BY <1>2, FirstOf
<1>4. First(S) \in 1..Len(o) /\ P(First(S))
  <2>1. First(S) \in 1..Len(o) /\ o[First(S)] = Entry(t, i)
    BY <1>3
  <2>2. ASSUME NEW l \in 1..(First(S) - 1), o[l] = Entry(t, i) PROVE FALSE
    <3>1. l \in 1..Len(o) /\ l < First(S) /\ l \in Int
      BY <1>1, <2>1
    <3>2. First(S) <= l /\ First(S) \in Int
      BY <1>3, <2>2, <3>1
    <3> HIDE DEF S
    <3> QED
      BY <3>1, <3>2
  <2> QED
    BY <2>1, <2>2
<1>5. c \in 1..Len(o) /\ P(c)
  BY <1>4
<1>6. findPosition(nd, t, i) = c - 1
  BY DEF findPosition
<1> HIDE DEF c
<1>7. c - 1 \in 0..(Len(o) - 1) /\ (c - 1) + 1 = c
  BY <1>1, <1>5
<1> QED
  BY <1>5, <1>6, <1>7

LEMMA LoweredOrder ==
  ASSUME NEW o \in Seq(Entries), NEW p \in 0..(Len(o) - 1), NEW t \in Types
  PROVE  /\ Lowered(o, p, t) \in Seq(Entries) /\ Len(Lowered(o, p, t)) = Len(o) - 1
         /\ \A k \in 1..(Len(o) - 1) :
              Lowered(o, p, t)[k] =
                IF k <= p THEN o[k]
                ELSE IF TypeOf(o[k + 1]) = t THEN Entry(t, IndexOf(o[k + 1]) - 1)
                ELSE o[k + 1]
<1> DEFINE e(k) == IF k <= p THEN o[k]
                   ELSE IF TypeOf(o[k + 1]) = t THEN Entry(t, IndexOf(o[k + 1]) - 1)
                   ELSE o[k + 1]
<1>1. Len(o) \in Nat /\ Len(o) - 1 \in Nat
  OBVIOUS
<1>2. ASSUME NEW k \in 1..(Len(o) - 1) PROVE e(k) \in Entries
  <2>1. o[k] \in Entries /\ o[k + 1] \in Entries /\ IndexOf(o[k + 1]) \in Int
    BY <1>1, EntryParts
  <2>2. Entry(t, IndexOf(o[k + 1]) - 1) \in Entries
    BY <2>1 DEF Entry, Entries
  <2> QED
    BY <2>1, <2>2
<1>3. Lowered(o, p, t) = [k \in 1..(Len(o) - 1) |-> e(k)]
  BY DEF Lowered
<1> HIDE DEF e
<1>4. Lowered(o, p, t) \in Seq(Entries) /\ Len(Lowered(o, p, t)) = Len(o) - 1
  BY <1>1, <1>2, <1>3, IsASeq
<1> QED
  BY <1>3, <1>4 DEF e

LEMMA LoweredSlot ==
  ASSUME NEW o \in Seq(Entries), NEW p \in 0..(Len(o) - 1), NEW t \in Types, NEW i,
         o[p + 1] = Entry(t, i), NEW n, Ranked(o, n)
  PROVE  Slot(Lowered(o, p, t), o, t, p + 1, i)
<1> DEFINE w == Lowered(o, p, t)
<1>1. Len(o) \in Nat /\ p \in Nat /\ p + 1 \in 1..Len(o) /\ (p + 1) - 1 = p
  OBVIOUS
<1>2. \A k \in 1..Len(o) : o[k] \in Entries /\ IndexOf(o[k]) \in Int /\ IndexOf(o[k]) >= 0
  BY EntryParts DEF Ranked
<1>3. TypeOf(o[p + 1]) = t /\ IndexOf(o[p + 1]) = i /\ i \in Nat
  BY <1>1, <1>2, EntryOf
<1>4. /\ w \in Seq(Entries) /\ Len(w) = Len(o) - 1
      /\ \A k \in 1..(Len(o) - 1) :
           w[k] = IF k <= p THEN o[k]
                  ELSE IF TypeOf(o[k + 1]) = t THEN Entry(t, IndexOf(o[k + 1]) - 1)
                  ELSE o[k + 1]
  BY <1>1, LoweredOrder
<1> HIDE DEF w
<1>5. ASSUME NEW k \in 1..p
      PROVE  o[k] = w[k] /\ (TypeOf(w[k]) = t => IndexOf(w[k]) < i)
  <2>1. k \in 1..(Len(o) - 1) /\ k <= p /\ k \in 1..Len(o) /\ k < p + 1
    BY <1>1
  <2>2. w[k] = o[k]
    BY <1>4, <2>1
  <2>3. TypeOf(o[k]) = t => IndexOf(o[k]) < i
    BY <1>1, <1>3, <2>1 DEF Ranked
  <2> QED
    BY <2>2, <2>3
<1>6. ASSUME NEW k \in (p + 1)..Len(w)
      PROVE  o[k + 1] = Up(w[k], t) /\ (TypeOf(w[k]) = t => i <= IndexOf(w[k]))
  <2>1. k \in 1..(Len(o) - 1) /\ ~(k <= p) /\ k + 1 \in 1..Len(o) /\ p + 1 < k + 1
    BY <1>1, <1>4
  <2>2. o[k + 1] \in Entries /\ IndexOf(o[k + 1]) \in Int
    BY <1>2, <2>1
  <2>3. CASE TypeOf(o[k + 1]) = t
    <3>1. w[k] = Entry(t, IndexOf(o[k + 1]) - 1)
      BY <1>4, <2>1, <2>3
    <3>2. TypeOf(w[k]) = t /\ IndexOf(w[k]) = IndexOf(o[k + 1]) - 1
      BY <3>1, EntryOf
    <3>3. (IndexOf(o[k + 1]) - 1) + 1 = IndexOf(o[k + 1])
      BY <2>2
    <3>4. Up(w[k], t) = Entry(t, IndexOf(o[k + 1]))
      BY <3>2, <3>3 DEF Up
    <3>5. o[k + 1] = Entry(t, IndexOf(o[k + 1]))
      BY <2>2, <2>3, EntryParts
    <3>6. i < IndexOf(o[k + 1])
      BY <1>1, <1>3, <2>1, <2>3 DEF Ranked
    <3>7. i <= IndexOf(w[k])
      BY <1>3, <2>2, <3>2, <3>6
    <3> QED
      BY <3>4, <3>5, <3>7
  <2>4. CASE TypeOf(o[k + 1]) # t
    <3>1. w[k] = o[k + 1]
      BY <1>4, <2>1, <2>4
    <3> QED
      BY <2>4, <3>1 DEF Up
  <2> QED
    BY <2>3, <2>4
<1>7. Len(o) = Len(w) + 1 /\ p + 1 \in 1..(Len(w) + 1)
  BY <1>1, <1>4
<1>8. Slot(w, o, t, p + 1, i)
  BY <1>1, <1>3, <1>5, <1>6, <1>7 DEF Slot
<1> QED
  BY <1>8 DEF w

LEMMA WithoutKeeps ==
  ASSUME NEW nd \in NodeType, Sized(nd), NEW t \in Types, NEW i \in 0..(Len(nd.elem[t]) - 1),
         Found(nd, t, i)
  PROVE  /\ Without(nd, t, i) \in NodeType
         /\ Sized(Without(nd, t, i))
         /\ Size(Without(nd, t, i)) = Size(nd) - 1
         /\ WellOrdered(nd) => WellOrdered(Without(nd, t, i))
<1> DEFINE p == findPosition(nd, t, i)
           o == Lowered(nd.order, p, t)
           w == Without(nd, t, i)
           x == RemoveAt(nd.elem[t], i + 1)
<1>1. w = [named |-> nd.named, parent |-> nd.parent, ref |-> nd.ref,
           elem |-> [nd.elem EXCEPT ![t] = x], order |-> o]
  BY WithoutFields
<1>2. p \in 0..(Len(nd.order) - 1) /\ nd.order[p + 1] = Entry(t, i)
  BY PositionFound
<1>3. /\ nd.elem[t] \in Seq(Ids \cup Values) /\ nd.elem \in Elements /\ Len(nd.elem[t]) \in Nat
      /\ nd.order \in Seq(Entries) /\ Len(nd.order) \in Nat
  BY ElementsOf, SizeType DEF NodeType
<1> HIDE DEF p, w
<1>4. o \in Seq(Entries) /\ Len(o) = Len(nd.order) - 1
  BY <1>2, <1>3, LoweredOrder
<1>5. i + 1 \in 1..Len(nd.elem[t])
  BY <1>3
<1>6. x \in Seq(Ids \cup Values) /\ Len(x) = Len(nd.elem[t]) - 1
  BY <1>3, <1>5, Removed
<1>7. t = "child" => x \in Seq(Ids)
  BY <1>3, <1>5, Removed DEF Elements
<1>8. Slot(o, nd.order, t, p + 1, i) \/ ~Ranked(nd.order, Numbers(nd))
  BY <1>2, <1>3, LoweredSlot
<1> HIDE DEF x, o
<1>9. [nd.elem EXCEPT ![t] = x] \in Elements
  BY <1>3, <1>6, <1>7, ElementsExcept
<1>10. w \in NodeType
  BY <1>1, <1>4, <1>9 DEF NodeType
<1>11. \A u \in Types : Len(w.elem[u]) = IF u = t THEN Len(nd.elem[u]) + (-1) ELSE Len(nd.elem[u])
  BY <1>1, <1>3, <1>6 DEF Elements
<1>12. Size(w) = Size(nd) + (-1)
  <2>1. \A u \in Types : Len(nd.elem[u]) \in Nat
    BY ElementsOf
  <2> QED
    BY <1>11, <2>1, SizeChange
<1>13. Sized(w) /\ Size(w) = Size(nd) - 1
  BY <1>1, <1>3, <1>4, <1>12, SizeType DEF Sized
<1>14. ASSUME WellOrdered(nd) PROVE WellOrdered(w)
  <2>1. Ranked(nd.order, Numbers(nd))
    BY <1>14, WellOrderedRanked
  <2>2. Slot(o, nd.order, t, p + 1, i)
    BY <1>8, <2>1
  <2>3. Numbers(nd) \in [Types -> Nat]
    BY ElementsOf
  <2>4. Ranked(o, [Numbers(nd) EXCEPT ![t] = @ - 1])
    BY <1>4, <2>1, <2>2, <2>3, SlotUnranked
  <2>5. Numbers(w) = [Numbers(nd) EXCEPT ![t] = @ - 1]
    <3>1. \A u \in Types : Len(nd.elem[u]) \in Nat
      BY ElementsOf
    <3> QED
      BY <1>11, <3>1 DEF Numbers
  <2>6. w.order = o
    BY <1>1
  <2> QED
    BY <1>10, <1>13, <2>4, <2>5, <2>6, WellOrderedRanked
<1> QED
  BY <1>10, <1>13, <1>14 DEF w

-----------------------------------------------------------------------------
(* What an insertion does to the content.                                  *)

LEMMA PlacedIs ==
  ASSUME NEW S, NEW s \in Seq(S), NEW e, NEW pos \in Int,
         NEW q, q = IF 0 <= pos /\ pos < Len(s) THEN pos + 1 ELSE Len(s) + 1
  PROVE  Insertion(S, s, q, e, Placed(s, pos, e))
<1>1. Len(s) \in Nat /\ s \in Seq(S \cup {e}) /\ e \in S \cup {e}
  OBVIOUS
<1>2. CASE 0 <= pos /\ pos < Len(s)
  <2>1. q = pos + 1 /\ pos \in 0..(Len(s) - 1) /\ q \in 1..(Len(s) + 1)
    BY <1>1, <1>2
  <2>2. Placed(s, pos, e) = InsertAt(s, q, e)
    BY <2>1 DEF Placed
  <2> QED
    BY <2>1, <2>2, Inserted
<1>3. CASE ~(0 <= pos /\ pos < Len(s))
  <2>1. Placed(s, pos, e) = Append(s, e)
    BY <1>1, <1>3 DEF Placed
  <2>2. q = Len(s) + 1 /\ q - 1 = Len(s) /\ q..Len(s) = {}
    BY <1>1, <1>3
  <2>3. /\ Append(s, e) \in Seq(S \cup {e}) /\ Len(Append(s, e)) = Len(s) + 1
        /\ \A k \in 1..Len(s) : Append(s, e)[k] = s[k]
        /\ Append(s, e)[Len(s) + 1] = e
    BY <1>1, AppendProperties
  <2> QED
    BY <2>1, <2>2, <2>3 DEF Insertion
<1> QED
  BY <1>2, <1>3

LEMMA ContentWith ==
  ASSUME NEW nd \in NodeType, WellOrdered(nd), NEW t \in Types, NEW v, NEW pos \in Int,
         ~OtherTypeAt(nd, t, pos)
  PROVE  Content(With(nd, t, v, pos)) = Placed(Content(nd), pos, <<t, v>>)
<1> DEFINE a == addToOrder(nd, t, pos)
           at == a.at
           o == nd.order
           o2 == a.order
           w == With(nd, t, v, pos)
           s == nd.elem[t]
           x == InsertAt(s, at + 1, v)
           q == Where(nd, pos)
           c == Content(nd)
           e == <<t, v>>
<1>1. /\ Slot(o, o2, t, q, at) /\ at \in 0..Len(s)
  BY AddedSlot
<1>2. o \in Seq(Entries) /\ Len(o) \in Nat /\ s \in Seq(Ids \cup Values) /\ Len(s) \in Nat
      /\ Len(o) = Size(nd)
  BY SizeType, ElementsOf DEF WellOrdered
<1>3. nd.elem \in [Types -> Seq(Ids \cup Values)]
  BY DEF NodeType, Elements
<1>4. w.order = o2 /\ w.elem = [nd.elem EXCEPT ![t] = x]
  BY WithFields
<1>5. w.elem[t] = x /\ \A u \in Types \ {t} : w.elem[u] = nd.elem[u]
  BY <1>3, <1>4
<1> HIDE DEF w, a, at, o2, q, s
<1>6. /\ x[at + 1] = v
      /\ \A k \in 1..at : x[k] = s[k]
      /\ \A k \in (at + 1)..Len(s) : x[k + 1] = s[k]
  <2>1. at + 1 \in 1..(Len(s) + 1) /\ (at + 1) - 1 = at
    BY <1>1, <1>2
  <2>2. Insertion(Ids \cup Values, s, at + 1, v, x)
    BY <1>2, <2>1, Inserted
  <2> QED
    BY <2>1, <2>2 DEF Insertion
<1> HIDE DEF x
<1>7. SlotParts(o, o2, t, q, at)
  BY <1>1, <1>2, SlotPlaces
<1>8. /\ Len(o2) = Len(o) + 1 /\ q \in 1..(Len(o) + 1) /\ o2[q] = Entry(t, at) /\ at \in Nat
      /\ \A k \in 1..(q - 1) : o2[k] = o[k] /\ (TypeOf(o[k]) = t => IndexOf(o[k]) < at)
      /\ \A k \in q..Len(o) : o2[k + 1] = Up(o[k], t) /\ (TypeOf(o[k]) = t => at <= IndexOf(o[k]))
  BY <1>1 DEF Slot
<1>9. \A k \in 1..Len(o) : /\ o[k] \in Entries /\ TypeOf(o[k]) \in Types
                           /\ IndexOf(o[k]) \in 0..(Len(nd.elem[TypeOf(o[k])]) - 1)
  BY <1>2, EntryParts, SMTT(30) DEF WellOrdered
<1> DEFINE At(n, k) == <<TypeOf(n.order[k]), n.elem[TypeOf(n.order[k])][IndexOf(n.order[k]) + 1]>>
<1>10. ASSUME NEW k \in 1..(q - 1) PROVE At(w, k) = At(nd, k)
  <2>1. k \in 1..Len(o) /\ w.order[k] = o[k]
    BY <1>2, <1>4, <1>8
  <2>2. CASE TypeOf(o[k]) = t
    <3>1. IndexOf(o[k]) + 1 \in 1..at
      BY <1>2, <1>8, <1>9, <2>1, <2>2 DEF s
    <3>2. x[IndexOf(o[k]) + 1] = s[IndexOf(o[k]) + 1]
      BY <1>6, <3>1
    <3> QED
      BY <1>5, <2>1, <2>2, <3>2 DEF s
  <2>3. CASE TypeOf(o[k]) # t
    <3>1. w.elem[TypeOf(o[k])] = nd.elem[TypeOf(o[k])]
      BY <1>5, <1>9, <2>1, <2>3
    <3> QED
      BY <2>1, <3>1
  <2> QED
    BY <2>2, <2>3
<1>11. At(w, q) = e
  BY <1>4, <1>5, <1>6, <1>8, EntryOf
<1>12. ASSUME NEW k \in q..Len(o) PROVE At(w, k + 1) = At(nd, k)
  <2>1. k \in 1..Len(o) /\ w.order[k + 1] = Up(o[k], t)
    BY <1>2, <1>4, <1>8
  <2>2. o[k] \in Entries
    BY <1>9, <2>1
  <2>3. CASE TypeOf(o[k]) = t
    <3>1. IndexOf(o[k]) \in 0..(Len(s) - 1) /\ at <= IndexOf(o[k])
      BY <1>8, <1>9, <2>1, <2>3 DEF s
    <3>2. IndexOf(o[k]) + 1 \in (at + 1)..Len(s)
      BY <1>2, <1>8, <3>1
    <3>3. x[(IndexOf(o[k]) + 1) + 1] = s[IndexOf(o[k]) + 1]
      BY <1>6, <3>2
    <3>4. TypeOf(w.order[k + 1]) = t /\ IndexOf(w.order[k + 1]) = IndexOf(o[k]) + 1
      BY <2>1, <2>2, <2>3, UpParts
    <3> QED
      BY <1>5, <2>3, <3>3, <3>4 DEF s
  <2>4. CASE TypeOf(o[k]) # t
    <3>1. w.elem[TypeOf(o[k])] = nd.elem[TypeOf(o[k])]
      BY <1>5, <1>9, <2>1, <2>4
    <3>2. w.order[k + 1] = o[k]
      BY <2>1, <2>4 DEF Up
    <3> QED
      BY <3>1, <3>2
  <2> QED
    BY <2>3, <2>4
<1> DEFINE S == {At(nd, k) : k \in 1..Len(o)}
           V == S \cup {e}
           p == Placed(c, pos, e)
<1>13. c = [k \in 1..Len(o) |-> At(nd, k)] /\ Content(w) = [k \in 1..Len(o2) |-> At(w, k)]
  BY <1>4 DEF Content
<1> HIDE DEF At, e, c
<1>14. \A k \in 1..Len(o) : At(nd, k) \in S
  OBVIOUS
<1> HIDE DEF S
<1>15. c \in Seq(S) /\ Len(c) = Len(o) /\ \A k \in 1..Len(o) : c[k] = At(nd, k)
  BY <1>2, <1>13, <1>14, IsASeq
<1>16. q = IF 0 <= pos /\ pos < Len(c) THEN pos + 1 ELSE Len(c) + 1
  BY <1>2, <1>15 DEF q, Where, Inside
<1>17. /\ p \in Seq(V) /\ Len(p) = Len(o) + 1 /\ p[q] = e
       /\ \A k \in 1..(q - 1) : p[k] = c[k]
       /\ \A k \in q..Len(o) : p[k + 1] = c[k]
  <2>1. Insertion(S, c, q, e, p)
    BY <1>15, <1>16, PlacedIs
  <2> QED
    BY <1>15, <2>1 DEF Insertion
<1> HIDE DEF p
<1>18. ASSUME NEW k \in 1..Len(o2) PROVE At(w, k) = p[k] /\ At(w, k) \in V
  <2>1. CASE k \in 1..(q - 1)
    <3>1. k \in 1..Len(o)
      BY <1>2, <1>8, <2>1
    <3> QED
      BY <1>10, <1>14, <1>15, <1>17, <2>1, <3>1
  <2>2. CASE k = q
    BY <1>11, <1>17, <2>2
  <2>3. ASSUME NEW j \in q..Len(o), k = j + 1 PROVE At(w, k) = p[k] /\ At(w, k) \in V
    <3>1. j \in 1..Len(o)
      BY <1>2, <1>8
    <3> QED
      BY <1>12, <1>14, <1>15, <1>17, <2>3, <3>1
  <2>4. k \in 1..(q - 1) \/ k = q \/ (k - 1 \in q..Len(o) /\ (k - 1) + 1 = k)
    BY <1>7 DEF SlotParts
  <2> QED
    BY <2>1, <2>2, <2>3, <2>4
<1>19. Content(w) \in Seq(V) /\ Len(Content(w)) = Len(o2) /\ Len(o2) \in Nat
       /\ \A k \in 1..Len(o2) : Content(w)[k] = At(w, k)
  <2>1. Len(o2) \in Nat
    BY <1>2, <1>8
  <2> QED
    BY <1>13, <1>18, <2>1, IsASeq
<1>20. Content(w) = p
  BY <1>8, <1>17, <1>18, <1>19, SeqEqual
<1> QED
  BY <1>20 DEF w, p, c, e

-----------------------------------------------------------------------------
(* Trees of nodes and their counts.                                        *)

Shape(H) == H \in [Ids -> NodeType] /\ \A x \in Ids : Sized(H[x])

Links(H) == \A p, c \in Ids : c \in Kids(H, p) <=> H[c].parent = p

Once(H) ==
  \A p \in Ids : \A k, l \in 1..Len(H[p].elem["child"]) :
    H[p].elem["child"][k] = H[p].elem["child"][l] => k = l

NoCycle(H) == \A S \in SUBSET Ids : S # {} => \E y \in S : H[y].parent \notin S

Holders(dd, x) == {h \in Handles : dd[h] = x}

Held(H, x) == IF H[x].parent = Null THEN 0 ELSE 1

Counted(H, dd) == \A x \in Ids : H[x].ref = Cardinality(Holders(dd, x)) + Held(H, x)

(* Only the memory of x may be in use though nobody counts it.             *)
FreedBut(H, x) == \A y \in Ids \ {x} : H[y].ref = 0 => H[y] = FreeNode

Handling(dd) == dd \in [Handles -> Ids \cup {Null}]

Sound(H, dd) ==
  Shape(H) /\ Links(H) /\ Once(H) /\ NoCycle(H) /\ Handling(dd) /\ Counted(H, dd)
  /\ FreedBut(H, Null)

LEMMA HeapTypes ==
  ASSUME NEW H, Shape(H), NEW x \in Ids
  PROVE  /\ H[x] \in NodeType /\ Sized(H[x]) /\ H[x].parent \in Ids \cup {Null} /\ H[x].ref \in Nat
         /\ H[x].elem["child"] \in Seq(Ids) /\ H[x].named \in BOOLEAN
         /\ H[x].elem \in Elements /\ H[x].order \in Seq(Entries)
         /\ Kids(H, x) \subseteq Ids
<1>1. H[x] \in NodeType /\ Sized(H[x])
  BY DEF Shape
<1>2. H[x].elem["child"] \in Seq(Ids)
  BY <1>1 DEF NodeType, Elements
<1>3. Kids(H, x) \subseteq Ids
  BY <1>2 DEF Kids
<1> QED
  BY <1>1, <1>2, <1>3 DEF NodeType

LEMMA FreeNodeType ==
  /\ FreeNode \in NodeType /\ Sized(FreeNode) /\ WellOrdered(FreeNode)
  /\ FreeNode.ref = 0 /\ FreeNode.parent = Null /\ FreeNode.order = <<>>
  /\ Len(FreeNode.elem["child"]) = 0
<1> DEFINE e == [t \in Types |-> <<>>]
<1>1. "child" \in Types /\ "text" \in Types /\ "clear" \in Types
  BY DEF Types
<1>2. e \in Elements
  <2>1. <<>> \in Seq(Ids \cup Values) /\ <<>> \in Seq(Ids)
    OBVIOUS
  <2>2. e \in [Types -> Seq(Ids \cup Values)] /\ e["child"] = <<>>
    BY <1>1, <2>1
  <2> QED
    BY <2>1, <2>2 DEF Elements
<1>3. FreeNode = [named |-> FALSE, parent |-> Null, ref |-> 0, elem |-> e, order |-> <<>>]
  BY DEF FreeNode
<1>4. \A t \in Types : Len(e[t]) = 0
  OBVIOUS
<1> HIDE DEF e
<1>5. FreeNode \in NodeType
  BY <1>2, <1>3 DEF NodeType
<1>6. Size(FreeNode) = 0
  <2>1. FreeNode.elem = e
    BY <1>3
  <2> HIDE DEF FreeNode
  <2>2. /\ Len(FreeNode.elem["child"]) = 0 /\ Len(FreeNode.elem["text"]) = 0
        /\ Len(FreeNode.elem["clear"]) = 0
    BY <1>1, <1>4, <2>1
  <2> QED
    BY <2>2 DEF Size
<1>7. Sized(FreeNode)
  BY <1>3, <1>6 DEF Sized
<1>8. WellOrdered(FreeNode)
  <2>1. Len(FreeNode.order) = 0 /\ 1..Len(FreeNode.order) = {}
    BY <1>3
  <2>2. \A t \in Types : Len(FreeNode.elem[t]) = 0
    BY <1>3, <1>4
  <2>3. \A t \in Types : 0..(Len(FreeNode.elem[t]) - 1) = {}
    BY <2>2
  <2>4. Len(FreeNode.order) = Size(FreeNode)
    BY <1>7 DEF Sized
  <2> HIDE DEF FreeNode
  <2> QED
    BY <2>1, <2>3, <2>4 DEF WellOrdered
<1> QED
  BY <1>1, <1>3, <1>4, <1>5, <1>7, <1>8

LEMMA NoKids ==
  ASSUME NEW H, NEW x, H[x] = FreeNode
  PROVE  Kids(H, x) = {}
BY FreeNodeType DEF Kids

(* A closure holds its root, is closed, and is the least such set.         *)
LEMMA ClosureIs ==
  ASSUME NEW H, Shape(H), NEW x \in Ids, NEW A
  PROVE  /\ Closure(H, x, A) \subseteq Ids /\ Closed(H, x, A, Closure(H, x, A))
         /\ \A S \in SUBSET Ids : Closed(H, x, A, S) => Closure(H, x, A) \subseteq S
<1> DEFINE C == Closure(H, x, A)
<1>1. C \subseteq Ids /\ x \in C
  BY DEF Closure, Closed
<1>2. \A S \in SUBSET Ids : Closed(H, x, A, S) => C \subseteq S
  BY DEF Closure
<1>3. ASSUME NEW z \in C, NEW y \in A \cap Kids(H, z) PROVE y \in C
  <2>1. y \in Ids
    BY <1>1, <1>3, HeapTypes
  <2>2. ASSUME NEW S \in SUBSET Ids, Closed(H, x, A, S) PROVE y \in S
    <3>1. z \in S
      BY <1>2, <2>2
    <3> QED
      BY <1>3, <2>2, <3>1 DEF Closed
  <2> QED
    BY <2>1, <2>2 DEF Closure
<1> QED
  BY <1>1, <1>2, <1>3 DEF Closed

(* All but the root have their parent in it, and are in A.                 *)
LEMMA ClosureParents ==
  ASSUME NEW H, Shape(H), Links(H), NEW x \in Ids, NEW A, NEW y \in Closure(H, x, A), y # x
  PROVE  y \in A /\ H[y].parent \in Closure(H, x, A)
<1> DEFINE C == Closure(H, x, A)
           S == {z \in C : z = x \/ (z \in A /\ H[z].parent \in C)}
<1>1. C \subseteq Ids /\ Closed(H, x, A, C)
  BY ClosureIs
<1>2. S \in SUBSET Ids /\ x \in S
  BY <1>1 DEF Closed
<1>3. ASSUME NEW z \in S, NEW w \in A \cap Kids(H, z) PROVE w \in S
  <2>1. z \in C /\ z \in Ids /\ w \in C /\ w \in Ids
    BY <1>1, <1>3 DEF Closed
  <2>2. H[w].parent = z
    BY <1>3, <2>1 DEF Links
  <2> QED
    BY <1>3, <2>1, <2>2
<1>4. Closed(H, x, A, S)
  BY <1>2, <1>3 DEF Closed
<1> HIDE DEF S
<1>5. C \subseteq S
  BY <1>2, <1>4, ClosureIs
<1> QED
  BY <1>5 DEF S

(* A node is not below itself.                                             *)
LEMMA AboveSubtree ==
  ASSUME NEW H, Shape(H), Links(H), NoCycle(H), NEW x \in Ids
  PROVE  H[x].parent \notin Subtree(H, x)
<1> DEFINE S == Subtree(H, x)
<1>1. S \subseteq Ids /\ x \in S
  BY ClosureIs DEF Subtree, Closed
<1>2. \A y \in S : y # x => H[y].parent \in S
  BY ClosureParents DEF Subtree
<1> HIDE DEF S
<1>3. PICK y \in S : H[y].parent \notin S
  BY <1>1 DEF NoCycle
<1> QED
  BY <1>2, <1>3 DEF S

(* What handles count when one of them is assigned.                        *)
LEMMA HoldersMove ==
  ASSUME NEW dd, Handling(dd), NEW h \in Handles, NEW x \in Ids \cup {Null}, NEW y
  PROVE  LET dx == [dd EXCEPT ![h] = x]
         IN  /\ Handling(dx)
             /\ Cardinality(Holders(dd, y)) \in Nat /\ Cardinality(Holders(dx, y)) \in Nat
             /\ Cardinality(Holders(dx, y)) + (IF dd[h] = y THEN 1 ELSE 0)
                  = Cardinality(Holders(dd, y)) + (IF x = y THEN 1 ELSE 0)
<1> DEFINE dx == [dd EXCEPT ![h] = x]
           O == Holders(dd, y)
           N == Holders(dx, y)
           R == O \ {h}
<1>1. Handling(dx) /\ dx[h] = x /\ \A g \in Handles \ {h} : dx[g] = dd[g]
  BY DEF Handling
<1>2. IsFiniteSet(O) /\ Cardinality(O) \in Nat
  BY HandlesAssumption, FS_Subset, FS_CardinalityType DEF Holders
<1> HIDE DEF dx
<1>3. h \in O <=> dd[h] = y
  BY DEF Holders
<1>4. N = IF x = y THEN R \cup {h} ELSE R
  BY <1>1 DEF Holders
<1> HIDE DEF O, N
<1>5. /\ IsFiniteSet(R) /\ Cardinality(R) \in Nat
      /\ Cardinality(O) = IF dd[h] = y THEN Cardinality(R) + 1 ELSE Cardinality(R)
  <2>1. /\ IsFiniteSet(R)
        /\ Cardinality(R) = IF h \in O THEN Cardinality(O) - 1 ELSE Cardinality(O)
    BY <1>2, FS_RemoveElement
  <2> HIDE DEF R
  <2>2. Cardinality(R) \in Nat
    BY <2>1, FS_CardinalityType
  <2> QED
    BY <1>2, <1>3, <2>1, <2>2
<1>6. h \notin R
  OBVIOUS
<1> HIDE DEF R
<1>7. Cardinality(N) = IF x = y THEN Cardinality(R) + 1 ELSE Cardinality(R)
  BY <1>4, <1>5, <1>6, FS_AddElement
<1>8. Cardinality(N) \in Nat
  BY <1>5, <1>7
<1> QED
  BY <1>1, <1>2, <1>5, <1>7, <1>8 DEF dx, O, N
(* H2 has the arrays of H, or those of them that are not freed.            *)
Alike(H, H2) == \A y \in Ids : H2[y].elem = H[y].elem /\ H2[y].order = H[y].order

Keeps(H, H2) ==
  \A y \in Ids : \/ H2[y] = FreeNode
                 \/ H2[y].elem = H[y].elem /\ H2[y].order = H[y].order

LEMMA SameLinks ==
  ASSUME NEW H, Shape(H), NEW H2, H2 \in [Ids -> NodeType],
         \A y \in Ids : /\ H2[y].elem = H[y].elem /\ H2[y].order = H[y].order
                        /\ H2[y].parent = H[y].parent
  PROVE  /\ Shape(H2) /\ Alike(H, H2)
         /\ Links(H) => Links(H2)
         /\ Once(H) => Once(H2)
         /\ NoCycle(H) => NoCycle(H2)
<1>1. \A y \in Ids : Kids(H2, y) = Kids(H, y)
  BY DEF Kids
<1>2. \A y \in Ids : Sized(H2[y])
  BY DEF Shape, Sized, Size
<1>3. Shape(H2) /\ Alike(H, H2)
  BY <1>2 DEF Shape, Alike
<1>4. Links(H) => Links(H2)
  BY <1>1 DEF Links
<1>5. Once(H) => Once(H2)
  BY DEF Once
<1>6. NoCycle(H) => NoCycle(H2)
  BY DEF NoCycle
<1> QED
  BY <1>3, <1>4, <1>5, <1>6

LEMMA SameOrder ==
  ASSUME NEW n, NEW n2, n2.elem = n.elem, n2.order = n.order, WellOrdered(n)
  PROVE  WellOrdered(n2)
BY DEF WellOrdered, Size, Found

(* The counts, with one handle's hold of o not yet let go.                 *)
Over(H, dd, o) ==
  \A y \in Ids :
    H[y].ref = Cardinality(Holders(dd, y)) + Held(H, y) + (IF o = y THEN 1 ELSE 0)

LEMMA RetainOver ==
  ASSUME NEW H, Shape(H), Links(H), Once(H), NoCycle(H),
         NEW dd, Handling(dd), Counted(H, dd),
         NEW x \in Ids \cup {Null}, FreedBut(H, x), NEW h \in Handles
  PROVE  LET R == Retain(H, x)
             dx == [dd EXCEPT ![h] = x]
         IN  /\ Shape(R) /\ Links(R) /\ Once(R) /\ NoCycle(R) /\ FreedBut(R, Null)
             /\ Handling(dx) /\ Over(R, dx, dd[h]) /\ Alike(H, R)
<1> DEFINE R == Retain(H, x)
           dx == [dd EXCEPT ![h] = x]
<1>1. R \in [Ids -> NodeType]
  <2>1. ASSUME x \in Ids PROVE [H[x] EXCEPT !.ref = @ + 1] \in NodeType
    BY <2>1, SMTT(30) DEF Shape, NodeType
  <2> QED
    BY <2>1 DEF Retain, Shape
<1>2. \A y \in Ids : /\ R[y].elem = H[y].elem /\ R[y].order = H[y].order
                     /\ R[y].parent = H[y].parent
                     /\ R[y].ref = IF x = y THEN H[y].ref + 1 ELSE H[y].ref
                     /\ x # y => R[y] = H[y]
  <2>1. \A y \in Ids : H[y] \in NodeType
    BY DEF Shape
  <2> QED
    BY <2>1, NullAssumption DEF Retain, Shape, NodeType
<1> HIDE DEF R
<1>3. Shape(R) /\ Links(R) /\ Once(R) /\ NoCycle(R) /\ Alike(H, R)
  BY <1>1, <1>2, SameLinks
<1>4. FreedBut(R, Null)
  <2>1. ASSUME NEW y \in Ids, R[y].ref = 0 PROVE R[y] = FreeNode
    <3>1. x # y
      BY <1>2, <2>1, HeapTypes
    <3> QED
      BY <1>2, <2>1, <3>1 DEF FreedBut
  <2> QED
    BY <2>1 DEF FreedBut
<1>5. Handling(dx)
  BY HoldersMove
<1>6. ASSUME NEW y \in Ids
      PROVE  R[y].ref = Cardinality(Holders(dx, y)) + Held(R, y) + (IF dd[h] = y THEN 1 ELSE 0)
  <2>1. /\ Cardinality(Holders(dd, y)) \in Nat /\ Cardinality(Holders(dx, y)) \in Nat
        /\ Cardinality(Holders(dx, y)) + (IF dd[h] = y THEN 1 ELSE 0)
             = Cardinality(Holders(dd, y)) + (IF x = y THEN 1 ELSE 0)
    BY HoldersMove
  <2>2. H[y].ref = Cardinality(Holders(dd, y)) + Held(H, y)
    BY DEF Counted
  <2>3. Held(R, y) = Held(H, y) /\ Held(H, y) \in Nat
    BY <1>2 DEF Held
  <2> QED
    BY <1>2, <2>1, <2>2, <2>3
<1>7. Over(R, dx, dd[h])
  BY <1>6 DEF Over
<1> QED
  BY <1>3, <1>4, <1>5, <1>7 DEF R

(* What goes with the last hold of o: its nodes have no handle, and their  *)
(* parents go too.                                                         *)
LEMMA DyingAre ==
  ASSUME NEW H, Shape(H), Links(H), NEW dd, Handling(dd), NEW o \in Ids, Over(H, dd, o),
         ~(H[o].ref > 1), NEW y \in Dying(H, o)
  PROVE  /\ y \in Ids /\ Cardinality(Holders(dd, y)) = 0
         /\ y # o => H[y].parent \in Dying(H, o)
         /\ y = o => H[y].parent = Null
<1> DEFINE A == {c \in Ids : H[c].ref = 1}
<1>1. Dying(H, o) = Closure(H, o, A)
  BY DEF Dying
<1>2. y \in Ids
  BY <1>1, ClosureIs
<1>3. y # o => H[y].ref = 1 /\ H[y].parent \in Dying(H, o) /\ Dying(H, o) \subseteq Ids
  BY <1>1, ClosureParents, ClosureIs
<1>4. Cardinality(Holders(dd, y)) \in Nat
  BY HandlesAssumption, FS_Subset, FS_CardinalityType DEF Holders
<1>5. /\ H[y].ref = Cardinality(Holders(dd, y)) + Held(H, y) + (IF o = y THEN 1 ELSE 0)
      /\ H[y].ref \in Nat
  BY <1>2, HeapTypes DEF Over
<1>6. CASE y = o
  BY <1>4, <1>5, <1>6 DEF Held
<1>7. CASE y # o
  <2>1. H[y].parent # Null
    BY <1>3, <1>7, NullAssumption
  <2> QED
    BY <1>2, <1>3, <1>4, <1>5, <1>7, <2>1 DEF Held
<1> QED
  BY <1>2, <1>6, <1>7

LEMMA ReleaseFields ==
  ASSUME NEW H, Shape(H), NEW o \in Ids, ~(H[o].ref > 1), NEW y \in Ids
  PROVE  Release(H, o)[y] = IF y \in Dying(H, o) THEN FreeNode
                            ELSE IF y \in Orphans(H, Dying(H, o))
                              THEN [H[y] EXCEPT !.ref = @ - 1, !.parent = Null]
                            ELSE H[y]
BY NullAssumption DEF Release
LEMMA OrphansAre ==
  ASSUME NEW H, Shape(H), Links(H), NEW dd, Handling(dd), NEW o \in Ids, Over(H, dd, o),
         NEW y \in Ids, y \notin Dying(H, o)
  PROVE  /\ y # o
         /\ y \in Orphans(H, Dying(H, o)) <=> H[y].parent \in Dying(H, o)
         /\ H[y].parent \in Dying(H, o) => H[y].ref > 1
<1> DEFINE A == {c \in Ids : H[c].ref = 1}
           D == Dying(H, o)
<1>1. D \subseteq Ids /\ Closed(H, o, A, D)
  BY ClosureIs DEF Dying
<1> HIDE DEF D, A
<1>2. y # o
  BY <1>1 DEF Closed, D
<1>3. y \in Orphans(H, D) <=> H[y].parent \in D
  <2>1. \A z \in D : z \in Ids /\ (y \in Kids(H, z) <=> H[y].parent = z)
    BY <1>1 DEF Links
  <2>2. y \notin D
    BY DEF D
  <2>3. Orphans(H, D) = (UNION {Kids(H, z) : z \in D}) \ D
    BY DEF Orphans
  <2>4. y \in Orphans(H, D) <=> \E z \in D : y \in Kids(H, z)
    BY <2>2, <2>3
  <2> QED
    BY <2>1, <2>4
<1>4. ASSUME H[y].parent \in D PROVE H[y].ref > 1
  <2>1. y \in Kids(H, H[y].parent)
    BY <1>1, <1>4 DEF Links
  <2>2. y \notin A
    BY <1>1, <1>4, <2>1 DEF Closed, D
  <2>3. H[y].ref # 1
    BY <2>2 DEF A
  <2>4. Cardinality(Holders(dd, y)) \in Nat
    BY HandlesAssumption, FS_Subset, FS_CardinalityType DEF Holders
  <2>5. H[y].parent # Null
    BY <1>1, <1>4, NullAssumption
  <2>6. H[y].ref = Cardinality(Holders(dd, y)) + Held(H, y) + (IF o = y THEN 1 ELSE 0)
    BY DEF Over
  <2> QED
    BY <2>3, <2>4, <2>5, <2>6 DEF Held
<1> QED
  BY <1>2, <1>3, <1>4 DEF D

(* A handle or an array lets go of o: the tree and its counts are right.   *)
LEMMA ReleaseSound ==
  ASSUME NEW H, Shape(H), Links(H), Once(H), NoCycle(H), FreedBut(H, Null),
         NEW dd, Handling(dd), NEW o \in Ids \cup {Null}, Over(H, dd, o)
  PROVE  Sound(Release(H, o), dd) /\ Keeps(H, Release(H, o))
<1> DEFINE R == Release(H, o)
<1>1. \A y \in Ids : Cardinality(Holders(dd, y)) \in Nat /\ H[y] \in NodeType /\ H[y].ref \in Nat
  BY HeapTypes, HandlesAssumption, FS_Subset, FS_CardinalityType DEF Holders
<1>2. CASE o = Null
  <2>1. R = H
    BY <1>2 DEF Release
  <2>2. Counted(H, dd)
    BY <1>1, <1>2, NullAssumption DEF Over, Counted, Held
  <2> QED
    BY <2>1, <2>2 DEF Sound, Keeps
<1>3. CASE o \in Ids /\ H[o].ref > 1
  <2>1. R = [H EXCEPT ![o].ref = @ - 1]
    BY <1>3, NullAssumption DEF Release
  <2>2. R \in [Ids -> NodeType]
    <3>1. [H[o] EXCEPT !.ref = @ - 1] \in NodeType
      BY <1>1, <1>3 DEF NodeType
    <3> QED
      BY <2>1, <3>1 DEF Shape
  <2>3. \A y \in Ids : /\ R[y].elem = H[y].elem /\ R[y].order = H[y].order
                       /\ R[y].parent = H[y].parent
                       /\ R[y].ref = IF o = y THEN H[y].ref - 1 ELSE H[y].ref
                       /\ o # y => R[y] = H[y]
    BY <1>1, <2>1 DEF Shape, NodeType
  <2> HIDE DEF R
  <2>4. Shape(R) /\ Links(R) /\ Once(R) /\ NoCycle(R) /\ Keeps(H, R)
    BY <2>2, <2>3, SameLinks DEF Alike, Keeps
  <2>5. FreedBut(R, Null)
    <3>1. ASSUME NEW y \in Ids, R[y].ref = 0 PROVE R[y] = FreeNode
      <4>1. o # y
        BY <1>1, <1>3, <2>3, <3>1
      <4> QED
        BY <2>3, <3>1, <4>1, NullAssumption DEF FreedBut
    <3> QED
      BY <3>1 DEF FreedBut
  <2>6. Counted(R, dd)
    <3>1. ASSUME NEW y \in Ids PROVE R[y].ref = Cardinality(Holders(dd, y)) + Held(R, y)
      <4>1. Held(R, y) = Held(H, y) /\ Held(H, y) \in Nat
        BY <2>3 DEF Held
      <4>2. H[y].ref = Cardinality(Holders(dd, y)) + Held(H, y) + (IF o = y THEN 1 ELSE 0)
        BY DEF Over
      <4> QED
        BY <1>1, <2>3, <4>1, <4>2
    <3> QED
      BY <3>1 DEF Counted
  <2> QED
    BY <2>4, <2>5, <2>6 DEF Sound, R
<1>4. CASE o \in Ids /\ ~(H[o].ref > 1)
  <2> DEFINE D == Dying(H, o)
             O == Orphans(H, D)
             A == {c \in Ids : H[c].ref = 1}
  <2>1. /\ D \subseteq Ids /\ o \in D
        /\ \A y \in D : /\ Cardinality(Holders(dd, y)) = 0
                        /\ y # o => H[y].parent \in D
                        /\ y = o => H[y].parent = Null
    <3>1. D \subseteq Ids /\ Closed(H, o, A, D)
      BY <1>4, ClosureIs DEF Dying
    <3> QED
      BY <1>4, <3>1, DyingAre DEF Closed
  <2>2. \A y \in Ids \ D : /\ y # o
                           /\ y \in O <=> H[y].parent \in D
                           /\ H[y].parent \in D => H[y].ref > 1
    BY <1>4, OrphansAre
  <2>3. \A y \in Ids : R[y] = IF y \in D THEN FreeNode
                              ELSE IF y \in O THEN [H[y] EXCEPT !.ref = @ - 1, !.parent = Null]
                              ELSE H[y]
    BY <1>4, ReleaseFields
  <2>a. R = [y \in Ids |-> R[y]]
    BY <1>4, NullAssumption DEF Release
  <2> HIDE DEF R, D, O, A
  <2>4. \A y \in D : R[y] = FreeNode
    BY <2>1, <2>3
  <2>5. \A y \in Ids \ D :
          H[y].parent \notin D => R[y] = H[y]
    BY <2>2, <2>3
  <2>6. \A y \in Ids \ D :
          H[y].parent \in D =>
            /\ R[y] \in NodeType
            /\ R[y].elem = H[y].elem /\ R[y].order = H[y].order
            /\ R[y].parent = Null /\ R[y].ref = H[y].ref - 1
    <3>1. ASSUME NEW y \in Ids \ D, H[y].parent \in D
          PROVE  /\ R[y] \in NodeType
                 /\ R[y].elem = H[y].elem /\ R[y].order = H[y].order
                 /\ R[y].parent = Null /\ R[y].ref = H[y].ref - 1
      <4>1. R[y] = [H[y] EXCEPT !.ref = @ - 1, !.parent = Null]
        BY <2>2, <2>3, <3>1
      <4>2. H[y].ref - 1 \in Nat
        BY <1>1, <2>2, <3>1
      <4>3. H[y] \in NodeType
        BY <1>1
      <4> QED
        BY <4>1, <4>2, <4>3 DEF NodeType
    <3> QED
      BY <3>1
  <2>7. R \in [Ids -> NodeType]
    BY <1>1, <2>4, <2>5, <2>6, <2>a, FreeNodeType
  <2>8. \A y \in Ids \ D : /\ R[y].elem = H[y].elem /\ R[y].order = H[y].order
                           /\ Kids(R, y) = Kids(H, y)
                           /\ R[y].parent = IF H[y].parent \in D THEN Null ELSE H[y].parent
    BY <2>5, <2>6 DEF Kids
  <2>9. \A y \in D : Kids(R, y) = {} /\ R[y].parent = Null
    BY <2>4, NoKids, FreeNodeType
  <2>10. Shape(R)
    <3>1. \A y \in Ids : Sized(R[y])
      BY <2>4, <2>8, FreeNodeType DEF Sized, Size, Shape
    <3> QED
      BY <2>7, <3>1 DEF Shape
  <2>11. Links(R)
    <3>1. ASSUME NEW p \in Ids, NEW c \in Ids PROVE c \in Kids(R, p) <=> R[c].parent = p
      <4>1. c \in Kids(H, p) <=> H[c].parent = p
        BY DEF Links
      <4>2. CASE p \in D
        BY <2>8, <2>9, <4>2, NullAssumption
      <4>3. CASE p \notin D /\ c \in D
        BY <2>1, <2>8, <2>9, <4>1, <4>3, NullAssumption
      <4>4. CASE p \notin D /\ c \notin D
        BY <2>8, <4>1, <4>4, NullAssumption
      <4> QED
        BY <4>2, <4>3, <4>4
    <3> QED
      BY <3>1 DEF Links
  <2>12. Once(R)
    <3>1. ASSUME NEW p \in Ids, NEW k \in 1..Len(R[p].elem["child"]),
                 NEW l \in 1..Len(R[p].elem["child"]),
                 R[p].elem["child"][k] = R[p].elem["child"][l]
          PROVE  k = l
      <4>1. p \notin D
        BY <2>4, FreeNodeType
      <4> QED
        BY <2>8, <3>1, <4>1 DEF Once
    <3> QED
      BY <3>1 DEF Once
  <2>13. NoCycle(R)
    <3>1. ASSUME NEW S \in SUBSET Ids, S # {} PROVE \E y \in S : R[y].parent \notin S
      <4>1. PICK y \in S : H[y].parent \notin S
        BY <3>1 DEF NoCycle
      <4> QED
        BY <2>8, <2>9, <4>1, NullAssumption
    <3> QED
      BY <3>1 DEF NoCycle
  <2>14. Counted(R, dd)
    <3>1. ASSUME NEW y \in Ids PROVE R[y].ref = Cardinality(Holders(dd, y)) + Held(R, y)
      <4>1. CASE y \in D
        BY <2>1, <2>4, <4>1, FreeNodeType DEF Held
      <4>2. ASSUME y \notin D
            PROVE  H[y].ref = Cardinality(Holders(dd, y)) + Held(H, y)
        BY <1>1, <2>2, <4>2 DEF Over, Held
      <4>3. CASE y \notin D /\ H[y].parent \in D
        <5>1. H[y].parent # Null /\ R[y].parent = Null /\ R[y].ref = H[y].ref - 1
          BY <2>1, <2>6, <4>3, NullAssumption
        <5> QED
          BY <1>1, <4>2, <4>3, <5>1 DEF Held
      <4>4. CASE y \notin D /\ H[y].parent \notin D
        BY <2>5, <4>2, <4>4 DEF Held
      <4> QED
        BY <4>1, <4>3, <4>4
    <3> QED
      BY <3>1 DEF Counted
  <2>15. FreedBut(R, Null)
    <3>1. ASSUME NEW y \in Ids, R[y].ref = 0 PROVE R[y] = FreeNode
      <4>1. CASE y \in D
        BY <2>4, <4>1
      <4>2. CASE y \notin D /\ H[y].parent \in D
        BY <1>1, <2>2, <2>6, <3>1, <4>2
      <4>3. CASE y \notin D /\ H[y].parent \notin D
        BY <2>5, <3>1, <4>3, NullAssumption DEF FreedBut
      <4> QED
        BY <4>1, <4>2, <4>3
    <3> QED
      BY <3>1 DEF FreedBut
  <2>16. Keeps(H, R)
    BY <2>4, <2>8 DEF Keeps
  <2> QED
    BY <2>10, <2>11, <2>12, <2>13, <2>14, <2>15, <2>16 DEF Sound, R
<1> QED
  BY <1>2, <1>3, <1>4

(* A handle is assigned.                                                   *)
LEMMA AssignSound ==
  ASSUME NEW H, Shape(H), Links(H), Once(H), NoCycle(H),
         NEW dd, Handling(dd), Counted(H, dd),
         NEW x \in Ids \cup {Null}, FreedBut(H, x), NEW h \in Handles
  PROVE  /\ Sound(Release(Retain(H, x), dd[h]), [dd EXCEPT ![h] = x])
         /\ Keeps(H, Release(Retain(H, x), dd[h]))
<1> DEFINE R == Retain(H, x)
           dx == [dd EXCEPT ![h] = x]
           o == dd[h]
<1>1. /\ Shape(R) /\ Links(R) /\ Once(R) /\ NoCycle(R) /\ FreedBut(R, Null)
      /\ Handling(dx) /\ Over(R, dx, o) /\ Alike(H, R)
  BY RetainOver
<1>2. o \in Ids \cup {Null}
  BY DEF Handling
<1> HIDE DEF R, dx, o
<1>3. Sound(Release(R, o), dx) /\ Keeps(R, Release(R, o))
  BY <1>1, <1>2, ReleaseSound
<1>4. Keeps(H, Release(R, o))
  BY <1>1, <1>3 DEF Keeps, Alike
<1> QED
  BY <1>3, <1>4 DEF R, dx, o

-----------------------------------------------------------------------------
(* Children that come and go.                                              *)

KidsIn(nd) == {nd.elem["child"][k] : k \in 1..Len(nd.elem["child"])}

Distinct(nd) ==
  \A k, l \in 1..Len(nd.elem["child"]) : nd.elem["child"][k] = nd.elem["child"][l] => k = l

SameOwner(n, n2) == n2.named = n.named /\ n2.parent = n.parent /\ n2.ref = n.ref

LEMMA KidsOf == \A H, x : Kids(H, x) = KidsIn(H[x])
BY DEF Kids, KidsIn

LEMMA RemovedKids ==
  ASSUME NEW nd \in NodeType, NEW i \in 0..(Len(nd.elem["child"]) - 1), Distinct(nd)
  PROVE  LET w == Without(nd, "child", i)
         IN  /\ Distinct(w) /\ KidsIn(w) = KidsIn(nd) \ {nd.elem["child"][i + 1]}
             /\ SameOwner(nd, w)
<1> DEFINE w == Without(nd, "child", i)
           s == nd.elem["child"]
           r == RemoveAt(s, i + 1)
<1>1. /\ "child" \in Types /\ s \in Seq(Ids) /\ Len(s) \in Nat
      /\ nd.elem \in [Types -> Seq(Ids \cup Values)]
  BY DEF Types, NodeType, Elements
<1>2. w.elem["child"] = r /\ SameOwner(nd, w)
  BY <1>1, WithoutFields DEF SameOwner
<1>a. i + 1 \in 1..Len(s)
  BY <1>1
<1> HIDE DEF w
<1>3. /\ Len(r) = Len(s) - 1
      /\ \A k \in 1..((i + 1) - 1) : r[k] = s[k]
      /\ \A k \in (i + 1)..(Len(s) - 1) : r[k] = s[k + 1]
  BY <1>1, <1>a, Removed
<1>4. \A k, l \in 1..Len(s) : s[k] = s[l] => k = l
  BY DEF Distinct
<1> HIDE DEF r, s
<1> DEFINE f(k) == IF k <= i THEN k ELSE k + 1
<1>5. \A k \in 1..Len(r) : r[k] = s[f(k)] /\ f(k) \in 1..Len(s) /\ f(k) # i + 1
  BY <1>1, <1>3
<1>6. \A k, l \in 1..Len(r) : f(k) = f(l) => k = l
  BY <1>1, <1>3
<1>7. \A j \in 1..Len(s) : j # i + 1 => \E k \in 1..Len(r) : f(k) = j
  <2>1. ASSUME NEW j \in 1..Len(s), j # i + 1 PROVE \E k \in 1..Len(r) : f(k) = j
    <3>1. CASE j <= i
      <4>1. j \in 1..Len(r) /\ f(j) = j
        BY <1>1, <1>3, <1>a, <3>1
      <4> QED
        BY <4>1
    <3>2. CASE ~(j <= i)
      <4>1. j - 1 \in 1..Len(r) /\ ~(j - 1 <= i) /\ (j - 1) + 1 = j
        BY <1>1, <1>3, <2>1, <3>2
      <4> QED
        BY <4>1
    <3> QED
      BY <3>1, <3>2
  <2> QED
    BY <2>1
<1> HIDE DEF f
<1>8. Distinct(w)
  BY <1>2, <1>4, <1>5, <1>6 DEF Distinct
<1>9. KidsIn(w) = {r[k] : k \in 1..Len(r)} /\ KidsIn(nd) = {s[k] : k \in 1..Len(s)}
  BY <1>2 DEF KidsIn, s
<1>10. {r[k] : k \in 1..Len(r)} = {s[k] : k \in 1..Len(s)} \ {s[i + 1]}
  <2>1. ASSUME NEW k \in 1..Len(r) PROVE r[k] \in {s[j] : j \in 1..Len(s)} \ {s[i + 1]}
    BY <1>4, <1>5, <1>a
  <2>2. ASSUME NEW j \in 1..Len(s), s[j] # s[i + 1] PROVE s[j] \in {r[k] : k \in 1..Len(r)}
    <3>1. PICK k \in 1..Len(r) : f(k) = j
      BY <1>7, <2>2
    <3> QED
      BY <1>5, <3>1
  <2> QED
    BY <2>1, <2>2
<1> QED
  BY <1>2, <1>8, <1>9, <1>10 DEF w, s

LEMMA InsertedKids ==
  ASSUME NEW nd \in NodeType, Distinct(nd), NEW pos, Insertable(nd, "child", pos),
         NEW c \in Ids, c \notin KidsIn(nd)
  PROVE  LET w == With(nd, "child", c, pos)
         IN  Distinct(w) /\ KidsIn(w) = KidsIn(nd) \cup {c} /\ SameOwner(nd, w)
<1> DEFINE w == With(nd, "child", c, pos)
           s == nd.elem["child"]
           i == addToOrder(nd, "child", pos).at + 1
           r == InsertAt(s, i, c)
<1>1. /\ "child" \in Types /\ s \in Seq(Ids) /\ Len(s) \in Nat
      /\ nd.elem \in [Types -> Seq(Ids \cup Values)]
  BY DEF Types, NodeType, Elements
<1>2. w.elem["child"] = r /\ SameOwner(nd, w)
  BY <1>1, WithFields DEF SameOwner
<1>3. i \in 1..(Len(s) + 1)
  BY <1>1 DEF Insertable
<1>4. \A k \in 1..Len(s) : s[k] # c
  BY DEF KidsIn
<1>5. \A k, l \in 1..Len(s) : s[k] = s[l] => k = l
  BY DEF Distinct
<1> HIDE DEF w, i
<1>6. /\ Len(r) = Len(s) + 1 /\ r[i] = c
      /\ \A k \in 1..(i - 1) : r[k] = s[k]
      /\ \A k \in i..Len(s) : r[k + 1] = s[k]
  <2>1. Insertion(Ids, s, i, c, r)
    BY <1>1, <1>3, Inserted
  <2> QED
    BY <2>1 DEF Insertion
<1> HIDE DEF r
<1>9. KidsIn(w) = {r[k] : k \in 1..Len(r)} /\ KidsIn(nd) = {s[k] : k \in 1..Len(s)}
  BY <1>2 DEF KidsIn
<1> HIDE DEF s
<1> DEFINE f(k) == IF k < i THEN k ELSE k - 1
<1>7. \A k \in 1..Len(r) : k # i => r[k] = s[f(k)] /\ f(k) \in 1..Len(s)
  <2>1. ASSUME NEW k \in 1..Len(r), k # i PROVE r[k] = s[f(k)] /\ f(k) \in 1..Len(s)
    <3>1. CASE k < i
      BY <1>1, <1>3, <1>6, <3>1
    <3>2. CASE ~(k < i)
      <4>1. k - 1 \in i..Len(s) /\ (k - 1) + 1 = k
        BY <1>1, <1>3, <1>6, <2>1, <3>2
      <4>2. r[(k - 1) + 1] = s[k - 1]
        BY <1>6, <4>1
      <4> QED
        BY <1>1, <1>3, <3>2, <4>1, <4>2
    <3> QED
      BY <3>1, <3>2
  <2> QED
    BY <2>1
<1>8. \A k, l \in 1..Len(r) : k # i /\ l # i /\ f(k) = f(l) => k = l
  BY <1>1, <1>3, <1>6
<1>10. \A j \in 1..Len(s) : \E k \in 1..Len(r) : r[k] = s[j]
  <2>1. ASSUME NEW j \in 1..Len(s) PROVE \E k \in 1..Len(r) : r[k] = s[j]
    <3>1. \/ j \in 1..(i - 1) /\ j \in 1..Len(r)
          \/ j \in i..Len(s) /\ j + 1 \in 1..Len(r)
      BY <1>1, <1>3, <1>6
    <3> QED
      BY <1>6, <3>1
  <2> QED
    BY <2>1
<1> HIDE DEF f
<1>11. \A k, l \in 1..Len(r) : r[k] = r[l] => k = l
  BY <1>4, <1>5, <1>6, <1>7, <1>8
<1>12. Distinct(w)
  BY <1>2, <1>11 DEF Distinct
<1>13. i \in 1..Len(r)
  BY <1>1, <1>3, <1>6
<1>14. {r[k] : k \in 1..Len(r)} = {s[k] : k \in 1..Len(s)} \cup {c}
  <2>1. ASSUME NEW k \in 1..Len(r) PROVE r[k] \in {s[j] : j \in 1..Len(s)} \cup {c}
    BY <1>6, <1>7
  <2>2. ASSUME NEW j \in 1..Len(s) PROVE s[j] \in {r[k] : k \in 1..Len(r)}
    BY <1>10
  <2> QED
    BY <1>6, <1>13, <2>1, <2>2
<1> QED
  BY <1>2, <1>9, <1>12, <1>14 DEF w

(* Insertions and removals of another type leave the children alone.       *)
LEMMA OtherKids ==
  ASSUME NEW nd \in NodeType, NEW t \in Types, t # "child", NEW v, NEW n
  PROVE  /\ With(nd, t, v, n).elem["child"] = nd.elem["child"] /\ SameOwner(nd, With(nd, t, v, n))
         /\ Without(nd, t, n).elem["child"] = nd.elem["child"] /\ SameOwner(nd, Without(nd, t, n))
<1>1. "child" \in Types /\ nd.elem \in [Types -> Seq(Ids \cup Values)]
  BY DEF Types, NodeType, Elements
<1>2. With(nd, t, v, n).elem["child"] = nd.elem["child"] /\ SameOwner(nd, With(nd, t, v, n))
  BY <1>1, WithFields DEF SameOwner
<1>3. Without(nd, t, n).elem["child"] = nd.elem["child"] /\ SameOwner(nd, Without(nd, t, n))
  BY <1>1, WithoutFields DEF SameOwner
<1> QED
  BY <1>2, <1>3

LEMMA IndexOfKid ==
  ASSUME NEW nd \in NodeType, NEW c \in KidsIn(nd)
  PROVE  /\ Index(nd, c) \in 0..(Len(nd.elem["child"]) - 1)
         /\ nd.elem["child"][Index(nd, c) + 1] = c
<1> DEFINE s == nd.elem["child"]
           j == CHOOSE k \in 1..Len(s) : s[k] = c
<1>1. Len(s) \in Nat
  BY DEF NodeType, Elements
<1>2. \E k \in 1..Len(s) : s[k] = c
  BY DEF KidsIn
<1>3. j \in 1..Len(s) /\ s[j] = c
  BY <1>2
<1>4. Index(nd, c) = j - 1
  BY DEF Index
<1> HIDE DEF j
<1>5. j - 1 \in 0..(Len(s) - 1) /\ (j - 1) + 1 = j
  BY <1>1, <1>3
<1> QED
  BY <1>3, <1>4, <1>5
Owned(H, H2) == \A y \in Ids : SameOwner(H[y], H2[y])

LEMMA DetachedIs ==
  ASSUME NEW H, Shape(H), Links(H), Once(H), NEW c \in Ids, H[c].parent # Null, Detachable(H, c)
  PROVE  LET L == Detached(H, c)
         IN  /\ Shape(L) /\ Once(L) /\ Owned(H, L)
             /\ \A y \in Ids : /\ Kids(L, y) = Kids(H, y) \ {c}
                               /\ WellOrdered(H[y]) => WellOrdered(L[y])
                               /\ y # H[c].parent => L[y] = H[y]
             /\ Size(L[H[c].parent]) = Size(H[H[c].parent]) - 1
<1> DEFINE q == H[c].parent
           i == Index(H[q], c)
           w == Without(H[q], "child", i)
           L == Detached(H, c)
<1>1. q \in Ids /\ c \in Kids(H, q) /\ H[q] \in NodeType /\ Sized(H[q]) /\ "child" \in Types
  BY HeapTypes DEF Links, Types
<1>2. i \in 0..(Len(H[q].elem["child"]) - 1) /\ H[q].elem["child"][i + 1] = c
  BY <1>1, IndexOfKid, KidsOf
<1>3. Found(H[q], "child", i) /\ Distinct(H[q])
  BY <1>1 DEF Detachable, Once, Distinct
<1>4. L = [H EXCEPT ![q] = w]
  BY DEF Detached
<1> HIDE DEF L, i
<1>5. /\ w \in NodeType /\ Sized(w) /\ Size(w) = Size(H[q]) - 1
      /\ WellOrdered(H[q]) => WellOrdered(w)
  BY <1>1, <1>2, <1>3, WithoutKeeps
<1>6. Distinct(w) /\ KidsIn(w) = KidsIn(H[q]) \ {c} /\ SameOwner(H[q], w)
  BY <1>1, <1>2, <1>3, RemovedKids
<1> HIDE DEF w
<1>7. L[q] = w /\ \A y \in Ids \ {q} : L[y] = H[y]
  BY <1>1, <1>4 DEF Shape
<1>8. Shape(L)
  BY <1>4, <1>5, <1>7 DEF Shape
<1>9. Once(L)
  BY <1>6, <1>7 DEF Once, Distinct
<1>10. Owned(H, L)
  BY <1>6, <1>7 DEF Owned, SameOwner
<1>11. \A y \in Ids \ {q} : c \notin Kids(H, y)
  BY DEF Links
<1>12. \A y \in Ids : Kids(L, y) = Kids(H, y) \ {c}
  BY <1>6, <1>7, <1>11, KidsOf
<1> QED
  BY <1>5, <1>7, <1>8, <1>9, <1>10, <1>12 DEF L

LEMMA RetainedNode ==
  ASSUME NEW H, Shape(H), NEW c \in Ids
  PROVE  /\ Retain(H, c) \in [Ids -> NodeType]
         /\ \A y \in Ids : /\ Retain(H, c)[y].elem = H[y].elem
                           /\ Retain(H, c)[y].order = H[y].order
                           /\ Retain(H, c)[y].parent = H[y].parent
                           /\ Retain(H, c)[y].ref = IF c = y THEN H[y].ref + 1 ELSE H[y].ref
                           /\ c # y => Retain(H, c)[y] = H[y]
<1>1. [H[c] EXCEPT !.ref = @ + 1] \in NodeType
  <2>1. H[c] \in NodeType
    BY DEF Shape
  <2> QED
    BY <2>1 DEF NodeType
<1>2. Retain(H, c) = [H EXCEPT ![c] = [H[c] EXCEPT !.ref = @ + 1]]
  BY NullAssumption DEF Retain
<1>3. \A y \in Ids : H[y] \in NodeType
  BY DEF Shape
<1> QED
  BY <1>1, <1>2, <1>3 DEF Shape, NodeType

(* A node that leaves its parent, or that had none.                        *)
LEMMA LeftIs ==
  ASSUME NEW H, Shape(H), Links(H), Once(H), NEW c \in Ids, Detachable(H, c)
  PROVE  LET L == Left(H, c)
         IN  /\ Shape(L) /\ Once(L)
             /\ \A y \in Ids : /\ Kids(L, y) = Kids(H, y) \ {c}
                               /\ WellOrdered(H[y]) => WellOrdered(L[y])
                               /\ L[y].parent = H[y].parent
                               /\ y # c => L[y].ref = H[y].ref
                               /\ y # c /\ y # H[c].parent => L[y] = H[y]
             /\ L[c].ref = H[c].ref + (1 - Held(H, c))
             /\ H[c].parent \in Ids => Size(L[H[c].parent]) = Size(H[H[c].parent]) - 1
<1>1. CASE H[c].parent = Null
  <2> DEFINE L == Retain(H, c)
  <2>1. Left(H, c) = L
    BY <1>1 DEF Left
  <2>2. /\ L \in [Ids -> NodeType]
        /\ \A y \in Ids : /\ L[y].elem = H[y].elem /\ L[y].order = H[y].order
                          /\ L[y].parent = H[y].parent
                          /\ L[y].ref = IF c = y THEN H[y].ref + 1 ELSE H[y].ref
                          /\ c # y => L[y] = H[y]
    BY RetainedNode
  <2> HIDE DEF L
  <2>3. Shape(L) /\ Once(L)
    BY <2>2, SameLinks
  <2>4. \A y \in Ids : Kids(L, y) = Kids(H, y) /\ c \notin Kids(H, y)
    BY <1>1, <2>2, NullAssumption DEF Kids, Links
  <2>5. \A y \in Ids : WellOrdered(H[y]) => WellOrdered(L[y])
    BY <2>2, SameOrder
  <2>6. Held(H, c) = 0 /\ H[c].ref \in Nat
    BY <1>1, HeapTypes DEF Held
  <2> QED
    BY <1>1, <2>1, <2>2, <2>3, <2>4, <2>5, <2>6, NullAssumption
<1>2. CASE H[c].parent # Null
  <2> DEFINE L == Detached(H, c)
  <2>1. Left(H, c) = L
    BY <1>2 DEF Left
  <2>2. /\ Shape(L) /\ Once(L) /\ Owned(H, L)
        /\ \A y \in Ids : /\ Kids(L, y) = Kids(H, y) \ {c}
                          /\ WellOrdered(H[y]) => WellOrdered(L[y])
                          /\ y # H[c].parent => L[y] = H[y]
        /\ Size(L[H[c].parent]) = Size(H[H[c].parent]) - 1
    BY <1>2, DetachedIs
  <2> HIDE DEF L
  <2>3. Held(H, c) = 1 /\ H[c].ref \in Nat
    BY <1>2, HeapTypes DEF Held
  <2> QED
    BY <2>1, <2>2, <2>3 DEF Owned, SameOwner
<1> QED
  BY <1>1, <1>2

LEMMA MovedNodes ==
  ASSUME NEW H, NEW c \in Ids, NEW p \in Ids, c # p, NEW pos, Shape(Left(H, c))
  PROVE  LET L == Left(H, c)
             M == Moved(H, c, p, pos)
             w == With(L[p], "child", c, Lands(H, c, p, pos))
         IN  /\ M[p] = w /\ M[c] = [L[c] EXCEPT !.parent = p]
             /\ \A y \in Ids \ {c, p} : M[y] = L[y]
             /\ w \in NodeType => M \in [Ids -> NodeType]
<1> DEFINE L == Left(H, c)
           w == With(L[p], "child", c, Lands(H, c, p, pos))
           n == [L[c] EXCEPT !.parent = p]
           M == Moved(H, c, p, pos)
<1>1. L \in [Ids -> NodeType]
  BY DEF Shape
<1>2. M = [L EXCEPT ![p] = w, ![c].parent = p]
  BY DEF Moved
<1> HIDE DEF L, w, M
<1>3. M = [[L EXCEPT ![p] = w] EXCEPT ![c] = n]
  BY <1>1, <1>2
<1>4. n \in NodeType
  <2>1. L[c] \in NodeType
    BY <1>1
  <2> QED
    BY <2>1 DEF NodeType
<1> HIDE DEF n
<1>5. M[p] = w /\ M[c] = n /\ \A y \in Ids \ {c, p} : M[y] = L[y]
  BY <1>1, <1>3
<1>6. w \in NodeType => M \in [Ids -> NodeType]
  BY <1>1, <1>3, <1>4
<1> QED
  BY <1>5, <1>6 DEF L, w, n, M

(* A node that moves below one that is not below it.                       *)
LEMMA MovedSound ==
  ASSUME NEW H, NEW dd, Sound(H, dd), NEW c \in Ids, NEW p \in Ids, H[c].ref > 0, H[p].ref > 0,
         NEW pos \in Int, Detachable(H, c),
         Insertable(Left(H, c)[p], "child", Lands(H, c, p, pos)),
         NEW S \in SUBSET Ids, Closed(H, c, Ids, S), p \notin S
  PROVE  LET M == Moved(H, c, p, pos)
         IN  /\ Sound(M, dd)
             /\ \A y \in Ids : y # p => Kids(M, y) = Kids(H, y) \ {c}
             /\ \A y \in Ids : y # p /\ WellOrdered(H[y]) => WellOrdered(M[y])
             /\ WellOrdered(H[p]) /\ ~OtherTypeAt(Left(H, c)[p], "child", Lands(H, c, p, pos))
                  => WellOrdered(M[p])
             /\ M[p].ref = H[p].ref
<1> DEFINE L == Left(H, c)
           lands == Lands(H, c, p, pos)
           w == With(L[p], "child", c, lands)
           M == Moved(H, c, p, pos)
<1>1. /\ Shape(H) /\ Links(H) /\ Once(H) /\ NoCycle(H) /\ Handling(dd) /\ Counted(H, dd)
      /\ FreedBut(H, Null) /\ c # p
  BY DEF Sound, Closed
<1>2. /\ Shape(L) /\ Once(L)
      /\ \A y \in Ids : /\ Kids(L, y) = Kids(H, y) \ {c}
                        /\ WellOrdered(H[y]) => WellOrdered(L[y])
                        /\ L[y].parent = H[y].parent
                        /\ y # c => L[y].ref = H[y].ref
                        /\ y # c /\ y # H[c].parent => L[y] = H[y]
      /\ L[c].ref = H[c].ref + (1 - Held(H, c))
  BY <1>1, LeftIs
<1>3. lands \in Int /\ "child" \in Types
  BY DEF Lands, Types
<1>4. /\ L[p] \in NodeType /\ Sized(L[p]) /\ Distinct(L[p]) /\ c \notin KidsIn(L[p])
      /\ L[c] \in NodeType
  BY <1>2, KidsOf DEF Shape, Once, Distinct
<1>5. /\ M[p] = w /\ M[c] = [L[c] EXCEPT !.parent = p] /\ \A y \in Ids \ {c, p} : M[y] = L[y]
      /\ w \in NodeType => M \in [Ids -> NodeType]
  BY <1>1, <1>2, MovedNodes
<1> HIDE DEF lands, M
<1>a. Insertable(L[p], "child", lands)
  BY DEF lands
<1> HIDE DEF L
<1>6. /\ w \in NodeType /\ Sized(w)
      /\ WellOrdered(L[p]) /\ ~OtherTypeAt(L[p], "child", lands) => WellOrdered(w)
  BY <1>3, <1>4, <1>a, WithKeeps
<1>7. Distinct(w) /\ KidsIn(w) = KidsIn(L[p]) \cup {c} /\ SameOwner(L[p], w)
  BY <1>4, <1>a, InsertedKids
<1> HIDE DEF w
<1>8. M[c].elem = L[c].elem /\ M[c].order = L[c].order /\ M[c].parent = p /\ M[c].ref = L[c].ref
  BY <1>4, <1>5 DEF NodeType
<1>9. \A y \in Ids \ {p} : M[y].elem = L[y].elem /\ M[y].order = L[y].order /\ M[y].ref = L[y].ref
  BY <1>5, <1>8
<1>10. Shape(M)
  <2>1. \A y \in Ids : Sized(M[y])
    BY <1>2, <1>5, <1>6, <1>9 DEF Shape, Sized, Size
  <2> QED
    BY <1>5, <1>6, <2>1 DEF Shape
<1>11. /\ Kids(M, p) = (Kids(H, p) \ {c}) \cup {c}
       /\ \A y \in Ids \ {p} : Kids(M, y) = Kids(H, y) \ {c}
  <2>1. \A y \in Ids \ {p} : Kids(M, y) = Kids(L, y)
    BY <1>9 DEF Kids
  <2>2. Kids(M, p) = Kids(L, p) \cup {c}
    BY <1>5, <1>7, KidsOf
  <2> QED
    BY <1>2, <2>1, <2>2
<1>12. M[c].parent = p /\ \A y \in Ids \ {c} : M[y].parent = H[y].parent
  BY <1>2, <1>5, <1>7, <1>8 DEF SameOwner
<1>13. Links(M)
  <2>1. ASSUME NEW a \in Ids, NEW y \in Ids PROVE y \in Kids(M, a) <=> M[y].parent = a
    <3>1. y \in Kids(H, a) <=> H[y].parent = a
      BY <1>1 DEF Links
    <3> QED
      BY <1>11, <1>12, <3>1
  <2> QED
    BY <2>1 DEF Links
<1>14. Once(M)
  <2>1. \A y \in Ids : Distinct(M[y])
    BY <1>2, <1>5, <1>7, <1>9 DEF Once, Distinct
  <2> QED
    BY <2>1 DEF Once, Distinct
<1>15. NoCycle(M)
  <2>1. ASSUME NEW T \in SUBSET Ids, T # {} PROVE \E y \in T : M[y].parent \notin T
    <3>1. CASE c \notin T
      <4>1. PICK y \in T : H[y].parent \notin T
        BY <1>1, <2>1 DEF NoCycle
      <4> QED
        BY <1>12, <3>1, <4>1
    <3>2. CASE c \in T /\ p \notin T
      BY <1>12, <3>2
    <3>3. CASE c \in T /\ p \in T
      <4>1. T \ S \in SUBSET Ids /\ p \in T \ S
        BY <3>3
      <4>2. PICK y \in T \ S : H[y].parent \notin T \ S
        BY <1>1, <4>1 DEF NoCycle
      <4>3. y # c /\ y \in Ids
        BY DEF Closed
      <4>4. ASSUME H[y].parent \in T PROVE FALSE
        <5>1. H[y].parent \in S /\ H[y].parent \in Ids
          BY <4>2, <4>4
        <5>2. y \in Kids(H, H[y].parent)
          BY <1>1, <4>3, <5>1 DEF Links
        <5>3. y \in S
          BY <4>3, <5>1, <5>2 DEF Closed
        <5> QED
          BY <5>3
      <4> QED
        BY <1>12, <4>3, <4>4
    <3> QED
      BY <3>1, <3>2, <3>3
  <2> QED
    BY <2>1 DEF NoCycle
<1>16. M[p].ref = H[p].ref /\ \A y \in Ids \ {c} : M[y].ref = H[y].ref
  BY <1>1, <1>2, <1>5, <1>7 DEF SameOwner
<1>17. Counted(M, dd)
  <2>1. ASSUME NEW y \in Ids PROVE M[y].ref = Cardinality(Holders(dd, y)) + Held(M, y)
    <3>1. H[y].ref = Cardinality(Holders(dd, y)) + Held(H, y)
      BY <1>1 DEF Counted
    <3>2. CASE y = c
      <4>1. Cardinality(Holders(dd, y)) \in Nat
        BY HandlesAssumption, FS_Subset, FS_CardinalityType DEF Holders
      <4>2. Held(M, c) = 1 /\ Held(H, c) \in Nat
        BY <1>12, NullAssumption DEF Held
      <4>3. M[c].ref = H[c].ref + (1 - Held(H, c))
        BY <1>2, <1>8
      <4> QED
        BY <3>1, <3>2, <4>1, <4>2, <4>3
    <3>3. CASE y # c
      <4>1. Held(M, y) = Held(H, y)
        BY <1>12, <3>3 DEF Held
      <4> QED
        BY <1>16, <3>1, <3>3, <4>1
    <3> QED
      BY <3>2, <3>3
  <2> QED
    BY <2>1 DEF Counted
<1>18. FreedBut(M, Null)
  <2>1. ASSUME NEW y \in Ids, M[y].ref = 0 PROVE M[y] = FreeNode
    <3>1. y # p
      BY <1>16, <2>1
    <3>2. y # c
      <4>1. Held(H, c) \in {0, 1} /\ H[c].ref \in Nat
        BY <1>1, HeapTypes DEF Held
      <4> QED
        BY <1>2, <1>8, <2>1, <4>1
    <3>3. H[y] = FreeNode
      BY <1>1, <1>16, <2>1, <3>2, NullAssumption DEF FreedBut
    <3>4. y # H[c].parent
      BY <1>1, <3>3, NoKids DEF Links
    <3> QED
      BY <1>2, <1>5, <3>1, <3>2, <3>3, <3>4
  <2> QED
    BY <2>1 DEF FreedBut
<1>19. Sound(M, dd)
  BY <1>1, <1>10, <1>13, <1>14, <1>15, <1>17, <1>18 DEF Sound
<1>20. \A y \in Ids : y # p /\ WellOrdered(H[y]) => WellOrdered(M[y])
  BY <1>2, <1>9, SameOrder
<1>21. WellOrdered(H[p]) /\ ~OtherTypeAt(L[p], "child", lands) => WellOrdered(M[p])
  BY <1>2, <1>5, <1>6
<1> QED
  BY <1>11, <1>16, <1>19, <1>20, <1>21 DEF M, L, lands

-----------------------------------------------------------------------------
(* New nodes, edits, copies and what is deleted.                           *)

Loose(H, dd, x) ==
  Shape(H) /\ Links(H) /\ Once(H) /\ NoCycle(H) /\ Handling(dd) /\ Counted(H, dd)
  /\ FreedBut(H, x)

LEMMA UnusedIs ==
  ASSUME NEW H, NEW dd, Sound(H, dd), NEW x \in Unused(H)
  PROVE  /\ x \in Ids /\ H[x] = FreeNode /\ H[x].ref = 0 /\ H[x].parent = Null
         /\ Kids(H, x) = {} /\ (\A y \in Ids : x \notin Kids(H, y))
         /\ Cardinality(Holders(dd, x)) = 0
<1>1. x \in Ids /\ H[x].ref = 0
  BY DEF Unused
<1>2. H[x] = FreeNode
  BY <1>1, NullAssumption DEF Sound, FreedBut
<1>3. H[x].parent = Null /\ Kids(H, x) = {}
  BY <1>2, FreeNodeType, NoKids
<1>4. \A y \in Ids : x \notin Kids(H, y)
  BY <1>1, <1>3, NullAssumption DEF Sound, Links
<1>5. Cardinality(Holders(dd, x)) \in Nat
  BY HandlesAssumption, FS_Subset, FS_CardinalityType DEF Holders
<1>6. Cardinality(Holders(dd, x)) = 0
  BY <1>1, <1>3, <1>5 DEF Sound, Counted, Held
<1> QED
  BY <1>1, <1>2, <1>3, <1>4, <1>6

LEMMA TopNodeLoose ==
  ASSUME NEW H, NEW dd, Sound(H, dd), NEW x \in Unused(H), NEW b \in BOOLEAN
  PROVE  Loose([H EXCEPT ![x].named = b], dd, x) /\ Alike(H, [H EXCEPT ![x].named = b])
<1> DEFINE N == [H EXCEPT ![x].named = b]
<1>1. /\ Shape(H) /\ Links(H) /\ Once(H) /\ NoCycle(H) /\ Handling(dd) /\ Counted(H, dd)
      /\ FreedBut(H, Null) /\ x \in Ids
  BY UnusedIs DEF Sound
<1>2. \A y \in Ids : H[y] \in NodeType
  BY <1>1 DEF Shape
<1>3. N = [H EXCEPT ![x] = [H[x] EXCEPT !.named = b]] /\ [H[x] EXCEPT !.named = b] \in NodeType
  BY <1>1, <1>2 DEF Shape, NodeType
<1>4. /\ N \in [Ids -> NodeType]
      /\ \A y \in Ids : /\ N[y].elem = H[y].elem /\ N[y].order = H[y].order
                        /\ N[y].parent = H[y].parent /\ N[y].ref = H[y].ref
                        /\ y # x => N[y] = H[y]
  BY <1>1, <1>2, <1>3 DEF Shape, NodeType
<1> HIDE DEF N
<1>5. Shape(N) /\ Links(N) /\ Once(N) /\ NoCycle(N) /\ Alike(H, N)
  BY <1>1, <1>4, SameLinks
<1>6. Counted(N, dd)
  BY <1>1, <1>4 DEF Counted, Held
<1>7. FreedBut(N, x)
  BY <1>1, <1>4, NullAssumption DEF FreedBut
<1> QED
  BY <1>1, <1>5, <1>6, <1>7 DEF Loose, N

(* A node changes its name, its texts or its clear tags.                   *)
LEMMA EditSound ==
  ASSUME NEW H, NEW dd, Sound(H, dd), NEW x \in Ids, H[x].ref > 0,
         NEW n \in NodeType, Sized(n), n.parent = H[x].parent, n.ref = H[x].ref,
         n.elem["child"] = H[x].elem["child"]
  PROVE  Sound([H EXCEPT ![x] = n], dd)
<1> DEFINE N == [H EXCEPT ![x] = n]
<1>1. /\ Shape(H) /\ Links(H) /\ Once(H) /\ NoCycle(H) /\ Handling(dd) /\ Counted(H, dd)
      /\ FreedBut(H, Null)
  BY DEF Sound
<1>2. /\ N \in [Ids -> NodeType] /\ N[x] = n
      /\ \A y \in Ids \ {x} : N[y] = H[y]
  BY <1>1 DEF Shape
<1> HIDE DEF N
<1>3. Shape(N)
  BY <1>1, <1>2 DEF Shape
<1>4. \A y \in Ids : /\ N[y].parent = H[y].parent /\ N[y].ref = H[y].ref
                     /\ N[y].elem["child"] = H[y].elem["child"]
  BY <1>2
<1>5. Links(N)
  BY <1>1, <1>4 DEF Links, Kids
<1>6. Once(N)
  BY <1>1, <1>4 DEF Once
<1>7. NoCycle(N)
  BY <1>1, <1>4 DEF NoCycle
<1>8. Counted(N, dd)
  BY <1>1, <1>4 DEF Counted, Held
<1>9. FreedBut(N, Null)
  <2>1. ASSUME NEW y \in Ids, N[y].ref = 0 PROVE N[y] = FreeNode
    <3>1. y # x
      BY <1>1, <1>4, <2>1, HeapTypes
    <3> QED
      BY <1>1, <1>2, <2>1, <3>1, NullAssumption DEF FreedBut
  <2> QED
    BY <2>1 DEF FreedBut
<1> QED
  BY <1>1, <1>3, <1>5, <1>6, <1>7, <1>8, <1>9 DEF Sound, N

NewChild(H, x, p, pos) ==
  [H EXCEPT ![x] = [@ EXCEPT !.named = TRUE, !.parent = p, !.ref = 1],
            ![p] = With(@, "child", x, pos)]

LEMMA NewChildLoose ==
  ASSUME NEW H, NEW dd, Sound(H, dd), NEW x \in Unused(H), NEW p \in Ids, H[p].ref > 0,
         NEW pos \in Int, Insertable(H[p], "child", pos)
  PROVE  LET N == NewChild(H, x, p, pos)
         IN  /\ Loose(N, dd, x)
             /\ \A y \in Ids : y # p /\ WellOrdered(H[y]) => WellOrdered(N[y])
             /\ WellOrdered(H[p]) /\ ~OtherTypeAt(H[p], "child", pos) => WellOrdered(N[p])
<1> DEFINE w == With(H[p], "child", x, pos)
           n == [H[x] EXCEPT !.named = TRUE, !.parent = p, !.ref = 1]
           N == NewChild(H, x, p, pos)
<1>1. /\ Shape(H) /\ Links(H) /\ Once(H) /\ NoCycle(H) /\ Handling(dd) /\ Counted(H, dd)
      /\ FreedBut(H, Null)
  BY DEF Sound
<1>2. /\ x \in Ids /\ H[x] = FreeNode /\ H[x].ref = 0 /\ H[x].parent = Null
      /\ Kids(H, x) = {} /\ (\A y \in Ids : x \notin Kids(H, y))
      /\ Cardinality(Holders(dd, x)) = 0
  BY UnusedIs
<1>3. x # p /\ "child" \in Types
  BY <1>2 DEF Types
<1>4. /\ H[p] \in NodeType /\ Sized(H[p]) /\ Distinct(H[p]) /\ x \notin KidsIn(H[p])
      /\ H[x] \in NodeType
  BY <1>1, <1>2, KidsOf DEF Shape, Once, Distinct
<1>5. n \in NodeType /\ n.elem = H[x].elem /\ n.order = H[x].order /\ n.parent = p /\ n.ref = 1
  BY <1>4 DEF NodeType
<1>6. /\ w \in NodeType /\ Sized(w)
      /\ WellOrdered(H[p]) /\ ~OtherTypeAt(H[p], "child", pos) => WellOrdered(w)
  BY <1>2, <1>3, <1>4, WithKeeps
<1>7. Distinct(w) /\ KidsIn(w) = KidsIn(H[p]) \cup {x} /\ SameOwner(H[p], w)
  BY <1>2, <1>4, InsertedKids
<1>8. N = [[H EXCEPT ![x] = n] EXCEPT ![p] = w]
  BY <1>1, <1>2, <1>3 DEF NewChild, Shape
<1> HIDE DEF w, n, N
<1>9. /\ N \in [Ids -> NodeType] /\ N[x] = n /\ N[p] = w
      /\ \A y \in Ids \ {x, p} : N[y] = H[y]
  BY <1>1, <1>2, <1>3, <1>5, <1>6, <1>8 DEF Shape
<1>10. Shape(N)
  <2>1. \A y \in Ids : Sized(N[y])
    BY <1>1, <1>5, <1>6, <1>9, ZenonT(30) DEF Shape, Sized, Size
  <2> QED
    BY <1>9, <2>1 DEF Shape
<1>11. Kids(N, p) = Kids(H, p) \cup {x} /\ \A y \in Ids \ {p} : Kids(N, y) = Kids(H, y)
  <2>1. KidsIn(n) = KidsIn(H[x])
    BY <1>5 DEF KidsIn
  <2> QED
    BY <1>2, <1>3, <1>7, <1>9, <2>1, KidsOf
<1>12. /\ N[x].parent = p /\ \A y \in Ids \ {x} : N[y].parent = H[y].parent
       /\ N[x].ref = 1 /\ \A y \in Ids \ {x} : N[y].ref = H[y].ref
  BY <1>5, <1>7, <1>9 DEF SameOwner
<1>13. Links(N)
  <2>1. ASSUME NEW a \in Ids, NEW y \in Ids PROVE y \in Kids(N, a) <=> N[y].parent = a
    <3>1. y \in Kids(H, a) <=> H[y].parent = a
      BY <1>1 DEF Links
    <3> QED
      BY <1>2, <1>11, <1>12, <3>1
  <2> QED
    BY <2>1 DEF Links
<1>14. Once(N)
  <2>1. \A y \in Ids : Distinct(N[y])
    BY <1>1, <1>5, <1>7, <1>9 DEF Once, Distinct
  <2> QED
    BY <2>1 DEF Once, Distinct
<1>15. NoCycle(N)
  <2>1. ASSUME NEW T \in SUBSET Ids, T # {} PROVE \E y \in T : N[y].parent \notin T
    <3>1. CASE x \notin T
      <4>1. PICK y \in T : H[y].parent \notin T
        BY <1>1, <2>1 DEF NoCycle
      <4> QED
        BY <1>12, <3>1, <4>1
    <3>2. CASE x \in T /\ p \notin T
      BY <1>12, <3>2
    <3>3. CASE x \in T /\ p \in T
      <4>1. T \ {x} \in SUBSET Ids /\ p \in T \ {x}
        BY <1>3, <3>3
      <4>2. PICK y \in T \ {x} : H[y].parent \notin T \ {x}
        BY <1>1, <4>1 DEF NoCycle
      <4>3. H[y].parent # x
        BY <1>1, <1>2 DEF Links
      <4> QED
        BY <1>12, <4>2, <4>3
    <3> QED
      BY <3>1, <3>2, <3>3
  <2> QED
    BY <2>1 DEF NoCycle
<1>16. Counted(N, dd)
  <2>1. ASSUME NEW y \in Ids PROVE N[y].ref = Cardinality(Holders(dd, y)) + Held(N, y)
    <3>1. CASE y = x
      BY <1>2, <1>12, <3>1, NullAssumption DEF Held
    <3>2. CASE y # x
      BY <1>1, <1>12, <3>2 DEF Counted, Held
    <3> QED
      BY <3>1, <3>2
  <2> QED
    BY <2>1 DEF Counted
<1>17. FreedBut(N, x)
  <2>1. ASSUME NEW y \in Ids \ {x}, N[y].ref = 0 PROVE N[y] = FreeNode
    <3>1. y # p
      BY <1>1, <1>12, <2>1
    <3> QED
      BY <1>1, <1>9, <2>1, <3>1, NullAssumption DEF FreedBut
  <2> QED
    BY <2>1 DEF FreedBut
<1>18. \A y \in Ids : y # p /\ WellOrdered(H[y]) => WellOrdered(N[y])
  BY <1>5, <1>9, SameOrder
<1> QED
  BY <1>1, <1>6, <1>9, <1>10, <1>13, <1>14, <1>15, <1>16, <1>17, <1>18 DEF Loose, w, N
(* deepCopy.                                                               *)
LEMMA CopyOfFields ==
  ASSUME NEW n \in NodeType, NEW f, NEW u, NEW r
  PROVE  CopyOf(n, f, u, r) =
           [named |-> n.named, parent |-> u, ref |-> r,
            elem |-> [n.elem EXCEPT !["child"] =
                        [k \in 1..Len(n.elem["child"]) |-> f[n.elem["child"][k]]]],
            order |-> n.order]
<1> DEFINE s == n.elem["child"]
           g == [k \in DOMAIN s |-> f[s[k]]]
           n2 == [n EXCEPT !.parent = u, !.ref = r]
<1>1. n = [named |-> n.named, parent |-> n.parent, ref |-> n.ref, elem |-> n.elem,
           order |-> n.order]
  BY DEF NodeType
<1>2. s \in Seq(Ids)
  BY DEF NodeType, Elements
<1>3. DOMAIN s = 1..Len(s)
  BY <1>2
<1>4. n2 = [named |-> n.named, parent |-> u, ref |-> r, elem |-> n.elem, order |-> n.order]
  <2> DEFINE n1 == [n EXCEPT !.parent = u]
  <2>1. n1 = [named |-> n.named, parent |-> u, ref |-> n.ref, elem |-> n.elem, order |-> n.order]
    BY <1>1
  <2>2. n2 = [n1 EXCEPT !.ref = r]
    OBVIOUS
  <2> HIDE DEF n1, n2
  <2> QED
    BY <2>1, <2>2
<1>5. CopyOf(n, f, u, r) = [n2 EXCEPT !.elem["child"] = g]
  BY <1>1 DEF CopyOf
<1> HIDE DEF g, n2
<1>6. [n2 EXCEPT !.elem["child"] = g] = [n2 EXCEPT !.elem = [n2.elem EXCEPT !["child"] = g]]
  OBVIOUS
<1>7. [n2 EXCEPT !.elem["child"] = g]
        = [named |-> n.named, parent |-> u, ref |-> r,
           elem |-> [n.elem EXCEPT !["child"] = g], order |-> n.order]
  BY <1>4, <1>6
<1> QED
  BY <1>3, <1>5, <1>7 DEF g

LEMMA CopiedNodes ==
  ASSUME NEW H, Shape(H), NEW x \in Ids, NEW f \in [Subtree(H, x) -> Unused(H)], IsInjective(f),
         NEW z \in Subtree(H, x)
  PROVE  LET m == Copied(H, x, f)[f[z]]
         IN  /\ m.parent = IF z = x THEN Null ELSE f[H[z].parent]
             /\ m.ref = IF z = x THEN 0 ELSE 1
             /\ m.named = H[z].named /\ m.order = H[z].order
             /\ m.elem = [H[z].elem EXCEPT !["child"] =
                            [k \in 1..Len(H[z].elem["child"]) |-> f[H[z].elem["child"][k]]]]
             /\ m = [named |-> m.named, parent |-> m.parent, ref |-> m.ref, elem |-> m.elem,
                     order |-> m.order]
<1> DEFINE S == Subtree(H, x)
           u == IF z = x THEN Null ELSE f[H[z].parent]
           r == IF z = x THEN 0 ELSE 1
           m(y) == IF y = x THEN CopyOf(H[y], f, Null, 0) ELSE CopyOf(H[y], f, f[H[y].parent], 1)
           c == CHOOSE y \in S : f[y] = f[z]
<1>1. S \subseteq Ids /\ f[z] \in Ids /\ z \in Ids
  BY ClosureIs DEF Subtree, Unused
<1>2. c \in S /\ f[c] = f[z]
  OBVIOUS
<1>3. c = z
  BY <1>2 DEF IsInjective
<1>4. Copied(H, x, f)[f[z]] = m(c)
  BY <1>1 DEF Copied
<1> HIDE DEF c, S
<1>5. Copied(H, x, f)[f[z]] = CopyOf(H[z], f, u, r)
  BY <1>3, <1>4
<1>6. H[z] \in NodeType
  BY <1>1 DEF Shape
<1> HIDE DEF u, r
<1>7. CopyOf(H[z], f, u, r)
        = [named |-> H[z].named, parent |-> u, ref |-> r,
           elem |-> [H[z].elem EXCEPT !["child"] =
                       [k \in 1..Len(H[z].elem["child"]) |-> f[H[z].elem["child"][k]]]],
           order |-> H[z].order]
  BY <1>6, CopyOfFields
<1> QED
  BY <1>5, <1>7 DEF u, r

LEMMA CopiedRest ==
  ASSUME NEW H, NEW x, NEW f, NEW y \in Ids, ~\E z \in Subtree(H, x) : f[z] = y
  PROVE  Copied(H, x, f)[y] = H[y]
BY DEF Copied
LEMMA SameNumbers ==
  ASSUME NEW n \in NodeType, NEW n2 \in NodeType, n2.order = n.order,
         \A t \in Types : Len(n2.elem[t]) = Len(n.elem[t])
  PROVE  /\ Sized(n) => Sized(n2)
         /\ WellOrdered(n) => WellOrdered(n2)
<1>1. "child" \in Types /\ "text" \in Types /\ "clear" \in Types
  BY DEF Types
<1>2. Size(n2) = Size(n)
  BY <1>1 DEF Size
<1>3. Sized(n) => Sized(n2)
  BY <1>2 DEF Sized
<1>4. Numbers(n2) = Numbers(n)
  BY DEF Numbers
<1>5. WellOrdered(n) => WellOrdered(n2)
  BY <1>3, <1>4, WellOrderedRanked
<1> QED
  BY <1>3, <1>5

LEMMA CopiedLoose ==
  ASSUME NEW H, NEW dd, Sound(H, dd), NEW x \in Ids, H[x].ref > 0,
         NEW f \in [Subtree(H, x) -> Unused(H)], IsInjective(f)
  PROVE  LET C == Copied(H, x, f)
         IN  /\ Loose(C, dd, f[x]) /\ f[x] \in Ids
             /\ \A y \in Ids : (~\E z \in Subtree(H, x) : f[z] = y) => C[y] = H[y]
             /\ \A z \in Subtree(H, x) : f[z] \in Ids /\ (WellOrdered(H[z]) => WellOrdered(C[f[z]]))
<1> DEFINE S == Subtree(H, x)
           T == {f[z] : z \in S}
           C == Copied(H, x, f)
           kids(z) == [k \in 1..Len(H[z].elem["child"]) |-> f[H[z].elem["child"][k]]]
<1>1. /\ Shape(H) /\ Links(H) /\ Once(H) /\ NoCycle(H) /\ Handling(dd) /\ Counted(H, dd)
      /\ FreedBut(H, Null)
  BY DEF Sound
<1>2. /\ S \subseteq Ids /\ x \in S /\ H[x].parent \notin S
      /\ \A z \in S : Kids(H, z) \subseteq S /\ (z # x => H[z].parent \in S)
  <2>1. S \subseteq Ids /\ Closed(H, x, Ids, S)
    BY <1>1, ClosureIs DEF Subtree
  <2>2. \A z \in S : Ids \cap Kids(H, z) = Kids(H, z)
    BY <1>1, <2>1, HeapTypes
  <2>3. \A z \in S : z # x => H[z].parent \in S
    BY <1>1, ClosureParents DEF Subtree
  <2>4. H[x].parent \notin S
    BY <1>1, AboveSubtree
  <2> HIDE DEF S
  <2> QED
    BY <2>1, <2>2, <2>3, <2>4 DEF Closed
<1>3. \A z \in S : /\ f[z] \in Ids /\ H[f[z]] = FreeNode /\ H[f[z]].parent = Null
                   /\ Kids(H, f[z]) = {} /\ (\A y \in Ids : f[z] \notin Kids(H, y))
                   /\ Cardinality(Holders(dd, f[z])) = 0
  BY UnusedIs
<1>4. \A z, w \in S : f[z] = f[w] => z = w
  BY DEF IsInjective
<1>5. \A z \in S :
        /\ C[f[z]].parent = IF z = x THEN Null ELSE f[H[z].parent]
        /\ C[f[z]].ref = IF z = x THEN 0 ELSE 1
        /\ C[f[z]].named = H[z].named /\ C[f[z]].order = H[z].order
        /\ C[f[z]].elem = [H[z].elem EXCEPT !["child"] = kids(z)]
        /\ C[f[z]] = [named |-> C[f[z]].named, parent |-> C[f[z]].parent, ref |-> C[f[z]].ref,
                      elem |-> C[f[z]].elem, order |-> C[f[z]].order]
  BY <1>1, CopiedNodes
<1>a. \A z \in S : /\ C[f[z]].parent = IF z = x THEN Null ELSE f[H[z].parent]
                   /\ C[f[z]].ref = IF z = x THEN 0 ELSE 1
  BY <1>5
<1>b. \A z \in S : C[f[z]].order = H[z].order
  BY <1>5
<1>6. \A y \in Ids \ T : C[y] = H[y]
  BY CopiedRest
<1>7. C = [y \in Ids |-> C[y]]
  BY DEF Copied
<1> HIDE DEF C, S
<1>8. \A z \in S : /\ H[z] \in NodeType /\ H[z].elem \in Elements /\ Len(H[z].elem["child"]) \in Nat
                   /\ \A k \in 1..Len(H[z].elem["child"]) :
                        H[z].elem["child"][k] \in S /\ f[H[z].elem["child"][k]] \in Ids
  BY <1>1, <1>2, <1>3, HeapTypes, SMTT(30) DEF Kids
<1>9. \A z \in S : /\ C[f[z]] \in NodeType
                   /\ C[f[z]].elem["child"] = kids(z) /\ Len(kids(z)) = Len(H[z].elem["child"])
                   /\ \A t \in Types : Len(C[f[z]].elem[t]) = Len(H[z].elem[t])
  <2>1. SUFFICES ASSUME NEW z \in S
                 PROVE  /\ C[f[z]] \in NodeType
                        /\ C[f[z]].elem["child"] = kids(z)
                        /\ Len(kids(z)) = Len(H[z].elem["child"])
                        /\ \A t \in Types : Len(C[f[z]].elem[t]) = Len(H[z].elem[t])
    OBVIOUS
  <2>2. kids(z) \in Seq(Ids) /\ Len(kids(z)) = Len(H[z].elem["child"])
    <3> DEFINE n == Len(H[z].elem["child"])
               g(k) == f[H[z].elem["child"][k]]
    <3>1. n \in Nat /\ \A k \in 1..n : g(k) \in Ids
      BY <1>8
    <3>2. kids(z) = [k \in 1..n |-> g(k)]
      OBVIOUS
    <3> HIDE DEF n, g
    <3>3. kids(z) \in Seq(Ids) /\ Len(kids(z)) = n
      BY <3>1, <3>2, IsASeq
    <3> QED
      BY <3>3 DEF n
  <2>3. kids(z) \in Seq(Ids \cup Values)
    BY <2>2
  <2> HIDE DEF kids
  <2>4. "child" \in Types
    BY DEF Types
  <2>5. C[f[z]].elem \in Elements
    <3>1. H[z].elem \in Elements
      BY <1>8
    <3>2. \A e \in Elements : [e EXCEPT !["child"] = kids(z)] \in Elements
      BY <2>2, <2>3, <2>4, ElementsExcept
    <3> QED
      BY <1>5, <3>1, <3>2
  <2>6. C[f[z]].parent \in Ids \cup {Null}
    BY <1>2, <1>3, <1>5, ZenonT(30)
  <2>7. C[f[z]] \in NodeType
    <3>1. /\ C[f[z]].named \in BOOLEAN /\ C[f[z]].ref \in Nat
          /\ C[f[z]].order \in Seq(Entries)
      <4>1. C[f[z]].named = H[z].named /\ C[f[z]].order = H[z].order
        BY <1>5
      <4>2. C[f[z]].ref \in Nat
        BY <1>a
      <4>3. H[z].named \in BOOLEAN /\ H[z].order \in Seq(Entries)
        BY <1>1, <1>2, HeapTypes
      <4> QED
        BY <4>1, <4>2, <4>3
    <3>2. C[f[z]] = [named |-> C[f[z]].named, parent |-> C[f[z]].parent, ref |-> C[f[z]].ref,
                     elem |-> C[f[z]].elem, order |-> C[f[z]].order]
      BY <1>5
    <3>3. ASSUME NEW m, m.named \in BOOLEAN, m.parent \in Ids \cup {Null}, m.ref \in Nat,
                 m.elem \in Elements, m.order \in Seq(Entries),
                 m = [named |-> m.named, parent |-> m.parent, ref |-> m.ref, elem |-> m.elem,
                      order |-> m.order]
          PROVE  m \in NodeType
      BY <3>3 DEF NodeType
    <3> QED
      BY <2>5, <2>6, <3>1, <3>2, <3>3
  <2>8. \A t \in Types : C[f[z]].elem[t] = IF t = "child" THEN kids(z) ELSE H[z].elem[t]
    BY <1>5, <1>8, <2>4 DEF Elements
  <2> QED
    BY <2>2, <2>4, <2>7, <2>8
<1>10. \A y \in Ids : C[y] \in NodeType /\ Sized(C[y])
  <2>1. \A z \in S : C[f[z]] \in NodeType /\ Sized(C[f[z]])
    <3>1. ASSUME NEW z \in S PROVE Sized(C[f[z]])
      <4>1. Sized(H[z]) /\ H[z] \in NodeType /\ C[f[z]] \in NodeType
        BY <1>1, <1>2, <1>9 DEF Shape
      <4>2. /\ C[f[z]].order = H[z].order
            /\ \A t \in Types : Len(C[f[z]].elem[t]) = Len(H[z].elem[t])
        BY <1>9, <1>b
      <4> QED
        BY <4>1, <4>2, SameNumbers
    <3> QED
      BY <1>9, <3>1
  <2> QED
    BY <1>1, <1>6, <2>1 DEF Shape
<1>11. Shape(C)
  BY <1>7, <1>10 DEF Shape
<1>12. \A z \in S : WellOrdered(H[z]) => WellOrdered(C[f[z]])
  BY <1>5, <1>8, <1>9, SameNumbers
<1>13. \A z \in S : Kids(C, f[z]) = {f[c] : c \in Kids(H, z)}
  <2>1. ASSUME NEW z \in S PROVE Kids(C, f[z]) = {f[c] : c \in Kids(H, z)}
    <3>1. Kids(C, f[z]) = {kids(z)[k] : k \in 1..Len(H[z].elem["child"])}
      BY <1>9 DEF Kids
    <3>2. \A k \in 1..Len(H[z].elem["child"]) : kids(z)[k] = f[H[z].elem["child"][k]]
      OBVIOUS
    <3> QED
      BY <3>1, <3>2 DEF Kids
  <2> QED
    BY <2>1
<1>14. \A y \in Ids \ T : Kids(C, y) = Kids(H, y)
  BY <1>6 DEF Kids
<1> HIDE DEF kids
<1>15. Links(C)
  <2>1. ASSUME NEW p \in Ids, NEW c \in Ids PROVE c \in Kids(C, p) <=> C[c].parent = p
    <3>1. \A a, b \in Ids : b \in Kids(H, a) <=> H[b].parent = a
      BY <1>1 DEF Links
    <3>2. CASE p \notin T
      <4>1. CASE c \notin T
        BY <1>6, <1>14, <3>1, <3>2, <4>1
      <4>2. ASSUME NEW w \in S, c = f[w] PROVE c \in Kids(C, p) <=> C[c].parent = p
        <5>1. c \notin Kids(H, p)
          BY <1>3, <4>2
        <5>2. C[c].parent = Null \/ C[c].parent \in T
          BY <1>2, <1>5, <4>2, ZenonT(30)
        <5> QED
          BY <1>14, <3>2, <5>1, <5>2, NullAssumption
      <4> QED
        BY <4>1, <4>2
    <3>3. ASSUME NEW z \in S, p = f[z] PROVE c \in Kids(C, p) <=> C[c].parent = p
      <4>1. CASE c \notin T
        <5>1. c \notin Kids(C, p)
          BY <1>2, <1>13, <3>3, <4>1
        <5>2. C[c].parent = H[c].parent
          BY <1>6, <4>1
        <5>3. H[c].parent # p
          BY <1>3, <3>1, <3>3
        <5> QED
          BY <5>1, <5>2, <5>3
      <4>2. ASSUME NEW w \in S, c = f[w] PROVE c \in Kids(C, p) <=> C[c].parent = p
        <5>1. c \in Kids(C, p) <=> w \in Kids(H, z)
          BY <1>2, <1>4, <1>13, <3>3, <4>2
        <5>2. w \in Kids(H, z) <=> H[w].parent = z
          BY <1>2, <3>1
        <5>3. CASE w = x
          BY <1>2, <1>a, <4>2, <5>1, <5>2, <5>3, NullAssumption
        <5>4. CASE w # x
          <6>1. H[w].parent \in S /\ C[c].parent = f[H[w].parent]
            BY <1>2, <1>5, <4>2, <5>4
          <6> QED
            BY <1>4, <3>3, <5>1, <5>2, <6>1
        <5> QED
          BY <5>3, <5>4
      <4> QED
        BY <4>1, <4>2
    <3> QED
      BY <3>2, <3>3
  <2> QED
    BY <2>1 DEF Links
<1>16. Once(C)
  <2>1. ASSUME NEW y \in Ids, y \notin T PROVE Distinct(C[y])
    BY <1>1, <1>6, <2>1 DEF Once, Distinct
  <2>2. ASSUME NEW z \in S PROVE Distinct(C[f[z]])
    <3>1. ASSUME NEW k \in 1..Len(kids(z)), NEW l \in 1..Len(kids(z)), kids(z)[k] = kids(z)[l]
          PROVE  k = l
      <4>1. k \in 1..Len(H[z].elem["child"]) /\ l \in 1..Len(H[z].elem["child"])
        BY <1>9
      <4>2. f[H[z].elem["child"][k]] = f[H[z].elem["child"][l]]
        BY <3>1, <4>1 DEF kids
      <4>3. H[z].elem["child"][k] = H[z].elem["child"][l]
        BY <1>4, <1>8, <4>1, <4>2
      <4> QED
        BY <1>1, <1>2, <4>1, <4>3 DEF Once
    <3>2. C[f[z]].elem["child"] = kids(z)
      BY <1>9
    <3> QED
      BY <3>1, <3>2 DEF Distinct
  <2>3. \A y \in Ids : Distinct(C[y])
    BY <2>1, <2>2
  <2> QED
    BY <2>3 DEF Once, Distinct
<1>17. NoCycle(C)
  <2>1. ASSUME NEW A \in SUBSET Ids, A # {} PROVE \E y \in A : C[y].parent \notin A
    <3> DEFINE B == {z \in S : f[z] \in A}
    <3>1. CASE B = {}
      <4>1. PICK y \in A : H[y].parent \notin A
        BY <1>1, <2>1 DEF NoCycle
      <4>2. y \notin T
        BY <3>1
      <4> QED
        BY <1>6, <4>1, <4>2
    <3>2. CASE B # {}
      <4>1. B \in SUBSET Ids
        BY <1>2
      <4>2. PICK z \in B : H[z].parent \notin B
        BY <1>1, <3>2, <4>1 DEF NoCycle
      <4>3. z \in S /\ f[z] \in A
        OBVIOUS
      <4>4. CASE z = x
        BY <1>5, <4>3, <4>4, NullAssumption
      <4>5. CASE z # x
        <5>1. H[z].parent \in S /\ C[f[z]].parent = f[H[z].parent]
          BY <1>2, <1>5, <4>3, <4>5
        <5> QED
          BY <4>2, <4>3, <5>1
      <4> QED
        BY <4>4, <4>5
    <3> QED
      BY <3>1, <3>2
  <2> QED
    BY <2>1 DEF NoCycle
<1>18. Counted(C, dd)
  <2>1. ASSUME NEW z \in S PROVE C[f[z]].ref = Cardinality(Holders(dd, f[z])) + Held(C, f[z])
    <3>1. CASE z = x
      BY <1>3, <1>a, <3>1 DEF Held
    <3>2. CASE z # x
      <4>1. C[f[z]].parent # Null /\ C[f[z]].ref = 1
        BY <1>2, <1>3, <1>a, <3>2, NullAssumption
      <4> QED
        BY <1>3, <4>1 DEF Held
    <3> QED
      BY <3>1, <3>2
  <2>2. ASSUME NEW y \in Ids, y \notin T PROVE C[y].ref = Cardinality(Holders(dd, y)) + Held(C, y)
    BY <1>1, <1>6, <2>2 DEF Counted, Held
  <2>3. \A y \in Ids : C[y].ref = Cardinality(Holders(dd, y)) + Held(C, y)
    BY <2>1, <2>2
  <2> QED
    BY <2>3 DEF Counted
<1>19. FreedBut(C, f[x])
  <2>1. ASSUME NEW y \in Ids \ {f[x]}, C[y].ref = 0 PROVE C[y] = FreeNode
    <3>1. y \notin T
      BY <1>a, <2>1
    <3> QED
      BY <1>1, <1>6, <2>1, <3>1, NullAssumption DEF FreedBut
  <2> QED
    BY <2>1 DEF FreedBut
<1>20. \A y \in Ids : (~\E z \in S : f[z] = y) => C[y] = H[y]
  BY <1>6
<1> HIDE DEF T
<1> QED
  BY <1>1, <1>2, <1>3, <1>11, <1>12, <1>15, <1>16, <1>17, <1>18, <1>19, <1>20 DEF Loose, C, S
(* deleteNodeContent.                                                      *)
LEMMA SubtreeDetached ==
  ASSUME NEW H, Shape(H), Links(H), Once(H), NoCycle(H), NEW x \in Ids, H[x].parent # Null,
         Detachable(H, x)
  PROVE  Subtree(Detached(H, x), x) = Subtree(H, x)
<1> DEFINE L == Detached(H, x)
           q == H[x].parent
           S == Subtree(H, x)
           T == Subtree(L, x)
<1>1. /\ Shape(L)
      /\ \A y \in Ids : Kids(L, y) = Kids(H, y) \ {x} /\ (y # q => L[y] = H[y])
  BY DetachedIs
<1>2. q \notin S
  BY AboveSubtree
<1> HIDE DEF L
<1>3. /\ S \subseteq Ids /\ Closed(H, x, Ids, S)
      /\ \A R \in SUBSET Ids : Closed(H, x, Ids, R) => S \subseteq R
  BY ClosureIs DEF Subtree
<1>4. /\ T \subseteq Ids /\ Closed(L, x, Ids, T)
      /\ \A R \in SUBSET Ids : Closed(L, x, Ids, R) => T \subseteq R
  BY <1>1, ClosureIs DEF Subtree
<1> HIDE DEF S, T
<1>5. Closed(L, x, Ids, S)
  BY <1>1, <1>3 DEF Closed
<1>6. T \subseteq S
  BY <1>3, <1>4, <1>5
<1>7. Closed(H, x, Ids, T)
  <2>1. ASSUME NEW z \in T PROVE Ids \cap Kids(H, z) \subseteq T
    <3>1. z \in Ids /\ z # q
      BY <1>2, <1>4, <1>6
    <3>2. Kids(L, z) = Kids(H, z)
      BY <1>1, <3>1 DEF Kids
    <3> QED
      BY <1>4, <3>2 DEF Closed
  <2> QED
    BY <1>4, <2>1 DEF Closed
<1>8. S = T
  BY <1>3, <1>4, <1>6, <1>7
<1> QED
  BY <1>8 DEF S, T, L

Cleared(H, x) == Emptied(IF H[x].parent = Null THEN H ELSE Detached(H, x), x)

Dropped(H, dd, h) ==
  [g \in Handles |->
     IF g \in {k \in Handles \ {h} : dd[k] \in Subtree(H, dd[h])} \cup {h} THEN Null ELSE dd[g]]

LEMMA ClearedSound ==
  ASSUME NEW H, NEW dd, Sound(H, dd), NEW h \in Handles, dd[h] \in Ids, Detachable(H, dd[h])
  PROVE  /\ Sound(Cleared(H, dd[h]), Dropped(H, dd, h))
         /\ \A y \in Ids : WellOrdered(H[y]) => WellOrdered(Cleared(H, dd[h])[y])
<1> DEFINE x == dd[h]
           L == IF H[x].parent = Null THEN H ELSE Detached(H, x)
           S == Subtree(H, x)
           E == Cleared(H, x)
           dx == Dropped(H, dd, h)
<1>1. /\ Shape(H) /\ Links(H) /\ Once(H) /\ NoCycle(H) /\ Handling(dd) /\ Counted(H, dd)
      /\ FreedBut(H, Null) /\ x \in Ids
  BY DEF Sound
<1>2. /\ S \subseteq Ids /\ x \in S /\ H[x].parent \notin S
      /\ \A z \in S : Kids(H, z) \subseteq S /\ (z # x => H[z].parent \in S)
  <2>1. S \subseteq Ids /\ Closed(H, x, Ids, S)
    BY <1>1, ClosureIs DEF Subtree
  <2>2. \A z \in S : Ids \cap Kids(H, z) = Kids(H, z)
    BY <1>1, <2>1, HeapTypes
  <2>3. \A z \in S : z # x => H[z].parent \in S
    BY <1>1, ClosureParents DEF Subtree
  <2>4. H[x].parent \notin S
    BY <1>1, AboveSubtree
  <2> HIDE DEF S
  <2> QED
    BY <2>1, <2>2, <2>3, <2>4 DEF Closed
<1>3. /\ Shape(L) /\ Once(L) /\ Owned(H, L)
      /\ \A y \in Ids : /\ Kids(L, y) = Kids(H, y) \ {x}
                        /\ WellOrdered(H[y]) => WellOrdered(L[y])
                        /\ y # H[x].parent => L[y] = H[y]
      /\ Subtree(L, x) = S
  <2>1. CASE H[x].parent = Null
    <3>1. L = H /\ \A y \in Ids : x \notin Kids(H, y)
      BY <1>1, <2>1, NullAssumption DEF Links
    <3> QED
      BY <1>1, <3>1 DEF Owned, SameOwner
  <2>2. CASE H[x].parent # Null
    <3>1. L = Detached(H, x)
      BY <2>2
    <3>2. LET D == Detached(H, x)
          IN  /\ Shape(D) /\ Once(D) /\ Owned(H, D)
              /\ \A y \in Ids : /\ Kids(D, y) = Kids(H, y) \ {x}
                                /\ WellOrdered(H[y]) => WellOrdered(D[y])
                                /\ y # H[x].parent => D[y] = H[y]
      BY <1>1, <2>2, DetachedIs
    <3>3. Subtree(Detached(H, x), x) = S
      BY <1>1, <2>2, SubtreeDetached
    <3> QED
      BY <3>1, <3>2, <3>3
  <2> QED
    BY <2>1, <2>2
<1>4. E = [y \in Ids |-> IF y \in Subtree(L, x) THEN FreeNode ELSE L[y]]
  BY DEF Cleared, Emptied
<1> HIDE DEF E, L, S
<1>5. \A y \in Ids : E[y] = IF y \in S THEN FreeNode ELSE L[y]
  BY <1>3, <1>4
<1>6. Shape(E)
  <2>1. \A y \in Ids : E[y] \in NodeType /\ Sized(E[y])
    BY <1>3, <1>5, FreeNodeType DEF Shape
  <2> QED
    BY <1>4, <2>1 DEF Shape
<1>7. \A y \in S : Kids(E, y) = {} /\ E[y].parent = Null /\ E[y].ref = 0
  BY <1>2, <1>5, NoKids, FreeNodeType
<1>8. \A y \in Ids \ S : /\ Kids(E, y) = Kids(H, y) \ {x}
                         /\ E[y].parent = H[y].parent /\ E[y].ref = H[y].ref
  BY <1>3, <1>5, KidsOf DEF Owned, SameOwner
<1>9. Links(E)
  <2>1. ASSUME NEW p \in Ids, NEW c \in Ids PROVE c \in Kids(E, p) <=> E[c].parent = p
    <3>1. c \in Kids(H, p) <=> H[c].parent = p
      BY <1>1 DEF Links
    <3>2. CASE p \in S
      <4>1. c \notin S => H[c].parent # p
        BY <1>2, <3>1, <3>2
      <4> QED
        BY <1>7, <1>8, <3>2, <4>1, NullAssumption
    <3>3. CASE p \notin S /\ c \in S
      <4>1. c # x => H[c].parent # p
        BY <1>2, <3>3
      <4> QED
        BY <1>7, <1>8, <3>1, <3>3, <4>1, NullAssumption
    <3>4. CASE p \notin S /\ c \notin S
      BY <1>2, <1>8, <3>1, <3>4
    <3> QED
      BY <3>2, <3>3, <3>4
  <2> QED
    BY <2>1 DEF Links
<1>10. Once(E)
  <2>1. \A y \in Ids : Distinct(E[y])
    <3>1. ASSUME NEW y \in Ids, y \in S PROVE Distinct(E[y])
      <4>1. 1..Len(E[y].elem["child"]) = {}
        BY <1>5, <3>1, FreeNodeType
      <4> QED
        BY <4>1 DEF Distinct
    <3>2. ASSUME NEW y \in Ids, y \notin S PROVE Distinct(E[y])
      BY <1>3, <1>5, <3>2 DEF Distinct, Once
    <3> QED
      BY <3>1, <3>2
  <2> QED
    BY <2>1 DEF Once, Distinct
<1>11. NoCycle(E)
  <2>1. ASSUME NEW A \in SUBSET Ids, A # {} PROVE \E y \in A : E[y].parent \notin A
    <3>1. PICK y \in A : H[y].parent \notin A
      BY <1>1, <2>1 DEF NoCycle
    <3> QED
      BY <1>7, <1>8, <3>1, NullAssumption
  <2> QED
    BY <2>1 DEF NoCycle
<1>12. /\ Handling(dx)
       /\ \A g \in Handles : dx[g] = IF dd[g] \in S THEN Null ELSE dd[g]
  <2>1. \A g \in Handles : dx[g] = IF dd[g] \in S THEN Null ELSE dd[g]
    BY <1>2 DEF Dropped, S
  <2>2. dx = [g \in Handles |-> dx[g]]
    BY DEF Dropped
  <2> HIDE DEF dx
  <2> QED
    BY <1>1, <2>1, <2>2 DEF Handling
<1> HIDE DEF dx
<1>13. /\ \A y \in S : Holders(dx, y) = {}
       /\ \A y \in Ids \ S : Holders(dx, y) = Holders(dd, y)
  BY <1>2, <1>12, NullAssumption DEF Holders
<1>14. Counted(E, dx)
  <2>1. ASSUME NEW y \in Ids PROVE E[y].ref = Cardinality(Holders(dx, y)) + Held(E, y)
    <3>1. CASE y \in S
      BY <1>7, <1>13, <3>1, FS_EmptySet, SMTT(30) DEF Held
    <3>2. CASE y \notin S
      BY <1>1, <1>8, <1>13, <3>2 DEF Counted, Held
    <3> QED
      BY <3>1, <3>2
  <2> QED
    BY <2>1 DEF Counted
<1>15. FreedBut(E, Null)
  <2>1. ASSUME NEW y \in Ids, E[y].ref = 0 PROVE E[y] = FreeNode
    <3>1. CASE y \in S
      BY <1>5, <3>1
    <3>2. CASE y \notin S
      <4>1. H[y] = FreeNode
        BY <1>1, <1>8, <2>1, <3>2, NullAssumption DEF FreedBut
      <4>2. y # H[x].parent
        BY <1>1, <4>1, NoKids DEF Links
      <4> QED
        BY <1>3, <1>5, <3>2, <4>1, <4>2
    <3> QED
      BY <3>1, <3>2
  <2> QED
    BY <2>1 DEF FreedBut
<1>16. \A y \in Ids : WellOrdered(H[y]) => WellOrdered(E[y])
  BY <1>3, <1>5, FreeNodeType
<1>17. Sound(E, dx)
  BY <1>6, <1>9, <1>10, <1>11, <1>12, <1>14, <1>15 DEF Sound
<1> QED
  BY <1>16, <1>17 DEF E, dx

-----------------------------------------------------------------------------
(* What every reachable state has, beyond what RefsCount and OrderKept     *)
(* say: the links of the trees agree both ways and lead to a root, memory  *)
(* nobody counts is blank, and the loop that moves children has one to     *)
(* move and a node to move it to that is not below it.                     *)

Moves == [from : Ids, to : Ids, at : Int, step : Int]

MovingInv(H, mo) ==
  mo # NotMoving =>
    /\ mo \in Moves
    /\ Kids(H, mo.from) # {}
    /\ \E S \in SUBSET Ids : Closed(H, mo.from, Ids, S) /\ mo.to \notin S
    /\ H[mo.to].ref > 0

OrderInv(H, mi, lo, ov) ==
  /\ mi \subseteq Ids
  /\ \A x \in Ids \ mi : WellOrdered(H[x])
  /\ ov => mi # {} \/ lo # {}

IInv ==
  /\ Sound(heap, d)
  /\ MovingInv(heap, moving)
  /\ OrderInv(heap, mixed, lost, overrun)

LEMMA HandledIs ==
  ASSUME NEW H, NEW dd, Sound(H, dd), NEW h \in Handles, dd[h] # Null
  PROVE  dd[h] \in Ids /\ H[dd[h]].ref > 0
<1>1. dd[h] \in Ids /\ H[dd[h]].ref \in Nat
  BY HeapTypes DEF Sound, Handling
<1>2. IsFiniteSet(Holders(dd, dd[h])) /\ Cardinality(Holders(dd, dd[h])) \in Nat
  BY HandlesAssumption, FS_Subset, FS_CardinalityType DEF Holders
<1>3. Holders(dd, dd[h]) # {}
  BY DEF Holders
<1>4. Cardinality(Holders(dd, dd[h])) # 0
  BY <1>2, <1>3, FS_EmptySet
<1>5. H[dd[h]].ref = Cardinality(Holders(dd, dd[h])) + Held(H, dd[h]) /\ Held(H, dd[h]) \in Nat
  BY <1>1 DEF Sound, Counted, Held
<1> QED
  BY <1>1, <1>2, <1>4, <1>5

LEMMA HeldKid ==
  ASSUME NEW H, NEW dd, Sound(H, dd), NEW p \in Ids, NEW c \in Kids(H, p)
  PROVE  c \in Ids /\ H[c].ref > 0 /\ H[c].parent = p
<1>1. Shape(H) /\ Links(H) /\ Counted(H, dd)
  BY DEF Sound
<1>2. c \in Ids /\ H[c].parent = p
  BY <1>1, HeapTypes DEF Links
<1>3. Cardinality(Holders(dd, c)) \in Nat
  BY HandlesAssumption, FS_Subset, FS_CardinalityType DEF Holders
<1>4. H[c].ref = Cardinality(Holders(dd, c)) + 1
  BY <1>1, <1>2, NullAssumption DEF Counted, Held
<1> QED
  BY <1>2, <1>3, <1>4

(* A node whose order is right can lose any of its elements.               *)
LEMMA OrderedDetachable ==
  ASSUME NEW H, NEW dd, Sound(H, dd), NEW c \in Ids,
         H[c].parent # Null => WellOrdered(H[H[c].parent])
  PROVE  Detachable(H, c)
<1> DEFINE q == H[c].parent
<1>1. SUFFICES ASSUME q # Null PROVE Found(H[q], "child", Index(H[q], c))
  BY DEF Detachable
<1>2. q \in Ids /\ H[q] \in NodeType /\ c \in Kids(H, q)
  BY <1>1, HeapTypes DEF Sound, Links
<1>3. Index(H[q], c) \in 0..(Len(H[q].elem["child"]) - 1)
  BY <1>2, IndexOfKid, KidsOf
<1>4. "child" \in Types
  BY DEF Types
<1> QED
  BY <1>1, <1>3, <1>4 DEF WellOrdered

(* A node that is free or has no content is in order.                      *)
LEMMA EmptyOrdered ==
  ASSUME NEW n \in NodeType, Sized(n), n.order = <<>>
  PROVE  WellOrdered(n)
<1>1. \A t \in Types : Len(n.elem[t]) \in Nat
  BY ElementsOf
<1>2. "child" \in Types /\ "text" \in Types /\ "clear" \in Types
  BY DEF Types
<1>3. Size(n) = 0
  BY DEF Sized
<1>4. \A i, j, k \in Nat : i + j + k = 0 => i = 0 /\ j = 0 /\ k = 0
  OBVIOUS
<1>5. Len(n.elem["child"]) = 0 /\ Len(n.elem["text"]) = 0 /\ Len(n.elem["clear"]) = 0
  BY <1>1, <1>2, <1>3, <1>4, Zenon DEF Size
<1>6. \A t \in Types : Len(n.elem[t]) = 0
  BY <1>5 DEF Types
<1>7. \A t \in Types : 0..(Len(n.elem[t]) - 1) = {}
  BY <1>6
<1>8. 1..Len(n.order) = {} /\ Len(n.order) = Size(n)
  BY DEF Sized
<1> QED
  BY <1>7, <1>8 DEF WellOrdered

LEMMA OrderAfter ==
  ASSUME NEW H, Shape(H), FreedBut(H, Null), NEW M \in SUBSET Ids,
         \A y \in Ids \ M : WellOrdered(H[y]),
         NEW mx, mx = {y \in M : H[y].ref > 0 /\ H[y].order # <<>>}
  PROVE  mx \subseteq Ids /\ \A y \in Ids \ mx : WellOrdered(H[y])
<1>1. ASSUME NEW y \in Ids, y \notin mx PROVE WellOrdered(H[y])
  <2>1. CASE y \notin M
    BY <2>1
  <2>2. CASE y \in M /\ ~(H[y].ref > 0)
    <3>1. H[y].ref = 0
      BY <2>2, HeapTypes
    <3> QED
      BY <3>1, FreeNodeType, NullAssumption DEF FreedBut
  <2>3. CASE H[y].order = <<>>
    BY <2>3, EmptyOrdered, HeapTypes
  <2> QED
    BY <1>1, <2>1, <2>2, <2>3
<1> QED
  BY <1>1

LEMMA KeepsOrdered ==
  ASSUME NEW H, NEW H2, Keeps(H, H2), NEW y \in Ids, WellOrdered(H[y])
  PROVE  WellOrdered(H2[y])
BY SameOrder, FreeNodeType DEF Keeps

LEMMA StillLoose ==
  ASSUME NEW H, NEW dd, Sound(H, dd), NEW x
  PROVE  Loose(H, dd, x)
BY NullAssumption DEF Sound, Loose, FreedBut

-----------------------------------------------------------------------------
(* The steps.                                                              *)

LEMMA InitIInv == Init => IInv
<1> SUFFICES ASSUME Init PROVE IInv
  OBVIOUS
<1>1. \A x \in Ids : heap[x] = FreeNode
  BY DEF Init
<1>2. Shape(heap)
  BY <1>1, FreeNodeType DEF Init, Shape
<1>3. \A x \in Ids : Kids(heap, x) = {} /\ heap[x].parent = Null /\ heap[x].ref = 0
  BY <1>1, NoKids, FreeNodeType
<1>4. Links(heap)
  BY <1>3, NullAssumption DEF Links
<1>5. Once(heap)
  <2>1. \A x \in Ids : 1..Len(heap[x].elem["child"]) = {}
    BY <1>1, FreeNodeType
  <2> QED
    BY <2>1 DEF Once
<1>6. NoCycle(heap)
  BY <1>3, NullAssumption DEF NoCycle
<1>7. Handling(d)
  BY DEF Init, Handling
<1>8. Counted(heap, d)
  <2>1. \A x \in Ids : Holders(d, x) = {}
    BY NullAssumption DEF Init, Holders
  <2> QED
    BY <1>3, <2>1, FS_EmptySet DEF Counted, Held
<1>9. FreedBut(heap, Null)
  BY <1>1 DEF FreedBut
<1>10. OrderInv(heap, mixed, lost, overrun)
  BY <1>1, FreeNodeType DEF Init, OrderInv
<1>11. MovingInv(heap, moving)
  BY DEF Init, MovingInv
<1> QED
  BY <1>2, <1>4, <1>5, <1>6, <1>7, <1>8, <1>9, <1>10, <1>11 DEF IInv, Sound

(* A handle is assigned in a heap H whose memory x is in use though nobody *)
(* counts it yet.                                                          *)
LEMMA AssignStep ==
  ASSUME IInv, Idle, NEW H, NEW h \in Handles, NEW x \in Ids \cup {Null}, Loose(H, d, x),
         NEW M \in SUBSET Ids, \A y \in Ids \ M : WellOrdered(H[y]),
         Assign(h, H, x), Remember(M), Runs
  PROVE  IInv'
<1> DEFINE R == Release(Retain(H, x), d[h])
           dx == [d EXCEPT ![h] = x]
<1>1. Sound(R, dx) /\ Keeps(H, R)
  BY AssignSound DEF Loose
<1>2. heap' = R /\ d' = dx
  BY DEF Assign
<1> HIDE DEF R, dx
<1>3. Sound(heap', d')
  BY <1>1, <1>2
<1>4. \A y \in Ids \ M : WellOrdered(heap'[y])
  BY <1>1, <1>2, KeepsOrdered
<1>5. mixed' \subseteq Ids /\ \A y \in Ids \ mixed' : WellOrdered(heap'[y])
  <2>1. mixed' = {y \in M : heap'[y].ref > 0 /\ heap'[y].order # <<>>}
    BY DEF Remember
  <2>2. Shape(heap') /\ FreedBut(heap', Null)
    BY <1>3 DEF Sound
  <2> QED
    BY <1>4, <2>1, <2>2, OrderAfter
<1>6. moving' = NotMoving /\ overrun' = FALSE
  BY DEF Idle, Runs
<1>7. MovingInv(heap', moving') /\ OrderInv(heap', mixed', lost', overrun')
  BY <1>5, <1>6 DEF MovingInv, OrderInv
<1> QED
  BY <1>3, <1>7 DEF IInv

LEMMA TopStep ==
  ASSUME IInv, NEW h \in Handles, NEW b \in BOOLEAN, createXMLTopNode(h, b)
  PROVE  IInv'
<1>1. PICK x \in Unused(heap) : Assign(h, [heap EXCEPT ![x].named = b], x)
  BY DEF createXMLTopNode
<1>2. /\ Sound(heap, d) /\ x \in Ids /\ mixed \in SUBSET Ids
      /\ \A y \in Ids \ mixed : WellOrdered(heap[y])
  BY DEF IInv, OrderInv, Unused
<1>3. Loose([heap EXCEPT ![x].named = b], d, x) /\ Alike(heap, [heap EXCEPT ![x].named = b])
  BY <1>2, TopNodeLoose
<1>4. PICK H : H = [heap EXCEPT ![x].named = b]
  OBVIOUS
<1>5. \A y \in Ids \ mixed : WellOrdered(H[y])
  BY <1>2, <1>3, <1>4, SameOrder DEF Alike
<1>6. Idle /\ Remember(mixed) /\ Runs
  BY DEF createXMLTopNode
<1> QED
  BY <1>1, <1>2, <1>3, <1>4, <1>5, <1>6, AssignStep

LEMMA HandleStep ==
  ASSUME IInv, Idle, NEW h \in Handles, NEW x \in Ids \cup {Null}, Assign(h, heap, x),
         Remember(mixed), Runs
  PROVE  IInv'
<1>1. Sound(heap, d) /\ mixed \in SUBSET Ids /\ \A y \in Ids \ mixed : WellOrdered(heap[y])
  BY DEF IInv, OrderInv
<1>2. Loose(heap, d, x)
  BY <1>1, StillLoose
<1> QED
  BY <1>1, <1>2, AssignStep

LEMMA CopyStep ==
  ASSUME IInv, NEW h \in Handles, NEW g \in Handles, Copy(h, g)
  PROVE  IInv'
<1>1. d[g] \in Ids \cup {Null}
  BY DEF IInv, Sound, Handling
<1> QED
  BY <1>1, HandleStep DEF Copy

LEMMA DestroyStep ==
  ASSUME IInv, NEW h \in Handles, Destroy(h)
  PROVE  IInv'
BY HandleStep DEF Destroy

LEMMA ChildStep ==
  ASSUME IInv, NEW h \in Handles, NEW g \in Handles, getChildNode(h, g)
  PROVE  IInv'
<1>1. Sound(heap, d) /\ d[g] # Null
  BY DEF IInv, getChildNode
<1>2. PICK x \in Kids(heap, d[g]) : Assign(h, heap, x)
  BY DEF getChildNode
<1>3. x \in Ids
  BY <1>1, HandledIs, HeldKid
<1> QED
  BY <1>2, <1>3, HandleStep DEF getChildNode

LEMMA ParentStep ==
  ASSUME IInv, NEW h \in Handles, NEW g \in Handles, getParentNode(h, g)
  PROVE  IInv'
<1>1. Sound(heap, d) /\ d[g] # Null
  BY DEF IInv, getParentNode
<1>2. heap[d[g]].parent \in Ids \cup {Null}
  BY <1>1, HandledIs, HeapTypes DEF Sound
<1> QED
  BY <1>2, HandleStep DEF getParentNode

LEMMA DeepCopyStep ==
  ASSUME IInv, NEW h \in Handles, NEW g \in Handles, deepCopy(h, g)
  PROVE  IInv'
<1>1. /\ Sound(heap, d) /\ d[g] # Null /\ Idle /\ Runs
      /\ mixed \in SUBSET Ids /\ \A y \in Ids \ mixed : WellOrdered(heap[y])
  BY DEF IInv, OrderInv, deepCopy
<1>2. PICK x : x = d[g]
  OBVIOUS
<1>3. x \in Ids /\ heap[x].ref > 0
  BY <1>1, <1>2, HandledIs
<1>4. PICK f \in [Subtree(heap, x) -> Unused(heap)] :
        /\ IsInjective(f)
        /\ Assign(h, Copied(heap, x, f), f[x])
        /\ Remember(mixed \cup {f[y] : y \in mixed \cap Subtree(heap, x)})
  BY <1>2 DEF deepCopy
<1>5. PICK C : C = Copied(heap, x, f)
  OBVIOUS
<1>6. PICK M : M = mixed \cup {f[y] : y \in mixed \cap Subtree(heap, x)}
  OBVIOUS
<1>7. /\ Loose(C, d, f[x]) /\ f[x] \in Ids
      /\ \A y \in Ids : (~\E z \in Subtree(heap, x) : f[z] = y) => C[y] = heap[y]
      /\ \A z \in Subtree(heap, x) : f[z] \in Ids /\ (WellOrdered(heap[z]) => WellOrdered(C[f[z]]))
  BY <1>1, <1>3, <1>4, <1>5, CopiedLoose
<1>8. M \in SUBSET Ids
  BY <1>1, <1>6, <1>7
<1>9. ASSUME NEW y \in Ids, y \notin M PROVE WellOrdered(C[y])
  <2>1. CASE \E z \in Subtree(heap, x) : f[z] = y
    <3>1. PICK z \in Subtree(heap, x) : f[z] = y
      BY <2>1
    <3>2. z \notin mixed /\ z \in Ids
      BY <1>6, <1>9, <3>1 DEF Subtree, Closure
    <3> QED
      BY <1>1, <1>7, <3>1, <3>2
  <2>2. CASE ~\E z \in Subtree(heap, x) : f[z] = y
    BY <1>1, <1>6, <1>7, <1>9, <2>2
  <2> QED
    BY <2>1, <2>2
<1> QED
  BY <1>1, <1>4, <1>5, <1>6, <1>7, <1>8, <1>9, AssignStep

LEMMA NewChildStep ==
  ASSUME IInv, NEW h \in Handles, NEW g \in Handles, NEW pos \in Int, addNewChild(h, g, pos)
  PROVE  IInv'
<1>1. /\ Sound(heap, d) /\ d[g] # Null /\ Idle
      /\ mixed \in SUBSET Ids /\ \A y \in Ids \ mixed : WellOrdered(heap[y])
  BY DEF IInv, OrderInv, addNewChild
<1>2. PICK p : p = d[g]
  OBVIOUS
<1>3. p \in Ids /\ heap[p].ref > 0
  BY <1>1, <1>2, HandledIs
<1>4. CASE Insertable(heap[p], "child", pos)
  <2>1. /\ \E x \in Unused(heap) : Assign(h, NewChild(heap, x, p, pos), x)
        /\ Remember(mixed \cup Mixing(p, "child", pos)) /\ Runs
    BY <1>2, <1>4 DEF addNewChild, NewChild
  <2>2. PICK x \in Unused(heap) : Assign(h, NewChild(heap, x, p, pos), x)
    BY <2>1
  <2>3. PICK N : N = NewChild(heap, x, p, pos)
    OBVIOUS
  <2>4. PICK M : M = mixed \cup Mixing(p, "child", pos)
    OBVIOUS
  <2>5. /\ Loose(N, d, x)
        /\ \A y \in Ids : y # p /\ WellOrdered(heap[y]) => WellOrdered(N[y])
        /\ WellOrdered(heap[p]) /\ ~OtherTypeAt(heap[p], "child", pos) => WellOrdered(N[p])
    BY <1>1, <1>3, <1>4, <2>3, NewChildLoose
  <2>6. M \in SUBSET Ids /\ x \in Ids
    BY <1>1, <1>3, <2>4 DEF Mixing, Unused
  <2>7. \A y \in Ids \ M : WellOrdered(N[y])
    BY <1>1, <2>4, <2>5 DEF Mixing
  <2> QED
    BY <1>1, <2>1, <2>2, <2>3, <2>4, <2>5, <2>6, <2>7, AssignStep
<1>5. CASE ~Insertable(heap[p], "child", pos)
  <2>1. Overrun
    BY <1>2, <1>5 DEF addNewChild
  <2>2. "child" \in Types /\ heap[p] \in NodeType
    BY <1>1, <1>3 DEF Types, Sound, Shape
  <2>3. p \in mixed
    BY <1>1, <1>3, <1>5, <2>2, WellOrderedInsertable
  <2>4. /\ heap' = heap /\ d' = d /\ moving' = moving /\ lost' = lost /\ mixed' = mixed
        /\ mixed # {}
    BY <2>1, <2>3 DEF Overrun
  <2>5. OrderInv(heap', mixed', lost', overrun')
    BY <1>1, <2>4 DEF OrderInv
  <2> QED
    BY <2>4, <2>5 DEF IInv
<1> QED
  BY <1>4, <1>5
(* A node becomes n; d and the rest stay.                                  *)
LEMMA EditStep ==
  ASSUME IInv, Idle, NEW x \in Ids, heap[x].ref > 0, NEW n \in NodeType, Sized(n),
         n.parent = heap[x].parent, n.ref = heap[x].ref,
         n.elem["child"] = heap[x].elem["child"],
         NEW M \in SUBSET Ids, mixed \subseteq M, x \notin M => WellOrdered(n),
         heap' = [heap EXCEPT ![x] = n], Remember(M), UNCHANGED d, Runs
  PROVE  IInv'
<1>1. Sound(heap, d) /\ \A y \in Ids \ mixed : WellOrdered(heap[y])
  BY DEF IInv, OrderInv
<1>2. PICK N : N = [heap EXCEPT ![x] = n]
  OBVIOUS
<1>3. Sound(N, d)
  BY <1>1, <1>2, EditSound
<1>4. heap' = N /\ d' = d
  BY <1>2
<1>5. \A y \in Ids \ M : WellOrdered(N[y])
  BY <1>1, <1>2 DEF Sound, Shape
<1>6. mixed' = {y \in M : N[y].ref > 0 /\ N[y].order # <<>>}
  BY <1>4 DEF Remember
<1>7. mixed' \subseteq Ids /\ \A y \in Ids \ mixed' : WellOrdered(N[y])
  BY <1>3, <1>5, <1>6, OrderAfter DEF Sound
<1>8. moving' = NotMoving /\ overrun' = FALSE
  BY DEF Idle, Runs
<1>9. MovingInv(heap', moving') /\ OrderInv(heap', mixed', lost', overrun')
  BY <1>4, <1>7, <1>8 DEF MovingInv, OrderInv
<1> QED
  BY <1>3, <1>4, <1>9 DEF IInv

(* The code overran, and some node's order or some handle is to blame.     *)
LEMMA OverrunStep ==
  ASSUME IInv, Overrun, mixed # {} \/ lost # {}
  PROVE  IInv'
<1>1. /\ heap' = heap /\ d' = d /\ moving' = moving /\ lost' = lost /\ mixed' = mixed
  BY DEF Overrun
<1>2. OrderInv(heap', mixed', lost', overrun')
  BY <1>1 DEF OrderInv, IInv
<1> QED
  BY <1>1, <1>2 DEF IInv

LEMMA AddLeafStep ==
  ASSUME IInv, NEW h \in Handles, NEW t \in {"text", "clear"}, NEW v \in Values, NEW pos \in Int,
         addLeaf(h, t, v, pos)
  PROVE  IInv'
<1>1. /\ Sound(heap, d) /\ d[h] # Null /\ Idle
      /\ mixed \in SUBSET Ids /\ \A y \in Ids \ mixed : WellOrdered(heap[y])
  BY DEF IInv, OrderInv, addLeaf
<1>2. PICK x : x = d[h]
  OBVIOUS
<1>3. x \in Ids /\ heap[x].ref > 0
  BY <1>1, <1>2, HandledIs
<1>4. heap[x] \in NodeType /\ Sized(heap[x]) /\ t \in Types /\ t # "child"
  BY <1>1, <1>3 DEF Types, Sound, Shape
<1>5. CASE Insertable(heap[x], t, pos)
  <2>1. /\ heap' = [heap EXCEPT ![x] = With(heap[x], t, v, pos)]
        /\ Remember(mixed \cup Mixing(x, t, pos)) /\ UNCHANGED d /\ Runs
    BY <1>2, <1>5 DEF addLeaf
  <2>2. PICK n : n = With(heap[x], t, v, pos)
    OBVIOUS
  <2>3. PICK M : M = mixed \cup Mixing(x, t, pos)
    OBVIOUS
  <2>4. /\ n \in NodeType /\ Sized(n)
        /\ WellOrdered(heap[x]) /\ ~OtherTypeAt(heap[x], t, pos) => WellOrdered(n)
    BY <1>4, <1>5, <2>2, WithKeeps
  <2>5. /\ n.parent = heap[x].parent /\ n.ref = heap[x].ref
        /\ n.elem["child"] = heap[x].elem["child"]
    BY <1>4, <2>2, OtherKids DEF SameOwner
  <2>6. M \in SUBSET Ids /\ mixed \subseteq M
    BY <1>1, <1>3, <2>3 DEF Mixing
  <2>7. x \notin M => WellOrdered(n)
    BY <1>1, <1>3, <2>3, <2>4 DEF Mixing
  <2> QED
    BY <1>1, <1>3, <2>1, <2>2, <2>3, <2>4, <2>5, <2>6, <2>7, EditStep
<1>6. CASE ~Insertable(heap[x], t, pos)
  <2>1. Overrun
    BY <1>2, <1>6 DEF addLeaf
  <2>2. x \in mixed
    BY <1>1, <1>3, <1>4, <1>6, WellOrderedInsertable
  <2> QED
    BY <2>1, <2>2, OverrunStep
<1> QED
  BY <1>5, <1>6

LEMMA DeleteLeafStep ==
  ASSUME IInv, NEW h \in Handles, NEW t \in {"text", "clear"}, NEW i \in Int, deleteLeaf(h, t, i)
  PROVE  IInv'
<1>1. /\ Sound(heap, d) /\ d[h] # Null /\ Idle /\ i \in 0..(Len(heap[d[h]].elem[t]) - 1)
      /\ mixed \in SUBSET Ids /\ \A y \in Ids \ mixed : WellOrdered(heap[y])
  BY DEF IInv, OrderInv, deleteLeaf
<1>2. PICK x : x = d[h]
  OBVIOUS
<1>3. x \in Ids /\ heap[x].ref > 0
  BY <1>1, <1>2, HandledIs
<1>4. heap[x] \in NodeType /\ Sized(heap[x]) /\ t \in Types /\ t # "child"
  BY <1>1, <1>3 DEF Types, Sound, Shape
<1>5. CASE Found(heap[x], t, i)
  <2>1. /\ heap' = [heap EXCEPT ![x] = Without(heap[x], t, i)]
        /\ Remember(mixed) /\ UNCHANGED d /\ Runs
    BY <1>2, <1>5 DEF deleteLeaf
  <2>2. PICK n : n = Without(heap[x], t, i)
    OBVIOUS
  <2>3. n \in NodeType /\ Sized(n) /\ (WellOrdered(heap[x]) => WellOrdered(n))
    BY <1>1, <1>2, <1>4, <1>5, <2>2, WithoutKeeps
  <2>4. /\ n.parent = heap[x].parent /\ n.ref = heap[x].ref
        /\ n.elem["child"] = heap[x].elem["child"]
    BY <1>4, <2>2, OtherKids DEF SameOwner
  <2> QED
    BY <1>1, <1>3, <2>1, <2>2, <2>3, <2>4, EditStep
<1>6. CASE ~Found(heap[x], t, i)
  <2>1. Overrun
    BY <1>2, <1>6 DEF deleteLeaf
  <2>2. x \in mixed
    BY <1>1, <1>2, <1>3, <1>4, <1>6 DEF WellOrdered
  <2> QED
    BY <2>1, <2>2, OverrunStep
<1> QED
  BY <1>5, <1>6

Changed(nd, t, i, v) == [nd EXCEPT !.elem[t][i] = v]

LEMMA ChangedLeaf ==
  ASSUME NEW nd \in NodeType, Sized(nd), NEW t \in Types, t # "child", NEW v \in Values,
         NEW i \in 1..Len(nd.elem[t])
  PROVE  LET n == Changed(nd, t, i, v)
         IN  /\ n \in NodeType /\ Sized(n) /\ (WellOrdered(nd) => WellOrdered(n))
             /\ n.parent = nd.parent /\ n.ref = nd.ref /\ n.elem["child"] = nd.elem["child"]
<1> DEFINE s == [nd.elem[t] EXCEPT ![i] = v]
           e == [nd.elem EXCEPT ![t] = s]
           n == Changed(nd, t, i, v)
<1>1. nd = [named |-> nd.named, parent |-> nd.parent, ref |-> nd.ref,
            elem |-> nd.elem, order |-> nd.order]
  BY DEF NodeType
<1>2. n = [nd EXCEPT !.elem = e]
  BY DEF Changed
<1>3. nd.elem \in Elements /\ nd.elem[t] \in Seq(Ids \cup Values) /\ "child" \in Types
  BY ElementsOf DEF NodeType, Types
<1>4. s \in Seq(Ids \cup Values) /\ Len(s) = Len(nd.elem[t])
  BY <1>3, ExceptSeq
<1> HIDE DEF s
<1>5. e \in Elements
  BY <1>3, <1>4, ElementsExcept
<1>6. \A u \in Types : e[u] = IF u = t THEN s ELSE nd.elem[u]
  BY <1>3 DEF Elements
<1> HIDE DEF e, n
<1>7. n = [named |-> nd.named, parent |-> nd.parent, ref |-> nd.ref, elem |-> e, order |-> nd.order]
  BY <1>1, <1>2
<1>8. n \in NodeType
  BY <1>5, <1>7 DEF NodeType
<1>9. \A u \in Types : Len(n.elem[u]) = Len(nd.elem[u])
  BY <1>4, <1>6, <1>7
<1>10. Sized(n) /\ (WellOrdered(nd) => WellOrdered(n))
  BY <1>7, <1>8, <1>9, SameNumbers
<1>11. n.parent = nd.parent /\ n.ref = nd.ref /\ n.elem["child"] = nd.elem["child"]
  BY <1>3, <1>6, <1>7
<1> QED
  BY <1>8, <1>10, <1>11 DEF n

LEMMA UpdateLeafStep ==
  ASSUME IInv, NEW h \in Handles, NEW t \in {"text", "clear"}, NEW v \in Values, NEW i \in Int,
         updateLeaf(h, t, v, i)
  PROVE  IInv'
<1>1. /\ Sound(heap, d) /\ d[h] # Null /\ Idle /\ i \in 0..Len(heap[d[h]].elem[t])
      /\ mixed \in SUBSET Ids /\ \A y \in Ids \ mixed : WellOrdered(heap[y])
      /\ Remember(mixed) /\ UNCHANGED d /\ Runs
  BY DEF IInv, OrderInv, updateLeaf
<1>2. PICK x : x = d[h]
  OBVIOUS
<1>3. x \in Ids /\ heap[x].ref > 0
  BY <1>1, <1>2, HandledIs
<1>4. heap[x] \in NodeType /\ Sized(heap[x]) /\ t \in Types /\ t # "child"
  BY <1>1, <1>3 DEF Types, Sound, Shape
<1>5. PICK n : n = IF i < Len(heap[x].elem[t]) THEN [heap[x] EXCEPT !.elem[t][i + 1] = v]
                   ELSE With(heap[x], t, v, -1)
  OBVIOUS
<1>6. heap' = [heap EXCEPT ![x] = n]
  BY <1>2, <1>5 DEF updateLeaf
<1>7. /\ n \in NodeType /\ Sized(n) /\ (WellOrdered(heap[x]) => WellOrdered(n))
      /\ n.parent = heap[x].parent /\ n.ref = heap[x].ref
      /\ n.elem["child"] = heap[x].elem["child"]
  <2>1. Len(heap[x].elem[t]) \in Nat /\ Size(heap[x]) \in Nat
    BY <1>4, ElementsOf, SizeType
  <2>2. CASE i < Len(heap[x].elem[t])
    <3>1. i + 1 \in 1..Len(heap[x].elem[t])
      BY <1>1, <1>2, <2>1, <2>2
    <3>2. n = Changed(heap[x], t, i + 1, v)
      BY <1>5, <2>2 DEF Changed
    <3> QED
      BY <1>4, <3>1, <3>2, ChangedLeaf
  <2>3. CASE ~(i < Len(heap[x].elem[t]))
    <3>1. n = With(heap[x], t, v, -1)
      BY <1>5, <2>3
    <3>2. ~Inside(heap[x], -1) /\ ~OtherTypeAt(heap[x], t, -1)
      BY DEF Inside, OtherTypeAt
    <3>3. Insertable(heap[x], t, -1)
      BY <2>1, <3>2, AddedAtEnd DEF Insertable
    <3>4. -1 \in Int
      OBVIOUS
    <3>5. /\ n \in NodeType /\ Sized(n)
          /\ WellOrdered(heap[x]) /\ ~OtherTypeAt(heap[x], t, -1) => WellOrdered(n)
      BY <1>4, <3>1, <3>3, <3>4, WithKeeps
    <3> QED
      BY <1>4, <3>1, <3>2, <3>5, OtherKids DEF SameOwner
  <2> QED
    BY <2>2, <2>3
<1> QED
  BY <1>1, <1>3, <1>6, <1>7, EditStep

LEMMA NameStep ==
  ASSUME IInv, NEW h \in Handles, updateName(h)
  PROVE  IInv'
<1>1. /\ Sound(heap, d) /\ d[h] # Null /\ OrderInv(heap, mixed, lost, overrun)
      /\ moving = NotMoving
      /\ d' = d /\ moving' = moving /\ lost' = lost /\ mixed' = mixed /\ overrun' = overrun
  BY DEF IInv, updateName, Idle
<1>2. PICK x : x = d[h]
  OBVIOUS
<1>3. x \in Ids /\ heap[x].ref > 0
  BY <1>1, <1>2, HandledIs
<1>4. heap[x] \in NodeType /\ Sized(heap[x])
  BY <1>1, <1>3 DEF Sound, Shape
<1>5. PICK n : n = [heap[x] EXCEPT !.named = TRUE]
  OBVIOUS
<1>6. n \in NodeType /\ n.elem = heap[x].elem /\ n.order = heap[x].order
      /\ n.parent = heap[x].parent /\ n.ref = heap[x].ref
  BY <1>4, <1>5 DEF NodeType
<1>7. Sized(n)
  BY <1>4, <1>6 DEF Sized, Size
<1>8. PICK N : N = [heap EXCEPT ![x] = n]
  OBVIOUS
<1>9. heap' = N
  BY <1>1, <1>2, <1>3, <1>5, <1>8 DEF updateName, Sound, Shape
<1>10. Sound(N, d)
  BY <1>1, <1>3, <1>6, <1>7, <1>8, EditSound
<1>11. \A y \in Ids : WellOrdered(heap[y]) => WellOrdered(N[y])
  BY <1>1, <1>6, <1>8, SameOrder DEF Sound, Shape
<1>12. OrderInv(N, mixed, lost, overrun) /\ MovingInv(N, moving)
  BY <1>1, <1>11 DEF OrderInv, MovingInv
<1> QED
  BY <1>1, <1>9, <1>10, <1>12 DEF IInv
LEMMA PlaceStep ==
  ASSUME Sound(heap, d), OrderInv(heap, mixed, lost, overrun), ~overrun,
         NEW c \in Ids, heap[c].ref > 0, NEW p \in Ids, heap[p].ref > 0, NEW pos \in Int,
         NEW S \in SUBSET Ids, Closed(heap, c, Ids, S), p \notin S, Place(c, p, pos)
  PROVE  /\ Sound(heap', d') /\ OrderInv(heap', mixed', lost', overrun')
         /\ \/ heap' = heap
            \/ /\ \A y \in Ids : y # p => Kids(heap', y) = Kids(heap, y) \ {c}
               /\ heap'[p].ref = heap[p].ref
<1> DEFINE lands == Lands(heap, c, p, pos)
           L == Left(heap, c)
<1>1. /\ mixed \in SUBSET Ids /\ \A y \in Ids \ mixed : WellOrdered(heap[y])
      /\ Shape(heap) /\ Links(heap) /\ Once(heap)
  BY DEF OrderInv, Sound
<1>2. CASE Detachable(heap, c) /\ Insertable(L[p], "child", lands)
  <2>1. /\ heap' = Moved(heap, c, p, pos) /\ Remember(mixed \cup MixingMove(c, p, pos))
        /\ UNCHANGED <<d, lost, overrun>>
    BY <1>2 DEF Place
  <2>2. PICK N : N = Moved(heap, c, p, pos)
    OBVIOUS
  <2>3. PICK M : M = mixed \cup MixingMove(c, p, pos)
    OBVIOUS
  <2>4. /\ Sound(N, d)
        /\ \A y \in Ids : y # p => Kids(N, y) = Kids(heap, y) \ {c}
        /\ \A y \in Ids : y # p /\ WellOrdered(heap[y]) => WellOrdered(N[y])
        /\ WellOrdered(heap[p]) /\ ~OtherTypeAt(L[p], "child", lands) => WellOrdered(N[p])
        /\ N[p].ref = heap[p].ref
    BY <1>2, <2>2, MovedSound
  <2>5. M \in SUBSET Ids
    BY <1>1, <2>3 DEF MixingMove
  <2>6. ASSUME NEW y \in Ids, y \notin M PROVE WellOrdered(N[y])
    BY <1>1, <2>3, <2>4, <2>6 DEF MixingMove
  <2>7. heap' = N /\ d' = d /\ overrun' = FALSE
    BY <2>1, <2>2
  <2>8. mixed' = {y \in M : N[y].ref > 0 /\ N[y].order # <<>>}
    BY <2>1, <2>3, <2>7 DEF Remember
  <2>9. mixed' \subseteq Ids /\ \A y \in Ids \ mixed' : WellOrdered(N[y])
    BY <2>4, <2>5, <2>6, <2>8, OrderAfter DEF Sound
  <2>10. OrderInv(heap', mixed', lost', overrun')
    BY <2>7, <2>9 DEF OrderInv
  <2> QED
    BY <2>4, <2>7, <2>10
<1>3. CASE ~(Detachable(heap, c) /\ Insertable(L[p], "child", lands))
  <2>1. overrun' = TRUE /\ heap' = heap /\ d' = d /\ lost' = lost /\ mixed' = mixed
    BY <1>3 DEF Place
  <2>2. mixed # {}
    <3>1. ASSUME mixed = {} PROVE FALSE
      <4>1. \A y \in Ids : WellOrdered(heap[y])
        BY <1>1, <3>1
      <4>2. Detachable(heap, c)
        <5>1. heap[c].parent \in Ids \cup {Null}
          BY <1>1, HeapTypes
        <5> QED
          BY <4>1, <5>1, OrderedDetachable
      <4>3. L[p] \in NodeType /\ WellOrdered(L[p])
        BY <1>1, <4>1, <4>2, LeftIs DEF Shape
      <4>4. "child" \in Types /\ lands \in Int
        BY DEF Types, Lands
      <4> HIDE DEF L, lands
      <4> QED
        BY <1>3, <4>2, <4>3, <4>4, WellOrderedInsertable
    <3> QED
      BY <3>1
  <2>3. OrderInv(heap', mixed', lost', overrun')
    BY <1>1, <2>1, <2>2 DEF OrderInv
  <2> QED
    BY <2>1, <2>3
<1> QED
  BY <1>2, <1>3

(* Where the program may put g: nowhere below itself.                      *)
LEMMA AcyclicIs ==
  ASSUME Sound(heap, d), NEW h \in Handles, NEW g \in Handles, d[h] # Null, d[g] # Null,
         Acyclic(h, g)
  PROVE  \E S \in SUBSET Ids : Closed(heap, d[g], Ids, S) /\ d[h] \notin S
<1>1. d[g] \in Ids
  BY HandledIs
<1>2. Subtree(heap, d[g]) \in SUBSET Ids /\ Closed(heap, d[g], Ids, Subtree(heap, d[g]))
  BY <1>1, ClosureIs DEF Subtree, Sound
<1> QED
  BY <1>2 DEF Acyclic

LEMMA AddChildStep ==
  ASSUME IInv, NEW h \in Handles, NEW g \in Handles, NEW pos \in Int, Acyclic(h, g),
         addChild(h, g, pos)
  PROVE  IInv'
<1>1. /\ Sound(heap, d) /\ OrderInv(heap, mixed, lost, overrun) /\ ~overrun /\ moving = NotMoving
      /\ d[h] # Null /\ d[g] # Null /\ Place(d[g], d[h], pos) /\ moving' = moving
  BY DEF IInv, addChild, Idle
<1>2. PICK S \in SUBSET Ids : Closed(heap, d[g], Ids, S) /\ d[h] \notin S
  BY <1>1, AcyclicIs
<1>3. d[g] \in Ids /\ heap[d[g]].ref > 0 /\ d[h] \in Ids /\ heap[d[h]].ref > 0
  BY <1>1, HandledIs
<1>4. Sound(heap', d') /\ OrderInv(heap', mixed', lost', overrun')
  BY <1>1, <1>2, <1>3, PlaceStep
<1> QED
  BY <1>1, <1>4 DEF IInv, MovingInv

LEMMA AddChildrenStep ==
  ASSUME IInv, NEW h \in Handles, NEW g \in Handles, NEW pos \in Int, Acyclic(h, g),
         addChildrenOf(h, g, pos)
  PROVE  IInv'
<1>1. /\ Sound(heap, d) /\ OrderInv(heap, mixed, lost, overrun)
      /\ d[h] # Null /\ d[g] # Null /\ Kids(heap, d[g]) # {}
      /\ moving' = [from |-> d[g], to |-> d[h], at |-> pos, step |-> IF pos >= 0 THEN 1 ELSE 0]
      /\ heap' = heap /\ d' = d /\ lost' = lost /\ mixed' = mixed /\ overrun' = overrun
  BY DEF IInv, addChildrenOf
<1>2. \E S \in SUBSET Ids : Closed(heap, d[g], Ids, S) /\ d[h] \notin S
  BY <1>1, AcyclicIs
<1>3. d[g] \in Ids /\ d[h] \in Ids /\ heap[d[h]].ref > 0
  BY <1>1, HandledIs
<1>4. moving' \in Moves
  BY <1>1, <1>3 DEF Moves
<1>5. MovingInv(heap, moving')
  BY <1>1, <1>2, <1>3, <1>4 DEF MovingInv
<1> QED
  BY <1>1, <1>5 DEF IInv

LEMMA MoveStep ==
  ASSUME IInv, MoveNext
  PROVE  IInv'
<1> DEFINE from == moving.from
           to == moving.to
           s == heap[from].elem["child"]
           c == s[1]
<1>1. /\ Sound(heap, d) /\ OrderInv(heap, mixed, lost, overrun) /\ ~overrun
      /\ moving # NotMoving /\ moving \in Moves /\ Kids(heap, from) # {} /\ heap[to].ref > 0
      /\ Place(c, to, moving.at)
      /\ moving' = IF Len(s) = 1 THEN NotMoving ELSE [moving EXCEPT !.at = @ + moving.step]
  BY DEF IInv, MoveNext, MovingInv
<1>2. PICK S \in SUBSET Ids : Closed(heap, from, Ids, S) /\ to \notin S
  BY <1>1 DEF IInv, MovingInv
<1>3. from \in Ids /\ to \in Ids /\ moving.at \in Int /\ moving.step \in Int
  BY <1>1 DEF Moves
<1>4. s \in Seq(Ids) /\ Len(s) \in Nat /\ Kids(heap, from) \subseteq Ids
  BY <1>1, <1>3, HeapTypes DEF Sound
<1>5. Len(s) >= 1
  BY <1>1, <1>4 DEF Kids
<1>6. c \in Kids(heap, from)
  BY <1>4, <1>5 DEF Kids
<1>7. c \in Ids /\ heap[c].ref > 0
  BY <1>1, <1>3, <1>6, HeldKid
<1>8. Closed(heap, c, Ids, S)
  BY <1>2, <1>4, <1>6 DEF Closed
<1>9. /\ Sound(heap', d') /\ OrderInv(heap', mixed', lost', overrun')
      /\ \/ heap' = heap
         \/ /\ \A y \in Ids : y # to => Kids(heap', y) = Kids(heap, y) \ {c}
            /\ heap'[to].ref = heap[to].ref
  <2> HIDE DEF c, to
  <2> QED
    BY <1>1, <1>2, <1>3, <1>7, <1>8, PlaceStep
<1>10. MovingInv(heap', moving')
  <2>1. CASE Len(s) = 1
    BY <1>1, <2>1 DEF MovingInv
  <2>2. CASE Len(s) # 1
    <3>1. moving' = [moving EXCEPT !.at = @ + moving.step]
      BY <1>1, <2>2
    <3>2. moving' \in Moves /\ moving'.from = from /\ moving'.to = to
      BY <1>1, <1>3, <3>1 DEF Moves
    <3>3. from \in S /\ from # to
      BY <1>2 DEF Closed
    <3>4. s[2] \in Kids(heap, from) /\ s[2] # c
      <4>1. 1 \in 1..Len(s) /\ 2 \in 1..Len(s)
        <5>1. ASSUME NEW n \in Nat, n >= 1, n # 1 PROVE 1 \in 1..n /\ 2 \in 1..n
          BY <5>1
        <5>2. PICK n : n = Len(s)
          OBVIOUS
        <5>3. n \in Nat /\ n >= 1 /\ n # 1
          BY <1>4, <1>5, <2>2, <5>2
        <5>4. 1 \in 1..n /\ 2 \in 1..n
          BY <5>1, <5>3
        <5> QED
          BY <5>2, <5>4, Zenon
      <4>2. \A k, l \in 1..Len(s) : s[k] = s[l] => k = l
        BY <1>1, <1>3 DEF Sound, Once
      <4>3. s[2] # s[1]
        BY <4>1, <4>2
      <4> QED
        BY <4>1, <4>3 DEF Kids
    <3>5. Kids(heap', from) # {}
      BY <1>1, <1>3, <1>9, <3>3, <3>4
    <3>6. \A z \in S : Kids(heap', z) \subseteq Kids(heap, z)
      BY <1>2, <1>9
    <3>7. Closed(heap', from, Ids, S)
      BY <1>2, <3>6 DEF Closed
    <3>8. heap'[to].ref > 0
      BY <1>1, <1>9
    <3> QED
      BY <1>2, <3>2, <3>5, <3>7, <3>8 DEF MovingInv
  <2> QED
    BY <2>1, <2>2
<1> QED
  BY <1>9, <1>10 DEF IInv

LEMMA DeleteStep ==
  ASSUME IInv, NEW h \in Handles, deleteNodeContent(h)
  PROVE  IInv'
<1>1. /\ Sound(heap, d) /\ d[h] # Null /\ Idle
      /\ mixed \in SUBSET Ids /\ \A y \in Ids \ mixed : WellOrdered(heap[y])
  BY DEF IInv, OrderInv, deleteNodeContent
<1>2. d[h] \in Ids
  BY <1>1, HandledIs
<1>3. CASE ~Detachable(heap, d[h])
  <2>1. Overrun
    BY <1>3 DEF deleteNodeContent
  <2>2. mixed # {}
    <3>1. heap[d[h]].parent \in Ids \cup {Null}
      BY <1>1, <1>2, HeapTypes DEF Sound
    <3> QED
      BY <1>1, <1>2, <1>3, <3>1, OrderedDetachable
  <2> QED
    BY <2>1, <2>2, OverrunStep
<1>4. CASE Detachable(heap, d[h])
  <2>1. /\ heap' = Cleared(heap, d[h]) /\ d' = Dropped(heap, d, h)
        /\ Remember(mixed) /\ moving' = moving /\ overrun' = overrun
    BY <1>4 DEF deleteNodeContent, Cleared, Dropped
  <2>2. PICK E : E = Cleared(heap, d[h])
    OBVIOUS
  <2>3. PICK dx : dx = Dropped(heap, d, h)
    OBVIOUS
  <2>4. Sound(E, dx) /\ \A y \in Ids : WellOrdered(heap[y]) => WellOrdered(E[y])
    BY <1>1, <1>2, <1>4, <2>2, <2>3, ClearedSound
  <2>5. heap' = E /\ d' = dx
    BY <2>1, <2>2, <2>3
  <2>6. mixed' = {y \in mixed : E[y].ref > 0 /\ E[y].order # <<>>}
    BY <2>1, <2>5 DEF Remember
  <2>7. \A y \in Ids \ mixed : WellOrdered(E[y])
    BY <1>1, <2>4
  <2>8. mixed' \subseteq Ids /\ \A y \in Ids \ mixed' : WellOrdered(E[y])
    BY <1>1, <2>4, <2>6, <2>7, OrderAfter DEF Sound
  <2>9. overrun' = FALSE /\ moving' = NotMoving
    BY <1>1, <2>1 DEF Idle
  <2>10. OrderInv(heap', mixed', lost', overrun') /\ MovingInv(heap', moving')
    BY <2>5, <2>8, <2>9 DEF OrderInv, MovingInv
  <2> QED
    BY <2>4, <2>5, <2>10 DEF IInv
<1> QED
  BY <1>3, <1>4

LEMMA LostStep ==
  ASSUME IInv, NEW h \in lost, useLost(h)
  PROVE  IInv'
<1>1. Overrun /\ lost # {}
  BY DEF useLost
<1> QED
  BY <1>1, OverrunStep

LEMMA NextIInv == IInv /\ [Next]_vars => IInv'
<1> SUFFICES ASSUME IInv, [Next]_vars PROVE IInv'
  OBVIOUS
<1>1. CASE UNCHANGED vars
  BY <1>1 DEF IInv, vars
<1>2. CASE MoveNext
  BY <1>2, MoveStep
<1>3. ASSUME NEW h \in lost, useLost(h) PROVE IInv'
  BY <1>3, LostStep
<1>4. ASSUME NEW h \in Handles, NEW b \in BOOLEAN, createXMLTopNode(h, b) PROVE IInv'
  BY <1>4, TopStep
<1>5. ASSUME NEW h \in Handles, Destroy(h) PROVE IInv'
  BY <1>5, DestroyStep
<1>6. ASSUME NEW h \in Handles, updateName(h) PROVE IInv'
  BY <1>6, NameStep
<1>7. ASSUME NEW h \in Handles, deleteNodeContent(h) PROVE IInv'
  BY <1>7, DeleteStep
<1>8. ASSUME NEW h \in Handles, Building(h) PROVE IInv'
  <2>1. PICK pos \in -1..MaxElems :
          \/ \E g \in Handles \ lost : addNewChild(h, g, pos)
          \/ \E t \in {"text", "clear"}, v \in Values : addLeaf(h, t, v, pos)
    BY <1>8 DEF Building
  <2>2. pos \in Int
    BY BoundAssumption
  <2>3. ASSUME NEW g \in Handles, addNewChild(h, g, pos) PROVE IInv'
    BY <2>2, <2>3, NewChildStep
  <2>4. ASSUME NEW t \in {"text", "clear"}, NEW v \in Values, addLeaf(h, t, v, pos) PROVE IInv'
    BY <2>2, <2>4, AddLeafStep
  <2> QED
    BY <2>1, <2>3, <2>4
<1>9. ASSUME NEW h \in Handles, NEW g \in Handles, Copy(h, g) PROVE IInv'
  BY <1>9, CopyStep
<1>10. ASSUME NEW h \in Handles, NEW g \in Handles, getChildNode(h, g) PROVE IInv'
  BY <1>10, ChildStep
<1>11. ASSUME NEW h \in Handles, NEW g \in Handles, getParentNode(h, g) PROVE IInv'
  BY <1>11, ParentStep
<1>12. ASSUME NEW h \in Handles, NEW g \in Handles, deepCopy(h, g) PROVE IInv'
  BY <1>12, DeepCopyStep
<1>13. ASSUME NEW h \in Handles, NEW g \in Handles, NEW pos \in -1..MaxElems, Acyclic(h, g),
              addChild(h, g, pos)
       PROVE  IInv'
  BY <1>13, AddChildStep, BoundAssumption
<1>14. ASSUME NEW h \in Handles, NEW g \in Handles, NEW pos \in -1..MaxElems, Acyclic(h, g),
              addChildrenOf(h, g, pos)
       PROVE  IInv'
  BY <1>14, AddChildrenStep, BoundAssumption
<1>15. ASSUME NEW h \in Handles, NEW t \in {"text", "clear"}, NEW i \in 0..MaxElems,
              deleteLeaf(h, t, i)
       PROVE  IInv'
  BY <1>15, DeleteLeafStep, BoundAssumption
<1>16. ASSUME NEW h \in Handles, NEW t \in {"text", "clear"}, NEW i \in 0..MaxElems,
              NEW v \in Values, updateLeaf(h, t, v, i)
       PROVE  IInv'
  BY <1>16, UpdateLeafStep, BoundAssumption
<1> QED
  BY <1>1, <1>2, <1>3, <1>4, <1>5, <1>6, <1>7, <1>8, <1>9, <1>10, <1>11, <1>12, <1>13, <1>14,
     <1>15, <1>16 DEF Next

LEMMA Inductive == Spec => []IInv
<1> QED
  BY InitIInv, NextIInv, PTL DEF Spec

-----------------------------------------------------------------------------
(* What the invariant says of the places of a node.                        *)
LEMMA PlacesOf ==
  ASSUME Sound(heap, d), NEW x \in Ids
  PROVE  \/ heap[x].parent = Null /\ Places(x) = {}
         \/ /\ heap[x].parent \in Ids
            /\ \E k : Places(x) = {<<heap[x].parent, k>>}
<1>1. Shape(heap) /\ Links(heap) /\ Once(heap)
  BY DEF Sound
<1>2. \A p \in Ids : DOMAIN heap[p].elem["child"] = 1..Len(heap[p].elem["child"])
  BY <1>1, HeapTypes
<1>3. ASSUME NEW q \in Places(x)
      PROVE  /\ q = <<q[1], q[2]>> /\ q[1] \in Ids /\ q[1] = heap[x].parent
             /\ q[2] \in 1..Len(heap[q[1]].elem["child"])
             /\ heap[q[1]].elem["child"][q[2]] = x
  <2>1. PICK p \in Ids : q \in {p} \X DOMAIN heap[p].elem["child"]
    BY DEF Places
  <2>2. heap[q[1]].elem["child"][q[2]] = x
    BY DEF Places
  <2>3. q = <<q[1], q[2]>> /\ q[1] = p /\ q[2] \in 1..Len(heap[p].elem["child"])
    BY <1>2, <2>1
  <2>4. x \in Kids(heap, p)
    BY <2>2, <2>3 DEF Kids
  <2> QED
    BY <1>1, <2>2, <2>3, <2>4 DEF Links
<1>4. heap[x].parent \in Ids \cup {Null}
  BY <1>1, HeapTypes
<1>5. CASE heap[x].parent = Null
  BY <1>3, <1>5, NullAssumption
<1>6. CASE heap[x].parent \in Ids
  <2>1. PICK p \in Ids : p = heap[x].parent
    BY <1>6
  <2>2. x \in Kids(heap, p)
    BY <1>1, <2>1 DEF Links
  <2>3. PICK k \in 1..Len(heap[p].elem["child"]) : heap[p].elem["child"][k] = x
    BY <2>2 DEF Kids
  <2>4. <<p, k>> \in Places(x)
    BY <1>2, <2>3 DEF Places
  <2>5. ASSUME NEW q \in Places(x) PROVE q = <<p, k>>
    <3>1. q = <<p, q[2]>> /\ q[2] \in 1..Len(heap[p].elem["child"])
          /\ heap[p].elem["child"][q[2]] = x
      BY <1>3, <2>1
    <3>2. q[2] = k
      BY <1>1, <2>3, <3>1 DEF Once
    <3> QED
      BY <3>1, <3>2
  <2>6. Places(x) = {<<p, k>>}
    BY <2>4, <2>5
  <2> QED
    BY <1>6, <2>1, <2>6
<1> QED
  BY <1>4, <1>5, <1>6

LEMMA CountsFollow == IInv => RefsCount
<1> SUFFICES ASSUME IInv, NEW x \in Ids
             PROVE  /\ heap[x].ref =
                         Cardinality({h \in Handles : d[h] = x}) + Cardinality(Places(x))
                    /\ {p[1] : p \in Places(x)} = {heap[x].parent} \ {Null}
                    /\ Cardinality(Places(x)) <= 1
  BY DEF RefsCount
<1>1. Sound(heap, d)
  BY DEF IInv
<1>2. heap[x].ref = Cardinality({h \in Handles : d[h] = x}) + Held(heap, x)
  BY <1>1 DEF Sound, Counted, Holders
<1>3. CASE heap[x].parent = Null /\ Places(x) = {}
  <2>1. Cardinality(Places(x)) = 0 /\ Held(heap, x) = 0
    BY <1>3, FS_EmptySet DEF Held
  <2> QED
    BY <1>2, <1>3, <2>1
<1>4. ASSUME NEW k, heap[x].parent \in Ids, Places(x) = {<<heap[x].parent, k>>}
      PROVE  /\ Cardinality(Places(x)) = 1 /\ Held(heap, x) = 1
             /\ {p[1] : p \in Places(x)} = {heap[x].parent} \ {Null}
  BY <1>4, FS_Singleton, NullAssumption DEF Held
<1>5. CASE heap[x].parent \in Ids /\ \E k : Places(x) = {<<heap[x].parent, k>>}
  <2>1. /\ Cardinality(Places(x)) = 1 /\ Held(heap, x) = 1
        /\ {p[1] : p \in Places(x)} = {heap[x].parent} \ {Null}
    BY <1>4, <1>5
  <2> QED
    BY <1>2, <2>1
<1> QED
  BY <1>1, <1>3, <1>5, PlacesOf

LEMMA NewLandsRight ==
  ASSUME IInv, NEW x \in Ids \ mixed
  PROVE  NewLands(x)
<1>1. heap[x] \in NodeType /\ WellOrdered(heap[x])
  BY HeapTypes DEF IInv, Sound, OrderInv
<1>2. Size(heap[x]) \in Nat
  BY <1>1, SizeType
<1>3. ASSUME NEW t \in Types, NEW pos \in -1..Size(heap[x]), ~OtherTypeAt(heap[x], t, pos)
      PROVE  Content(With(heap[x], t, Null, pos)) = Placed(Content(heap[x]), pos, <<t, Null>>)
  <2>1. pos \in Int
    BY <1>2
  <2> QED
    BY <1>1, <1>3, <2>1, ContentWith
<1> QED
  BY <1>3 DEF NewLands

(* Behind the end it makes no difference how far.                          *)
LEMMA WithOutside ==
  ASSUME NEW nd, NEW t, NEW v, NEW a, NEW b, ~Inside(nd, a), ~Inside(nd, b)
  PROVE  With(nd, t, v, a) = With(nd, t, v, b)
<1>1. addToOrder(nd, t, a) = addToOrder(nd, t, b)
  BY DEF addToOrder
<1> QED
  BY <1>1 DEF With

LEMMA OldLandsRight ==
  ASSUME IInv, NEW c \in Ids, heap[c].parent \notin mixed,
         NEW p \in Ids \ mixed, p \notin Subtree(heap, c)
  PROVE  OldLands(p, c)
<1> DEFINE L == Left(heap, c)
<1>1. /\ Sound(heap, d) /\ Shape(heap) /\ Links(heap) /\ Once(heap)
      /\ \A y \in Ids \ mixed : WellOrdered(heap[y])
  BY DEF IInv, Sound, OrderInv
<1>2. heap[p] \in NodeType /\ WellOrdered(heap[p]) /\ heap[c].parent \in Ids \cup {Null}
  BY <1>1, HeapTypes
<1>3. Detachable(heap, c)
  BY <1>1, <1>2, OrderedDetachable
<1>4. c # p
  BY <1>1, ClosureIs DEF Subtree, Closed
<1>5. /\ Shape(L) /\ WellOrdered(L[p])
      /\ heap[c].parent = p => Size(L[p]) = Size(heap[p]) - 1
  BY <1>1, <1>2, <1>3, LeftIs
<1>6. L[p] \in NodeType /\ Size(heap[p]) \in Nat
  BY <1>2, <1>5, SizeType DEF Shape
<1>7. ASSUME NEW pos \in -1..Size(heap[p]), ~Exempt(c, p, pos)
      PROVE  Content(Moved(heap, c, p, pos)[p]) = Placed(Content(L[p]), pos, <<"child", c>>)
  <2>1. pos \in Int /\ pos <= Size(heap[p]) /\ "child" \in Types
    BY <1>6 DEF Types
  <2>2. Moved(heap, c, p, pos)[p] = With(L[p], "child", c, Lands(heap, c, p, pos))
    BY <1>4, <1>5, SMT DEF Moved, Shape
  <2>3. /\ ~OtherTypeAt(L[p], "child", pos)
        /\ ~(heap[c].parent = p /\ pos = Size(heap[p]) - 1)
    BY <1>7 DEF Exempt
  <2>4. Content(With(L[p], "child", c, pos)) = Placed(Content(L[p]), pos, <<"child", c>>)
    <3> HIDE DEF L
    <3> QED
      BY <1>5, <1>6, <2>1, <2>3, ContentWith
  <2>5. With(L[p], "child", c, Lands(heap, c, p, pos)) = With(L[p], "child", c, pos)
    <3>1. CASE Lands(heap, c, p, pos) = pos
      BY <3>1
    <3>2. CASE Lands(heap, c, p, pos) # pos
      <4>1. /\ heap[c].parent = p /\ Size(heap[p]) - 1 <= pos
            /\ Lands(heap, c, p, pos) = pos - 1
        BY <3>2 DEF Lands
      <4>2. pos = Size(heap[p])
        BY <1>6, <2>1, <2>3, <4>1
      <4>3. Size(L[p]) = pos - 1
        BY <1>5, <4>1, <4>2
      <4>4. ~Inside(L[p], pos) /\ ~Inside(L[p], pos - 1)
        BY <2>1, <4>3 DEF Inside
      <4> HIDE DEF L
      <4> QED
        BY <4>1, <4>4, WithOutside
    <3> QED
      BY <3>1, <3>2
  <2> QED
    BY <2>2, <2>4, <2>5
<1> QED
  BY <1>7 DEF OldLands

LEMMA InsertsFollow == IInv => InsertLands
<1> SUFFICES ASSUME IInv PROVE InsertLands
  OBVIOUS
<1>1. \A x \in Ids \ mixed : NewLands(x)
  BY NewLandsRight
<1>2. \A c \in Ids : heap[c].parent \notin mixed =>
        \A p \in Ids \ mixed : p \notin Subtree(heap, c) => OldLands(p, c)
  BY OldLandsRight
<1> QED
  BY <1>1, <1>2 DEF InsertLands

(* Every node counts the handles that point to it and its one place in the *)
(* array of the parent it names, whatever calls of IXMLNode have been made *)
(* (operator=, the destructor, addChild, deepCopy, deleteNodeContent): for *)
(* any set of nodes, any finite number of handles and any contents.        *)
THEOREM CountsRight == Spec => []RefsCount
<1> QED
  BY Inductive, CountsFollow, PTL

(* The order of every node that has had no insertion at a place of another *)
(* kind lists each of its elements once and each kind as its array does,   *)
(* and then no search of pOrder leaves the array: addToOrder and           *)
(* removeOrderElement keep it so for trees of any size.                    *)
THEOREM OrderRight == Spec => []OrderKept
<1>1. IInv => OrderKept
  BY DEF IInv, OrderInv, OrderKept
<1> QED
  BY <1>1, Inductive, PTL

(* In every node that can arise, of any size, a new child, text or clear   *)
(* tag lands where it was asked for and a node that is moved by addChild   *)
(* lands where it was asked for, all else keeping its order, but for the   *)
(* two kinds of places InsertLands exempts.                                *)
THEOREM InsertsRight == Spec => []InsertLands
<1> QED
  BY Inductive, InsertsFollow, PTL
=============================================================================

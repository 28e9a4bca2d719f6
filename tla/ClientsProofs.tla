---------------------------- MODULE ClientsProofs ----------------------------
(***************************************************************************)
(* Proofs about Clients: for any universe, header, start addresses, senders*)
(* and calls.                                                              *)
(***************************************************************************)
EXTENDS Clients, SequenceTheorems, WellFoundedInduction, TLAPS

-----------------------------------------------------------------------------
(* The bytes of the ZLL frame.                                             *)

LEMMA BitRange ==
  ASSUME NEW n \in Nat, NEW i \in 0..7 PROVE Bit(n, i) \in 0..1
<1>1. \A m \in {1, 2, 4, 8, 16, 32, 64, 128} : (n \div m) % 2 \in 0..1
  OBVIOUS
<1>2. <<1, 2, 4, 8, 16, 32, 64, 128>>[i + 1] \in {1, 2, 4, 8, 16, 32, 64, 128}
  BY i \in {0, 1, 2, 3, 4, 5, 6, 7}
<1> QED
  BY <1>1, <1>2 DEF Bit

(* n ^ 0x8C stays a byte, because bits 2 and 3 are only taken away where   *)
(* they are set.                                                           *)
LEMMA XorRange ==
  ASSUME NEW n \in 0..127 PROVE XorPoly(n) \in Bytes
<1>1. <<1, 2, 4, 8, 16, 32, 64, 128>>[2 + 1] = 4 /\ <<1, 2, 4, 8, 16, 32, 64, 128>>[3 + 1] = 8
  OBVIOUS
<1>2. XorPoly(n) = n + 128 + (4 - 8 * ((n \div 4) % 2)) + (8 - 16 * ((n \div 8) % 2))
  BY <1>1 DEF XorPoly, Bit
<1> DEFINE b2 == (n \div 4) % 2
           b3 == (n \div 8) % 2
<1>3. b2 \in 0..1 /\ b3 \in 0..1
  OBVIOUS
<1>4. b2 = 0 => n <= 123
  OBVIOUS
<1>5. b3 = 0 => n <= 119
  OBVIOUS
<1>6. b2 = 0 /\ b3 = 0 => n <= 115
  OBVIOUS
<1> HIDE DEF b2, b3
<1>7. n + 128 + (4 - 8 * b2) + (8 - 16 * b3) \in 0..255
  BY <1>3, <1>4, <1>5, <1>6
<1> QED
  BY <1>2, <1>7 DEF b2, b3, Bytes

LEMMA ShiftRange ==
  ASSUME NEW c \in Bytes, NEW b \in 0..1 PROVE ShiftIn[c][b] \in Bytes
<1>1. c \div 2 \in 0..127
  BY DEF Bytes
<1>2. ShiftIn[c][b] = IF c % 2 # b THEN XorPoly(c \div 2) ELSE c \div 2
  BY DEF ShiftIn, Bytes
<1> QED
  BY <1>1, <1>2, XorRange DEF Bytes

-----------------------------------------------------------------------------
(* Induction, as a fact about sets.                                        *)

LEMMA NatSet ==
  ASSUME NEW A, 0 \in A, \A n \in Nat : n \in A => n + 1 \in A
  PROVE  Nat \subseteq A
<1> DEFINE T == Nat \ A
           R == {ss \in Nat \X Nat : ss[1] < ss[2]}
<1>1. SUFFICES ASSUME T # {} PROVE FALSE
  OBVIOUS
<1>2. PICK x \in T : \A y \in T : <<y, x>> \notin R
  <2>1. IsWellFoundedOn(R, Nat)
    BY NatLessThanWellFounded DEF OpToRel
  <2>2. T \subseteq Nat
    OBVIOUS
  <2> HIDE DEF T, R
  <2> QED
    BY <2>1, <2>2, <1>1, WFMin
<1>3. x # 0 /\ x - 1 \in Nat
  OBVIOUS
<1>4. <<x - 1, x>> \in R
  BY <1>3
<1>5. x - 1 \in A
  BY <1>2, <1>3, <1>4
<1> QED
  BY <1>3, <1>5

(* A function whose value at n is given by its value at n - 1 exists.      *)
Steps(f, N, a, G) ==
  /\ f[0] = a
  /\ \A n \in 1..N : f[n] = G[f[n - 1]][n]

LEMMA StepFunction ==
  ASSUME NEW S, NEW a \in S, NEW N \in Nat, NEW G \in [S -> [1..N -> S]]
  PROVE  \E f \in [0..N -> S] : Steps(f, N, a, G)
<1> DEFINE Upto(m) == \E f \in [0..m -> S] : Steps(f, m, a, G)
           A == {m \in Nat : m <= N => Upto(m)}
<1>1. Upto(0)
  <2> DEFINE f == [n \in 0..0 |-> a]
  <2>1. f \in [0..0 -> S] /\ Steps(f, 0, a, G)
    BY DEF Steps
  <2> QED
    BY <2>1
<1>2. ASSUME NEW m \in Nat, m + 1 <= N, Upto(m) PROVE Upto(m + 1)
  <2>1. PICK f \in [0..m -> S] : Steps(f, m, a, G)
    BY <1>2
  <2> DEFINE g == [n \in 0..(m + 1) |-> IF n <= m THEN f[n] ELSE G[f[m]][m + 1]]
  <2>2. G[f[m]][m + 1] \in S
    BY <1>2
  <2>3. g \in [0..(m + 1) -> S]
    BY <2>2
  <2>4. g[0] = a
    BY <2>1 DEF Steps
  <2>5. ASSUME NEW n \in 1..(m + 1) PROVE g[n] = G[g[n - 1]][n]
    <3>1. n - 1 \in 0..m /\ g[n - 1] = f[n - 1]
      OBVIOUS
    <3>2. CASE n = m + 1
      BY <3>1, <3>2
    <3>3. CASE n \in 1..m
      <4>1. g[n] = f[n]
        BY <3>3
      <4>2. f[n] = G[f[n - 1]][n]
        BY <2>1, <3>3 DEF Steps
      <4> HIDE DEF g
      <4> QED
        BY <3>1, <4>1, <4>2
    <3> QED
      BY <3>2, <3>3
  <2> HIDE DEF g
  <2>6. Steps(g, m + 1, a, G)
    BY <2>4, <2>5 DEF Steps
  <2> QED
    BY <2>3, <2>6
<1> HIDE DEF Upto
<1>3. \A n \in Nat : n \in A => n + 1 \in A
  BY <1>2
<1>4. 0 \in A
  BY <1>1
<1> HIDE DEF A
<1>5. N \in A
  BY <1>3, <1>4, NatSet
<1>6. Upto(N)
  BY <1>5 DEF A
<1> QED
  BY <1>6 DEF Upto

LEMMA Crc8Range ==
  ASSUME NEW bytes \in Seq(Bytes) PROVE Crc8(bytes) \in Bytes
<1> DEFINE N == 8 * Len(bytes)
           In(n) == Bit(bytes[(n - 1) \div 8 + 1], (n - 1) % 8)
           G == [c \in Bytes |-> [n \in 1..N |-> ShiftIn[c][In(n)]]]
           Def(f) == [n \in 0..N |-> IF n = 0 THEN 0 ELSE ShiftIn[f[n - 1]][In(n)]]
<1>1. N \in Nat
  OBVIOUS
<1>2. ASSUME NEW n \in 1..N PROVE In(n) \in 0..1
  <2>1. (n - 1) \div 8 + 1 \in 1..Len(bytes) /\ (n - 1) % 8 \in 0..7
    BY <1>1
  <2>2. bytes[(n - 1) \div 8 + 1] \in Bytes
    BY <2>1, ElementOfSeq
  <2> DEFINE byte == bytes[(n - 1) \div 8 + 1]
  <2>3. byte \in Nat
    <3>1. Bytes \subseteq Nat
      BY DEF Bytes
    <3> QED
      BY <2>2, <3>1
  <2> HIDE DEF byte
  <2>4. Bit(byte, (n - 1) % 8) \in 0..1
    BY <2>1, <2>3, BitRange
  <2> QED
    BY <2>4 DEF byte
<1> HIDE DEF In, N
<1>3. \A c \in Bytes, n \in 1..N : ShiftIn[c][In(n)] \in Bytes
  BY <1>2, ShiftRange
<1>4. G \in [Bytes -> [1..N -> Bytes]]
  BY <1>3
<1>5. PICK f \in [0..N -> Bytes] : Steps(f, N, 0, G)
  <2>1. 0 \in Bytes
    BY DEF Bytes
  <2> HIDE DEF G
  <2> QED
    BY <1>1, <1>4, <2>1, StepFunction
<1>6. f = Def(f)
  <2>1. ASSUME NEW n \in 0..N PROVE f[n] = IF n = 0 THEN 0 ELSE ShiftIn[f[n - 1]][In(n)]
    <3>1. CASE n = 0
      BY <3>1, <1>5 DEF Steps
    <3>2. CASE n \in 1..N
      <4>1. f[n - 1] \in Bytes
        BY <3>2, <1>1, <1>5
      <4> QED
        BY <3>2, <4>1, <1>5 DEF Steps
    <3> QED
      BY <3>1, <3>2, <1>1
  <2>2. f = [n \in 0..N |-> f[n]]
    BY <1>5
  <2> QED
    BY <2>1, <2>2
<1>7. ASSUME NEW g, g = Def(g) PROVE g[N] \in Bytes
  <2> DEFINE A == {n \in Nat : n <= N => g[n] \in Bytes}
  <2>1. \A n \in 0..N : g[n] = IF n = 0 THEN 0 ELSE ShiftIn[g[n - 1]][In(n)]
    BY <1>7
  <2> HIDE DEF Def
  <2>2. 0 \in A
    <3>1. g[0] = 0
      BY <1>1, <2>1
    <3> QED
      BY <3>1 DEF Bytes
  <2>3. ASSUME NEW n \in Nat, n \in A PROVE n + 1 \in A
    <3>1. SUFFICES ASSUME n + 1 <= N PROVE g[n + 1] \in Bytes
      OBVIOUS
    <3>2. g[n] \in Bytes /\ n + 1 \in 1..N
      BY <2>3, <3>1, <1>1
    <3>3. g[n + 1] = ShiftIn[g[n]][In(n + 1)]
      BY <2>1, <3>2, <1>1
    <3> QED
      BY <3>2, <3>3, <1>3
  <2> HIDE DEF A
  <2>4. N \in A
    BY <1>1, <2>2, <2>3, NatSet
  <2> QED
    BY <1>1, <2>4 DEF A
<1>8. Crc8(bytes) = (CHOOSE g : g = Def(g))[N]
  BY DEF Crc8, N, In
<1> HIDE DEF Def
<1> QED
  BY <1>6, <1>7, <1>8

-----------------------------------------------------------------------------
(* The frame.                                                              *)

Data == [byCmd : 0..4, brightness : Nat, fadetime : Nat, ciex : Nat, ciey : Nat,
         cct : Nat, byR : Bytes, byG : Bytes, byB : Bytes]

LEMMA ByteRange == ASSUME NEW v \in Int PROVE Byte(v) \in Bytes
BY DEF Byte, Bytes

LEMMA IntBytes ==
  ASSUME NEW n \in Int PROVE intToBytes(n) \in Seq(Bytes) /\ Len(intToBytes(n)) = 2
<1>1. (n % 65536) \div 256 \in 0..255
  OBVIOUS
<1>2. intToBytes(n) = <<0, (n % 65536) \div 256>>
  BY DEF intToBytes
<1> QED
  BY <1>1, <1>2 DEF Bytes

(* A string of len bytes whose fifth is v, which what follows leaves alone.*)
Prefix(s, len, v) == s \in Seq(Bytes) /\ Len(s) = len /\ s[5] = v

Cat(s, t) == s \o t

LEMMA PrefixGrows ==
  ASSUME NEW s, NEW t, NEW n, NEW m, NEW v,
         t \in Seq(Bytes), n \in Nat /\ 5 <= n /\ n + Len(t) = m, Prefix(s, n, v)
  PROVE  Prefix(Cat(s, t), m, v)
<1>1. s \in Seq(Bytes) /\ Len(s) = n /\ s[5] = v
  BY DEF Prefix
<1>2. s \o t \in Seq(Bytes) /\ Len(s \o t) = n + Len(t)
  BY <1>1, ConcatProperties
<1>3. 5 \in 1..Len(s)
  BY <1>1
<1>4. (s \o t)[5] = s[5]
  BY <1>1, <1>3, ConcatProperties
<1> QED
  BY <1>1, <1>2, <1>4 DEF Prefix, Cat

(* 30 bytes, whatever the fields hold, and the brightness in byte 4.       *)
LEMMA FrameShape ==
  ASSUME NEW d \in Data
  PROVE  /\ ToByteArray(d) \in Seq(Bytes)
         /\ Len(ToByteArray(d)) = 30
         /\ ToByteArray(d)[5] = Byte(d.brightness)
<1> DEFINE p1 == <<2, d.byCmd, 0, 1, Byte(d.brightness)>>
           p2 == intToBytes(d.fadetime \div 100)
           p3 == intToBytes(Chromaticity(d.ciex))
           p4 == intToBytes(Chromaticity(d.ciey))
           p5 == intToBytes(d.cct)
           p6 == <<d.byR, d.byG, d.byB>>
           p7 == [i \in 1..12 |-> 0]
           body == p1 \o p2 \o p3 \o p4 \o p5 \o p6 \o p7
           end == <<Crc8(Covered(body)), 3>>
<1>1. p1 \in Seq(Bytes) /\ Len(p1) = 5 /\ p1[5] = Byte(d.brightness)
  <2>1. Byte(d.brightness) \in Bytes
    BY ByteRange DEF Data
  <2>2. {2, 0, 1, d.byCmd} \subseteq Bytes
    BY DEF Data, Bytes
  <2> QED
    BY <2>1, <2>2
<1>2. p2 \in Seq(Bytes) /\ Len(p2) = 2
  <2>1. d.fadetime \div 100 \in Int
    BY DEF Data
  <2> QED
    BY <2>1, IntBytes
<1>3. p3 \in Seq(Bytes) /\ Len(p3) = 2 /\ p4 \in Seq(Bytes) /\ Len(p4) = 2
  <2>1. Chromaticity(d.ciex) \in Int /\ Chromaticity(d.ciey) \in Int
    BY DEF Data, Chromaticity
  <2> QED
    BY <2>1, IntBytes
<1>4. p5 \in Seq(Bytes) /\ Len(p5) = 2
  BY IntBytes DEF Data
<1>5. p6 \in Seq(Bytes) /\ Len(p6) = 3
  BY DEF Data
<1>6. p7 \in Seq(Bytes) /\ Len(p7) = 12
  <2>1. 0 \in Bytes
    BY DEF Bytes
  <2> QED
    BY <2>1
<1>7. ToByteArray(d) = body \o end
  BY DEF ToByteArray
<1> HIDE DEF p1, p2, p3, p4, p5, p6, p7
<1> DEFINE v == Byte(d.brightness)
           q2 == Cat(p1, p2)
           q3 == Cat(q2, p3)
           q4 == Cat(q3, p4)
           q5 == Cat(q4, p5)
           q6 == Cat(q5, p6)
<1> HIDE DEF v, q2, q3, q4, q5, q6
<1>8. Prefix(p1, 5, v)
  BY <1>1 DEF Prefix, v
<1>9. Prefix(q2, 7, v)
  <2>1. 5 \in Nat /\ 5 <= 5 /\ 5 + Len(p2) = 7
    BY <1>2
  <2> QED
    BY <2>1, <1>8, <1>2, PrefixGrows, Zenon DEF q2
<1>10. Prefix(q3, 9, v)
  <2>1. 7 \in Nat /\ 5 <= 7 /\ 7 + Len(p3) = 9
    BY <1>3
  <2> QED
    BY <2>1, <1>9, <1>3, PrefixGrows, Zenon DEF q3
<1>11. Prefix(q4, 11, v)
  <2>1. 9 \in Nat /\ 5 <= 9 /\ 9 + Len(p4) = 11
    BY <1>3
  <2> QED
    BY <2>1, <1>10, <1>3, PrefixGrows, Zenon DEF q4
<1>12. Prefix(q5, 13, v)
  <2>1. 11 \in Nat /\ 5 <= 11 /\ 11 + Len(p5) = 13
    BY <1>4
  <2> QED
    BY <2>1, <1>11, <1>4, PrefixGrows, Zenon DEF q5
<1>13. Prefix(q6, 16, v)
  <2>1. 13 \in Nat /\ 5 <= 13 /\ 13 + Len(p6) = 16
    BY <1>5
  <2> QED
    BY <2>1, <1>12, <1>5, PrefixGrows, Zenon DEF q6
<1>14. Prefix(body, 28, v)
  <2>1. body = Cat(q6, p7)
    BY DEF q2, q3, q4, q5, q6, Cat
  <2> HIDE DEF body
  <2>2. 16 \in Nat /\ 5 <= 16 /\ 16 + Len(p7) = 28
    BY <1>6
  <2> QED
    BY <2>1, <2>2, <1>13, <1>6, PrefixGrows, Zenon
<1> HIDE DEF body
<1>15. Covered(body) \in Seq(Bytes)
  <2>1. \A i \in 5..24 : body[i] \in Bytes
    <3>1. body \in [1..28 -> Bytes]
      BY <1>14, LenProperties DEF Prefix
    <3> QED
      BY <3>1
  <2> QED
    BY <2>1, <1>14, SubSeqProperties DEF Covered, Prefix
<1>16. end \in Seq(Bytes) /\ Len(end) = 2
  <2>1. Crc8(Covered(body)) \in Bytes /\ 3 \in Bytes
    BY <1>15, Crc8Range DEF Bytes
  <2> QED
    BY <2>1
<1> HIDE DEF end
<1>17. Prefix(Cat(body, end), 30, v)
  <2>1. 28 \in Nat /\ 5 <= 28 /\ 28 + Len(end) = 30
    BY <1>16
  <2> QED
    BY <2>1, <1>14, <1>16, PrefixGrows, Zenon
<1> QED
  BY <1>7, <1>17 DEF Prefix, v, Cat

-----------------------------------------------------------------------------
(* Sequences and what is in them.                                          *)

LEMMA RangeTail ==
  ASSUME NEW S, NEW q \in Seq(S), q # <<>>
  PROVE  /\ Head(q) \in S /\ Tail(q) \in Seq(S)
         /\ Range(q) = {Head(q)} \cup Range(Tail(q))
<1>1. Len(q) \in Nat \ {0} /\ Head(q) = q[1] /\ q[1] \in S
  BY EmptySeq, ElementOfSeq
<1>2. /\ Tail(q) \in Seq(S) /\ Len(Tail(q)) = Len(q) - 1
      /\ \A i \in 1..Len(Tail(q)) : Tail(q)[i] = q[i + 1]
  BY HeadTailProperties
<1> DEFINE t == Tail(q)
<1> HIDE DEF t
<1>3. t \in Seq(S) /\ Len(t) = Len(q) - 1 /\ \A i \in 1..Len(t) : t[i] = q[i + 1]
  BY <1>2 DEF t
<1>4. Range(q) = {q[k] : k \in 1..Len(q)} /\ Range(t) = {t[k] : k \in 1..Len(t)}
  BY <1>3, RangeEquality
<1>5. ASSUME NEW k \in 1..Len(q) PROVE q[k] \in {q[1]} \cup Range(t)
  <2>1. CASE k = 1
    BY <2>1
  <2>2. CASE k # 1
    <3>1. k - 1 \in 1..Len(t) /\ t[k - 1] = q[k]
      BY <2>2, <1>1, <1>3
    <3> QED
      BY <3>1, <1>4
  <2> QED
    BY <2>1, <2>2
<1>6. ASSUME NEW k \in 1..Len(t) PROVE t[k] \in Range(q)
  <2>1. k + 1 \in 1..Len(q) /\ t[k] = q[k + 1]
    BY <1>1, <1>3
  <2> QED
    BY <2>1, <1>4
<1>7. q[1] \in Range(q)
  <2>1. 1 \in 1..Len(q)
    BY <1>1
  <2> QED
    BY <2>1, <1>4
<1>8. Range(q) = {q[1]} \cup Range(t)
  <2>1. Range(q) \subseteq {q[1]} \cup Range(t)
    BY <1>4, <1>5
  <2>2. Range(t) \subseteq Range(q)
    BY <1>4, <1>6
  <2> QED
    BY <2>1, <2>2, <1>7
<1> QED
  BY <1>1, <1>2, <1>8 DEF t

-----------------------------------------------------------------------------
(* The stores of a call.                                                   *)

DataItem ==
  [kind : {"data"}, field : {"byCmd"}, val : 0..4]
    \cup [kind : {"data"}, field : {"brightness", "fadetime", "ciex", "ciey", "cct"}, val : Nat]
    \cup [kind : {"data"}, field : {"byR", "byG", "byB"}, val : Bytes]

(* What a call may still have to do.                                       *)
Item ==
  [kind : {"buffer"}, channel : Int, val : Bytes] \cup DataItem
    \cup {Encode, Hand("dmx"), Hand("zll")} \cup [kind : {"again"}, val : Nat]

(* A sequence of items, and which they are.                                *)
Are(q, R) == q \in Seq(Item) /\ Range(q) = R

LEMMA AreNone == Are(<<>>, {})
<1>1. <<>> \in Seq(Item) /\ DOMAIN <<>> = {}
  OBVIOUS
<1> QED
  BY <1>1 DEF Are, Range

LEMMA AreOne == ASSUME NEW d \in Item PROVE Are(<<d>>, {d})
<1>1. <<d>> \in Seq(Item) /\ DOMAIN <<d>> = {1} /\ <<d>>[1] = d
  OBVIOUS
<1> QED
  BY <1>1 DEF Are, Range

LEMMA AreJoined ==
  ASSUME NEW q, NEW t, NEW Q, NEW T, Are(q, Q), Are(t, T)
  PROVE  Are(q \o t, Q \cup T)
BY ConcatProperties, RangeConcatenation DEF Are

LEMMA AreTwo ==
  ASSUME NEW d \in Item, NEW e \in Item PROVE Are(<<d, e>>, {d, e})
<1>1. <<d, e>> \in Seq(Item) /\ DOMAIN <<d, e>> = {1, 2} /\ <<d, e>>[1] = d /\ <<d, e>>[2] = e
  OBVIOUS
<1> QED
  BY <1>1 DEF Are, Range

(* The turns of setDMXValue's loops for a set of offsets, each with its    *)
(* value, and the stores to a set of fields.                               *)
Turns(V) == {ToBuffer(StartAddresses[i] + p[1], p[2]) : i \in 1..Len(StartAddresses), p \in V}
Writes(F) == {ToData(p[1], p[2]) : p \in F}

LEMMA BufferTurns ==
  ASSUME StartAddresses \in Seq(Int), NEW o \in Int, NEW v \in Int
  PROVE  Are(setDMXValue(o, v), Turns({<<o, v>>}))
<1>1. Len(StartAddresses) \in Nat
  OBVIOUS
<1> DEFINE N == Len(StartAddresses)
           q == [i \in 1..N |-> ToBuffer(StartAddresses[i] + o, v)]
<1>2. ASSUME NEW i \in 1..N PROVE ToBuffer(StartAddresses[i] + o, v) \in Item
  <2>1. StartAddresses[i] \in Int
    BY ElementOfSeq
  <2>2. StartAddresses[i] + o \in Int
    BY <2>1
  <2>3. Byte(v) \in Bytes
    BY ByteRange
  <2> QED
    BY <2>2, <2>3 DEF ToBuffer, Item
<1> HIDE DEF N
<1>3. q \in Seq(Item) /\ Len(q) = N
  <2>1. N \in Nat
    BY <1>1 DEF N
  <2> QED
    BY <1>2, <2>1, IsASeq
<1>4. Range(q) = {ToBuffer(StartAddresses[i] + o, v) : i \in 1..N}
  BY DEF Range
<1>5. {ToBuffer(StartAddresses[i] + o, v) : i \in 1..N} = Turns({<<o, v>>})
  BY DEF Turns, N
<1> QED
  BY <1>3, <1>4, <1>5 DEF setDMXValue, N, Are

LampBrightness(b) == {<<1, b>>}
LampCct(k) == {<<0, CCT_MODE>>, <<2, DmxCct(k)>>}
LampRgb(rgb) == {<<0, RGB_MODE>>, <<1, rgb[1]>>, <<2, rgb[2]>>, <<3, rgb[3]>>}
LampXy(xy) == {<<0, XY_MODE>>, <<2, DmxX(xy[1])>>, <<3, DmxY(xy[2])>>}

LEMMA TurnsJoined == ASSUME NEW V, NEW W PROVE Turns(V \cup W) = Turns(V) \cup Turns(W)
BY DEF Turns

LEMMA DmxBrightnessStores ==
  ASSUME StartAddresses \in Seq(Int), NEW b \in Nat
  PROVE  Are(DmxBrightness(b), Turns(LampBrightness(b)))
BY BufferTurns DEF DmxBrightness, LampBrightness

LEMMA DmxCctStores ==
  ASSUME StartAddresses \in Seq(Int), NEW k \in Nat
  PROVE  Are(DmxSetCct(k), Turns(LampCct(k)))
<1>1. DmxCct(k) \in Int
  BY DEF DmxCct, Trunc
<1>2. Are(setDMXValue(0, CCT_MODE), Turns({<<0, CCT_MODE>>}))
  BY BufferTurns DEF CCT_MODE
<1>3. Are(setDMXValue(2, DmxCct(k)), Turns({<<2, DmxCct(k)>>}))
  BY <1>1, BufferTurns
<1>4. LampCct(k) = {<<0, CCT_MODE>>} \cup {<<2, DmxCct(k)>>}
  BY DEF LampCct
<1> QED
  BY <1>2, <1>3, <1>4, AreJoined, TurnsJoined DEF DmxSetCct

LEMMA DmxRgbStores ==
  ASSUME StartAddresses \in Seq(Int), NEW rgb \in [1..3 -> Nat]
  PROVE  Are(DmxRgb(rgb), Turns(LampRgb(rgb)))
<1>1. rgb[1] \in Int /\ rgb[2] \in Int /\ rgb[3] \in Int
  OBVIOUS
<1>2. Are(setDMXValue(0, RGB_MODE), Turns({<<0, RGB_MODE>>}))
  BY BufferTurns DEF RGB_MODE
<1>3. Are(setDMXValue(1, rgb[1]), Turns({<<1, rgb[1]>>}))
  BY <1>1, BufferTurns
<1>4. Are(setDMXValue(2, rgb[2]), Turns({<<2, rgb[2]>>}))
  BY <1>1, BufferTurns
<1>5. Are(setDMXValue(3, rgb[3]), Turns({<<3, rgb[3]>>}))
  BY <1>1, BufferTurns
<1> DEFINE V1 == {<<0, RGB_MODE>>} \cup {<<1, rgb[1]>>}
           V2 == V1 \cup {<<2, rgb[2]>>}
           q1 == setDMXValue(0, RGB_MODE) \o setDMXValue(1, rgb[1])
           q2 == q1 \o setDMXValue(2, rgb[2])
<1> HIDE DEF V1, V2, q1, q2
<1>6. Are(q1, Turns(V1))
  BY <1>2, <1>3, AreJoined, TurnsJoined, SMTT(30) DEF q1, V1
<1>7. Are(q2, Turns(V2))
  BY <1>6, <1>4, AreJoined, TurnsJoined DEF q2, V2
<1>8. Are(q2 \o setDMXValue(3, rgb[3]), Turns(V2 \cup {<<3, rgb[3]>>}))
  BY <1>7, <1>5, AreJoined, TurnsJoined
<1>9. LampRgb(rgb) = V2 \cup {<<3, rgb[3]>>}
  BY DEF LampRgb, V1, V2
<1> QED
  BY <1>8, <1>9 DEF DmxRgb, q1, q2

LEMMA DmxXyStores ==
  ASSUME StartAddresses \in Seq(Int), NEW xy \in [1..2 -> Nat]
  PROVE  Are(DmxXy(xy), Turns(LampXy(xy)))
<1>1. DmxX(xy[1]) \in Int /\ DmxY(xy[2]) \in Int
  <2>1. xy[1] \in Nat /\ xy[2] \in Nat
    OBVIOUS
  <2> QED
    BY <2>1, SMTT(30) DEF DmxX, DmxY, Trunc
<1>2. Are(setDMXValue(0, XY_MODE), Turns({<<0, XY_MODE>>}))
  BY BufferTurns DEF XY_MODE
<1>3. Are(setDMXValue(2, DmxX(xy[1])), Turns({<<2, DmxX(xy[1])>>}))
  BY <1>1, BufferTurns
<1>4. Are(setDMXValue(3, DmxY(xy[2])), Turns({<<3, DmxY(xy[2])>>}))
  BY <1>1, BufferTurns
<1> DEFINE V1 == {<<0, XY_MODE>>} \cup {<<2, DmxX(xy[1])>>}
           q1 == setDMXValue(0, XY_MODE) \o setDMXValue(2, DmxX(xy[1]))
<1> HIDE DEF V1, q1
<1>5. Are(q1, Turns(V1))
  BY <1>2, <1>3, AreJoined, TurnsJoined DEF q1, V1
<1>6. Are(q1 \o setDMXValue(3, DmxY(xy[2])), Turns(V1 \cup {<<3, DmxY(xy[2])>>}))
  BY <1>5, <1>4, AreJoined, TurnsJoined
<1>7. LampXy(xy) = V1 \cup {<<3, DmxY(xy[2])>>}
  BY DEF LampXy, V1
<1> QED
  BY <1>6, <1>7 DEF DmxXy, q1

FieldsBrightness(b) == {<<"byCmd", SET_BRIGHTNESS>>, <<"brightness", b>>}
FieldsCct(k) == {<<"byCmd", SET_CCT>>, <<"cct", k>>}
FieldsRgb(rgb) == {<<"byCmd", SET_RGB>>, <<"byR", Byte(rgb[1])>>, <<"byG", Byte(rgb[2])>>,
                   <<"byB", Byte(rgb[3])>>}
FieldsXy(xy) == {<<"byCmd", SET_XY>>, <<"ciex", xy[1]>>, <<"ciey", xy[2]>>}
FieldsFade(t) == {<<"fadetime", t>>}

LEMMA ZllBrightnessStores ==
  ASSUME NEW b \in Nat PROVE Are(ZllBrightness(b), Writes(FieldsBrightness(b)))
<1> DEFINE d1 == ToData("byCmd", SET_BRIGHTNESS)
           d2 == ToData("brightness", b)
<1>1. d1 \in Item /\ d2 \in Item
  BY DEF ToData, Item, DataItem, SET_BRIGHTNESS
<1>2. Writes(FieldsBrightness(b)) = {d1, d2}
  BY DEF Writes, FieldsBrightness
<1> HIDE DEF d1, d2
<1>3. Are(<<d1, d2>>, {d1, d2})
  BY <1>1, AreTwo
<1> QED
  BY <1>2, <1>3 DEF ZllBrightness, d1, d2

LEMMA ZllCctStores ==
  ASSUME NEW k \in Nat PROVE Are(ZllSetCct(k), Writes(FieldsCct(k)))
<1> DEFINE d1 == ToData("byCmd", SET_CCT)
           d2 == ToData("cct", k)
<1>1. d1 \in Item /\ d2 \in Item
  BY DEF ToData, Item, DataItem, SET_CCT
<1>2. Writes(FieldsCct(k)) = {d1, d2}
  BY DEF Writes, FieldsCct
<1> HIDE DEF d1, d2
<1>3. Are(<<d1, d2>>, {d1, d2})
  BY <1>1, AreTwo
<1> QED
  BY <1>2, <1>3 DEF ZllSetCct, d1, d2

LEMMA ZllFadeStores ==
  ASSUME NEW t \in Nat PROVE Are(ZllFade(t), Writes(FieldsFade(t)))
<1>1. ToData("fadetime", t) \in Item
  BY DEF ToData, Item, DataItem
<1>2. Writes(FieldsFade(t)) = {ToData("fadetime", t)}
  BY DEF Writes, FieldsFade
<1> QED
  BY <1>1, <1>2, AreOne DEF ZllFade

LEMMA ZllXyStores ==
  ASSUME NEW xy \in [1..2 -> Nat] PROVE Are(ZllXy(xy), Writes(FieldsXy(xy)))
<1> DEFINE d1 == ToData("byCmd", SET_XY)
           d2 == ToData("ciex", xy[1])
           d3 == ToData("ciey", xy[2])
<1>1. d1 \in Item /\ d2 \in Item /\ d3 \in Item
  <2>1. xy[1] \in Nat /\ xy[2] \in Nat
    OBVIOUS
  <2> QED
    BY <2>1 DEF ToData, Item, DataItem, SET_XY
<1>2. Writes(FieldsXy(xy)) = {d1, d2} \cup {d3}
  BY DEF Writes, FieldsXy
<1>3. ZllXy(xy) = <<d1, d2>> \o <<d3>>
  BY DEF ZllXy
<1> HIDE DEF d1, d2, d3
<1>4. Are(<<d1, d2>>, {d1, d2})
  BY <1>1, AreTwo
<1>5. Are(<<d3>>, {d3})
  BY <1>1, AreOne
<1> QED
  BY <1>2, <1>3, <1>4, <1>5, AreJoined

LEMMA ZllRgbStores ==
  ASSUME NEW rgb \in [1..3 -> Nat] PROVE Are(ZllRgb(rgb), Writes(FieldsRgb(rgb)))
<1> DEFINE d1 == ToData("byCmd", SET_RGB)
           d2 == ToData("byR", Byte(rgb[1]))
           d3 == ToData("byG", Byte(rgb[2]))
           d4 == ToData("byB", Byte(rgb[3]))
<1>1. d1 \in Item /\ d2 \in Item /\ d3 \in Item /\ d4 \in Item
  <2>1. Byte(rgb[1]) \in Bytes /\ Byte(rgb[2]) \in Bytes /\ Byte(rgb[3]) \in Bytes
    <3>1. rgb[1] \in Int /\ rgb[2] \in Int /\ rgb[3] \in Int
      OBVIOUS
    <3> QED
      BY <3>1, ByteRange
  <2> QED
    BY <2>1 DEF ToData, Item, DataItem, SET_RGB
<1>2. Writes(FieldsRgb(rgb)) = {d1, d2} \cup {d3, d4}
  BY DEF Writes, FieldsRgb
<1>3. ZllRgb(rgb) = <<d1, d2>> \o <<d3, d4>>
  BY DEF ZllRgb
<1> HIDE DEF d1, d2, d3, d4
<1>4. Are(<<d1, d2>>, {d1, d2})
  BY <1>1, AreTwo
<1>5. Are(<<d3, d4>>, {d3, d4})
  BY <1>1, AreTwo
<1> QED
  BY <1>2, <1>3, <1>4, <1>5, AreJoined

(* A call that tells both clients: what the lamps are to show and what the *)
(* ZLL client is to hold.                                                  *)
Colour(call, kind, mode) == call.op = kind \/ (call.op = "scene" /\ call.pmode = mode)

Lamp(call) ==
  CASE Colour(call, "rgb", "RGB") -> LampRgb(call.rgb)
    [] call.op = "brightness" -> LampBrightness(call.brightness)
    [] call.op = "cct" -> LampCct(call.cct)
    [] call.op = "xy" -> LampXy(call.xy)
    [] call.op = "scene" /\ call.pmode = "CCT" -> LampCct(call.cct) \cup LampBrightness(call.brightness)
    [] call.op = "scene" /\ call.pmode = "XY" -> LampXy(call.xy) \cup LampBrightness(call.brightness)
    [] OTHER -> {}

Fields(call) ==
  CASE Colour(call, "rgb", "RGB") -> FieldsRgb(call.rgb)
    [] Colour(call, "cct", "CCT") -> FieldsCct(call.cct)
    [] Colour(call, "xy", "XY") -> FieldsXy(call.xy)
    [] Colour(call, "brightness", "BRIGHTNESS") -> FieldsBrightness(call.brightness)
    [] OTHER -> {}

Fade(call) == IF call.op \in {"fade", "scene"} THEN FieldsFade(call.fadetime) ELSE {}

Orders(call) ==
  IF call.op = "scene"
  THEN {Encode, Hand("dmx"), Hand("zll")}
         \cup (IF call.pmode \in {"XY", "CCT"} THEN {HandAgain(call.brightness)} ELSE {})
  ELSE {}

AllStores(call) ==
  Turns(Lamp(call)) \cup Writes(Fields(call)) \cup Writes(Fade(call)) \cup Orders(call)

(* Nothing is stored to the ZLL client's fields after its frame is made,   *)
(* and nothing follows a repeated brightness.                              *)
Ordered(q) ==
  \A i, j \in 1..Len(q) : i < j =>
    /\ q[i].kind = "encode" => q[j].kind # "data"
    /\ q[i].kind # "again"

Loose(R) == \A d \in R : d.kind \in {"buffer", "data", "hand"}

LEMMA KindRange ==
  ASSUME NEW q \in Seq(Item), NEW i \in 1..Len(q) PROVE q[i] \in Range(q)
BY RangeEquality

LEMMA LooseOrdered ==
  ASSUME NEW q, NEW R, Are(q, R), Loose(R) PROVE Ordered(q)
<1>1. \A i \in 1..Len(q) : q[i].kind \in {"buffer", "data", "hand"}
  BY KindRange DEF Are, Loose
<1> QED
  BY <1>1 DEF Ordered

LEMMA OrderedJoined ==
  ASSUME NEW q, NEW t, NEW Q, NEW T, Are(q, Q), Are(t, T), Ordered(q), Ordered(t),
         Loose(Q) \/ ((\A d \in Q : d.kind # "again") /\ (\A d \in T : d.kind # "data"))
  PROVE  Ordered(q \o t)
<1> DEFINE c == q \o t
<1>1. /\ Len(c) = Len(q) + Len(t)
      /\ \A i \in 1..Len(c) : c[i] = IF i <= Len(q) THEN q[i] ELSE t[i - Len(q)]
  BY ConcatProperties DEF Are
<1>2. Len(q) \in Nat /\ Len(t) \in Nat
  BY DEF Are
<1>3. \A i \in 1..Len(q) : q[i] \in Q
  BY KindRange DEF Are
<1>4. \A i \in 1..Len(t) : t[i] \in T
  BY KindRange DEF Are
<1> HIDE DEF c
<1>5. ASSUME NEW i \in 1..Len(c), NEW j \in 1..Len(c), i < j
      PROVE  (c[i].kind = "encode" => c[j].kind # "data") /\ c[i].kind # "again"
  <2>1. CASE j <= Len(q)
    <3>1. i \in 1..Len(q) /\ j \in 1..Len(q) /\ c[i] = q[i] /\ c[j] = q[j]
      BY <2>1, <1>1, <1>2, <1>5
    <3> QED
      BY <3>1, <1>5 DEF Ordered
  <2>2. CASE i > Len(q)
    <3> DEFINE k == i - Len(q)
               l == j - Len(q)
    <3>1. k \in 1..Len(t) /\ l \in 1..Len(t) /\ k < l /\ c[i] = t[k] /\ c[j] = t[l]
      BY <2>2, <1>1, <1>2, <1>5
    <3> HIDE DEF k, l
    <3> QED
      BY <3>1 DEF Ordered
  <2>3. CASE i <= Len(q) /\ j > Len(q)
    <3>1. i \in 1..Len(q) /\ j - Len(q) \in 1..Len(t) /\ c[i] = q[i] /\ c[j] = t[j - Len(q)]
      BY <2>3, <1>1, <1>2, <1>5
    <3>2. c[i] \in Q /\ c[j] \in T
      BY <3>1, <1>3, <1>4
    <3> QED
      BY <3>2 DEF Loose
  <2> QED
    BY <2>1, <2>2, <2>3, <1>2
<1> QED
  BY <1>5 DEF Ordered, c

LEMMA OrderedTail ==
  ASSUME NEW S, NEW q \in Seq(S), q # <<>>, Ordered(q)
  PROVE  /\ Ordered(Tail(q))
         /\ Head(q).kind = "encode" => \A d \in Range(Tail(q)) : d.kind # "data"
         /\ Head(q).kind = "again" => Tail(q) = <<>>
<1>1. Len(q) \in Nat \ {0} /\ Head(q) = q[1]
  BY EmptySeq
<1>2. /\ Tail(q) \in Seq(S) /\ Len(Tail(q)) = Len(q) - 1
      /\ \A i \in 1..Len(Tail(q)) : Tail(q)[i] = q[i + 1]
  BY HeadTailProperties
<1> DEFINE t == Tail(q)
<1> HIDE DEF t
<1>3. t \in Seq(S) /\ Len(t) = Len(q) - 1 /\ \A i \in 1..Len(t) : t[i] = q[i + 1]
  BY <1>2 DEF t
<1>4. Ordered(t)
  <2>1. ASSUME NEW i \in 1..Len(t), NEW j \in 1..Len(t), i < j
        PROVE  (t[i].kind = "encode" => t[j].kind # "data") /\ t[i].kind # "again"
    <3>1. /\ i + 1 \in 1..Len(q) /\ j + 1 \in 1..Len(q) /\ i + 1 < j + 1
          /\ t[i] = q[i + 1] /\ t[j] = q[j + 1]
      BY <2>1, <1>1, <1>3
    <3> QED
      BY <3>1 DEF Ordered
  <2> QED
    BY <2>1 DEF Ordered
<1>5. \A i \in 1..Len(t) : /\ q[1].kind = "encode" => t[i].kind # "data"
                           /\ q[1].kind # "again"
  <2>1. ASSUME NEW i \in 1..Len(t)
        PROVE  (q[1].kind = "encode" => t[i].kind # "data") /\ q[1].kind # "again"
    <3>1. 1 \in 1..Len(q) /\ i + 1 \in 1..Len(q) /\ 1 < i + 1 /\ t[i] = q[i + 1]
      BY <1>1, <1>3
    <3> QED
      BY <3>1 DEF Ordered
  <2> QED
    BY <2>1
<1>6. q[1].kind = "encode" => \A d \in Range(t) : d.kind # "data"
  BY <1>3, <1>5, RangeEquality
<1>7. q[1].kind = "again" => t = <<>>
  <2>1. ASSUME q[1].kind = "again", Len(t) # 0 PROVE FALSE
    <3>1. 1 \in 1..Len(t)
      BY <2>1, <1>3
    <3> QED
      BY <1>5, <2>1, <3>1
  <2> QED
    BY <2>1, <1>3, EmptySeq
<1> QED
  BY <1>1, <1>4, <1>6, <1>7 DEF t

LEMMA TurnsLoose == ASSUME NEW V PROVE Loose(Turns(V))
BY DEF Loose, Turns, ToBuffer

LEMMA WritesLoose == ASSUME NEW F PROVE Loose(Writes(F))
BY DEF Loose, Writes, ToData

LEMMA LooseJoined == ASSUME NEW R, NEW T, Loose(R), Loose(T) PROVE Loose(R \cup T)
BY DEF Loose

LEMMA HandStores ==
  ASSUME NEW c \in {"dmx", "zll"} PROVE Are(<<Hand(c)>>, {Hand(c)}) /\ Loose({Hand(c)})
<1>1. Hand(c) \in Item
  BY DEF Item
<1>2. Hand(c).kind = "hand"
  BY DEF Hand
<1> QED
  BY <1>1, <1>2, AreOne DEF Loose

LEMMA EncodeStores ==
  /\ Are(<<Encode, Hand("zll")>>, {Encode, Hand("zll")})
  /\ Ordered(<<Encode, Hand("zll")>>)
<1>1. Encode \in Item /\ Hand("zll") \in Item
  BY DEF Item
<1>2. Encode.kind = "encode" /\ Hand("zll").kind = "hand"
  BY DEF Encode, Hand
<1> DEFINE q == <<Encode, Hand("zll")>>
<1>3. q[1] = Encode /\ q[2] = Hand("zll") /\ Len(q) = 2
  OBVIOUS
<1> HIDE DEF q
<1>4. Ordered(q)
  <2>1. \A i \in 1..Len(q) : i = 1 \/ i = 2
    BY <1>3
  <2> QED
    BY <1>2, <1>3, <2>1 DEF Ordered
<1> QED
  BY <1>1, <1>4, AreTwo DEF q

(* What the fields or the colour are told, then the frame.                 *)
LEMMA ZllFrameStores ==
  ASSUME NEW q, NEW F, Are(q, Writes(F))
  PROVE  /\ Are(q \o <<Encode, Hand("zll")>>, Writes(F) \cup {Encode, Hand("zll")})
         /\ Ordered(q \o <<Encode, Hand("zll")>>)
BY EncodeStores, AreJoined, OrderedJoined, WritesLoose, LooseOrdered

LEMMA AgainStores ==
  ASSUME NEW b \in Nat
  PROVE  /\ Are(<<HandAgain(b)>>, {HandAgain(b)})
         /\ Ordered(<<HandAgain(b)>>)
<1>1. HandAgain(b) \in Item
  BY DEF HandAgain, Item
<1>2. Ordered(<<HandAgain(b)>>)
  BY DEF Ordered
<1> QED
  BY <1>1, <1>2, AreOne

Scenes == {call \in CallKinds : call.op = "scene"}

LEMMA SceneFields ==
  ASSUME NEW call \in Scenes
  PROVE  /\ call.op = "scene" /\ call.pmode \in {"NONE", "BRIGHTNESS", "XY", "RGB", "CCT"}
         /\ call.brightness \in Nat /\ call.cct \in Nat /\ call.fadetime \in Nat
         /\ call.rgb \in [1..3 -> Nat] /\ call.xy \in [1..2 -> Nat]
BY DEF Scenes, CallKinds

LEMMA DmxUpdateStores ==
  ASSUME StartAddresses \in Seq(Int), NEW call \in Scenes
  PROVE  Are(DmxUpdate(call), Turns(Lamp(call)) \cup {Hand("dmx")})
<1> DEFINE q == CASE call.pmode = "XY"  -> DmxXy(call.xy) \o DmxBrightness(call.brightness)
                  [] call.pmode = "RGB" -> DmxRgb(call.rgb)
                  [] call.pmode = "CCT" -> DmxSetCct(call.cct) \o DmxBrightness(call.brightness)
                  [] OTHER -> <<>>
<1>1. Are(q, Turns(Lamp(call)))
  <2>1. CASE call.pmode = "XY"
    <3>1. q = DmxXy(call.xy) \o DmxBrightness(call.brightness)
      BY <2>1
    <3>2. Lamp(call) = LampXy(call.xy) \cup LampBrightness(call.brightness)
      BY <2>1, SceneFields DEF Lamp, Colour
    <3> HIDE DEF q
    <3>3. Are(DmxXy(call.xy), Turns(LampXy(call.xy)))
      BY SceneFields, DmxXyStores
    <3>4. Are(DmxBrightness(call.brightness), Turns(LampBrightness(call.brightness)))
      BY SceneFields, DmxBrightnessStores
    <3> QED
      BY <3>1, <3>2, <3>3, <3>4, AreJoined, TurnsJoined
  <2>2. CASE call.pmode = "RGB"
    <3>1. q = DmxRgb(call.rgb)
      BY <2>2
    <3>2. Lamp(call) = LampRgb(call.rgb)
      BY <2>2, SceneFields DEF Lamp, Colour
    <3> HIDE DEF q
    <3> QED
      BY <3>1, <3>2, SceneFields, DmxRgbStores
  <2>3. CASE call.pmode = "CCT"
    <3>1. q = DmxSetCct(call.cct) \o DmxBrightness(call.brightness)
      BY <2>3
    <3>2. Lamp(call) = LampCct(call.cct) \cup LampBrightness(call.brightness)
      BY <2>3, SceneFields DEF Lamp, Colour
    <3> HIDE DEF q
    <3>3. Are(DmxSetCct(call.cct), Turns(LampCct(call.cct)))
      BY SceneFields, DmxCctStores
    <3>4. Are(DmxBrightness(call.brightness), Turns(LampBrightness(call.brightness)))
      BY SceneFields, DmxBrightnessStores
    <3> QED
      BY <3>1, <3>2, <3>3, <3>4, AreJoined, TurnsJoined
  <2>4. CASE call.pmode \notin {"XY", "RGB", "CCT"}
    <3>1. q = <<>>
      BY <2>4
    <3>2. Lamp(call) = {}
      BY <2>4, SceneFields DEF Lamp, Colour
    <3>3. Turns({}) = {}
      BY DEF Turns
    <3> HIDE DEF q
    <3> QED
      BY <3>1, <3>2, <3>3, AreNone
  <2> QED
    BY <2>1, <2>2, <2>3, <2>4
<1>2. DmxUpdate(call) = q \o <<Hand("dmx")>>
  BY DEF DmxUpdate
<1> HIDE DEF q
<1>3. Are(<<Hand("dmx")>>, {Hand("dmx")})
  BY HandStores
<1> QED
  BY <1>1, <1>2, <1>3, AreJoined

Repeats(call) == IF call.pmode \in {"XY", "CCT"} THEN {HandAgain(call.brightness)} ELSE {}

LEMMA ZllUpdateStores ==
  ASSUME NEW call \in Scenes
  PROVE  /\ Are(ZllUpdate(call), Writes(Fields(call)) \cup Writes(Fade(call))
                                   \cup {Encode, Hand("zll")} \cup Repeats(call))
         /\ Ordered(ZllUpdate(call))
<1> DEFINE q == CASE call.pmode = "BRIGHTNESS" -> ZllBrightness(call.brightness)
                  [] call.pmode = "XY"  -> ZllXy(call.xy)
                  [] call.pmode = "RGB" -> ZllRgb(call.rgb)
                  [] call.pmode = "CCT" -> ZllSetCct(call.cct)
                  [] OTHER -> <<>>
           f == ZllFade(call.fadetime) \o q
<1>1. Are(q, Writes(Fields(call)))
  <2>1. CASE call.pmode = "XY"
    <3>1. q = ZllXy(call.xy) /\ Fields(call) = FieldsXy(call.xy)
      BY <2>1, SceneFields DEF Fields, Colour
    <3> HIDE DEF q
    <3> QED
      BY <3>1, SceneFields, ZllXyStores
  <2>2. CASE call.pmode = "RGB"
    <3>1. q = ZllRgb(call.rgb) /\ Fields(call) = FieldsRgb(call.rgb)
      BY <2>2, SceneFields DEF Fields, Colour
    <3> HIDE DEF q
    <3> QED
      BY <3>1, SceneFields, ZllRgbStores
  <2>3. CASE call.pmode = "CCT"
    <3>1. q = ZllSetCct(call.cct) /\ Fields(call) = FieldsCct(call.cct)
      BY <2>3, SceneFields DEF Fields, Colour
    <3> HIDE DEF q
    <3> QED
      BY <3>1, SceneFields, ZllCctStores
  <2>4. CASE call.pmode = "BRIGHTNESS"
    <3>1. q = ZllBrightness(call.brightness) /\ Fields(call) = FieldsBrightness(call.brightness)
      BY <2>4, SceneFields DEF Fields, Colour
    <3> HIDE DEF q
    <3> QED
      BY <3>1, SceneFields, ZllBrightnessStores
  <2>5. CASE call.pmode = "NONE"
    <3>1. q = <<>> /\ Fields(call) = {}
      BY <2>5, SceneFields DEF Fields, Colour
    <3>2. Writes({}) = {}
      BY DEF Writes
    <3> HIDE DEF q
    <3> QED
      BY <3>1, <3>2, AreNone
  <2> QED
    BY <2>1, <2>2, <2>3, <2>4, <2>5, SceneFields
<1>2. ZllUpdate(call) = (f \o <<Encode, Hand("zll")>>) \o Again(call)
  BY DEF ZllUpdate
<1> HIDE DEF q
<1>3. Are(f, Writes(Fields(call) \cup Fade(call)))
  <2>1. Are(ZllFade(call.fadetime), Writes(Fade(call)))
    BY SceneFields, ZllFadeStores DEF Fade
  <2>2. Are(f, Writes(Fade(call)) \cup Writes(Fields(call)))
    BY <1>1, <2>1, AreJoined
  <2>3. Writes(Fields(call) \cup Fade(call)) = Writes(Fade(call)) \cup Writes(Fields(call))
    BY DEF Writes
  <2> QED
    BY <2>2, <2>3
<1> HIDE DEF f
<1> DEFINE g == f \o <<Encode, Hand("zll")>>
           G == Writes(Fields(call) \cup Fade(call)) \cup {Encode, Hand("zll")}
<1>4. Are(g, G) /\ Ordered(g)
  BY <1>3, ZllFrameStores
<1>5. \A d \in G : d.kind # "again"
  BY DEF Writes, ToData, Encode, Hand
<1>6. Writes(Fields(call) \cup Fade(call)) = Writes(Fields(call)) \cup Writes(Fade(call))
  BY DEF Writes
<1> HIDE DEF g
<1>7. CASE call.pmode \in {"XY", "CCT"}
  <2>1. Again(call) = <<HandAgain(call.brightness)>> /\ Repeats(call) = {HandAgain(call.brightness)}
    BY <1>7 DEF Again, Repeats
  <2>2. /\ Are(Again(call), {HandAgain(call.brightness)})
        /\ Ordered(Again(call))
    BY <2>1, SceneFields, AgainStores
  <2>3. \A d \in {HandAgain(call.brightness)} : d.kind # "data"
    BY DEF HandAgain
  <2> HIDE DEF G
  <2>4. Are(g \o Again(call), G \cup {HandAgain(call.brightness)}) /\ Ordered(g \o Again(call))
    BY <1>4, <1>5, <2>2, <2>3, AreJoined, OrderedJoined
  <2> QED
    BY <1>2, <1>6, <2>1, <2>4 DEF g, G
<1>8. CASE call.pmode \notin {"XY", "CCT"}
  <2>1. Again(call) = <<>> /\ Repeats(call) = {}
    BY <1>8 DEF Again, Repeats
  <2>2. g \o <<>> = g
    BY <1>4, ConcatEmptySeq DEF Are
  <2> QED
    BY <1>2, <1>4, <1>6, <2>1, <2>2 DEF g
<1> QED
  BY <1>7, <1>8

(* A call of two setters.                                                  *)
LEMMA SetterStores ==
  ASSUME NEW q, NEW t, NEW V, NEW F, Are(q, Turns(V)), Are(t, Writes(F))
  PROVE  Are(q \o t, Turns(V) \cup Writes(F)) /\ Ordered(q \o t)
<1>1. Are(q \o t, Turns(V) \cup Writes(F))
  BY AreJoined
<1>2. Loose(Turns(V) \cup Writes(F))
  BY TurnsLoose, WritesLoose, LooseJoined
<1> QED
  BY <1>1, <1>2, LooseOrdered

LEMMA StoresAre ==
  ASSUME StartAddresses \in Seq(Int), NEW call \in CallKinds
  PROVE  Are(Stores(call), AllStores(call)) /\ Ordered(Stores(call))
<1> DEFINE Good == Are(Stores(call), AllStores(call)) /\ Ordered(Stores(call))
<1>0. Writes({}) = {} /\ Turns({}) = {}
  BY DEF Writes, Turns
<1>1. CASE call.op = "brightness"
  <2>1. /\ Stores(call) = DmxBrightness(call.brightness) \o ZllBrightness(call.brightness)
        /\ call.brightness \in Nat
    BY <1>1 DEF Stores, CallKinds
  <2>2. AllStores(call) = Turns(LampBrightness(call.brightness))
                            \cup Writes(FieldsBrightness(call.brightness))
    BY <1>0, <1>1 DEF AllStores, Lamp, Fields, Fade, Orders, Colour
  <2> QED
    BY <2>1, <2>2, SetterStores, DmxBrightnessStores, ZllBrightnessStores
<1>2. CASE call.op = "cct"
  <2>1. Stores(call) = DmxSetCct(call.cct) \o ZllSetCct(call.cct) /\ call.cct \in Nat
    BY <1>2 DEF Stores, CallKinds
  <2>2. AllStores(call) = Turns(LampCct(call.cct)) \cup Writes(FieldsCct(call.cct))
    BY <1>0, <1>2 DEF AllStores, Lamp, Fields, Fade, Orders, Colour
  <2> QED
    BY <2>1, <2>2, SetterStores, DmxCctStores, ZllCctStores
<1>3. CASE call.op = "rgb"
  <2>1. Stores(call) = DmxRgb(call.rgb) \o ZllRgb(call.rgb) /\ call.rgb \in [1..3 -> Nat]
    BY <1>3 DEF Stores, CallKinds
  <2>2. AllStores(call) = Turns(LampRgb(call.rgb)) \cup Writes(FieldsRgb(call.rgb))
    BY <1>0, <1>3 DEF AllStores, Lamp, Fields, Fade, Orders, Colour
  <2> QED
    BY <2>1, <2>2, SetterStores, DmxRgbStores, ZllRgbStores
<1>4. CASE call.op = "xy"
  <2>1. Stores(call) = DmxXy(call.xy) \o ZllXy(call.xy) /\ call.xy \in [1..2 -> Nat]
    BY <1>4 DEF Stores, CallKinds
  <2>2. AllStores(call) = Turns(LampXy(call.xy)) \cup Writes(FieldsXy(call.xy))
    BY <1>0, <1>4 DEF AllStores, Lamp, Fields, Fade, Orders, Colour
  <2> QED
    BY <2>1, <2>2, SetterStores, DmxXyStores, ZllXyStores
<1>5. CASE call.op = "fade"
  <2>1. Stores(call) = ZllFade(call.fadetime) /\ call.fadetime \in Nat
    BY <1>5 DEF Stores, CallKinds
  <2>2. AllStores(call) = Writes(FieldsFade(call.fadetime))
    BY <1>0, <1>5 DEF AllStores, Lamp, Fields, Fade, Orders, Colour
  <2> QED
    BY <2>1, <2>2, ZllFadeStores, WritesLoose, LooseOrdered
<1>6. CASE call.op = "scene"
  <2> DEFINE D == Turns(Lamp(call)) \cup {Hand("dmx")}
             Z == Writes(Fields(call)) \cup Writes(Fade(call)) \cup {Encode, Hand("zll")}
                    \cup Repeats(call)
  <2>1. call \in Scenes
    BY <1>6 DEF Scenes
  <2>2. Stores(call) = DmxUpdate(call) \o ZllUpdate(call)
    BY <1>6 DEF Stores
  <2>3. AllStores(call) = D \cup Z
    BY <1>6 DEF AllStores, Orders, Repeats
  <2>4. Are(DmxUpdate(call), D)
    BY <2>1, DmxUpdateStores
  <2>5. Are(ZllUpdate(call), Z) /\ Ordered(ZllUpdate(call))
    BY <2>1, ZllUpdateStores
  <2>6. Loose(D)
    BY TurnsLoose, HandStores, LooseJoined
  <2> HIDE DEF D, Z
  <2>7. Ordered(DmxUpdate(call))
    BY <2>4, <2>6, LooseOrdered
  <2> QED
    BY <2>2, <2>3, <2>4, <2>5, <2>6, <2>7, AreJoined, OrderedJoined
<1> QED
  BY <1>1, <1>2, <1>3, <1>4, <1>5, <1>6 DEF CallKinds

-----------------------------------------------------------------------------
(* Type correctness.                                                       *)

PacketItem == [kind : {"packet"}, channel : 1..Top, val : Bytes]

(* A call's rest; the second half of a store to a channel comes first.     *)
Rests(q) == q = <<>> \/ (Head(q) \in Item \cup PacketItem /\ Tail(q) \in Seq(Item))

TInv ==
  /\ TypeInv
  /\ data \in Data
  /\ byArrBuffer \in Seq(Bytes)
  /\ todo \in [Senders -> Seq(Item \cup PacketItem)]
  /\ \A s \in Senders : Rests(todo[s])

LEMMA RestsItems == ASSUME NEW q \in Seq(Item) PROVE Rests(q)
BY EmptySeq, ElementOfSeq, HeadTailProperties DEF Rests

LEMMA TInit == ASSUME Init PROVE TInv
<1>1. StartCodeIntact
  BY ClientsAssumption DEF Init, StartCodeIntact
<1>2. data \in Data
  BY DEF Init, Data, Bytes
<1>3. 0 \in Bytes
  BY DEF Bytes
<1>4. TypeInv
  <2>1. buffer \in [0..Top -> Bytes] /\ artNetData \in [0..(Header + Top - 1) -> Bytes]
    BY <1>3 DEF Init
  <2>2. data.byCmd \in 0..4 /\ data.byR \in Bytes /\ data.byG \in Bytes /\ data.byB \in Bytes
    BY <1>2 DEF Data
  <2>3. Len(byArrBuffer) = 0
    BY DEF Init
  <2>4. calls \in 0..MaxCalls
    BY ClientsAssumption DEF Init
  <2>5. /\ StartAddresses \in Addresses /\ given = {} /\ quiet \in BOOLEAN
        /\ raced = {} /\ fault = {}
    BY DEF Init
  <2> QED
    BY <1>1, <2>1, <2>2, <2>3, <2>4, <2>5 DEF TypeInv
<1>5. \A s \in Senders : todo[s] = <<>>
  BY DEF Init
<1> QED
  BY <1>2, <1>4, <1>5 DEF Init, TInv, Rests

LEMMA DataStored ==
  ASSUME NEW dd \in Data, NEW d \in DataItem PROVE [dd EXCEPT ![d.field] = d.val] \in Data
<1>1. CASE d.field = "byCmd" /\ d.val \in 0..4
  BY <1>1 DEF Data
<1>2. CASE d.field = "brightness" /\ d.val \in Nat
  BY <1>2 DEF Data
<1>3. CASE d.field = "fadetime" /\ d.val \in Nat
  BY <1>3 DEF Data
<1>4. CASE d.field = "ciex" /\ d.val \in Nat
  BY <1>4 DEF Data
<1>5. CASE d.field = "ciey" /\ d.val \in Nat
  BY <1>5 DEF Data
<1>6. CASE d.field = "cct" /\ d.val \in Nat
  BY <1>6 DEF Data
<1>7. CASE d.field = "byR" /\ d.val \in Bytes
  BY <1>7 DEF Data
<1>8. CASE d.field = "byG" /\ d.val \in Bytes
  BY <1>8 DEF Data
<1>9. CASE d.field = "byB" /\ d.val \in Bytes
  BY <1>9 DEF Data
<1> QED
  BY <1>1, <1>2, <1>3, <1>4, <1>5, <1>6, <1>7, <1>8, <1>9 DEF DataItem

(* The rest of a call after its first item.                                *)
LEMMA RestDone ==
  ASSUME TInv, NEW s \in Senders, ~Idle(s)
  PROVE  /\ Head(todo[s]) \in Item \cup PacketItem
         /\ Tail(todo[s]) \in Seq(Item)
BY DEF TInv, Rests, Idle

LEMMA RestsChange ==
  ASSUME TInv, NEW s \in Senders, NEW q \in Seq(Item \cup PacketItem), Rests(q),
         todo' = [todo EXCEPT ![s] = q]
  PROVE  /\ todo' \in [Senders -> Seq(Item \cup PacketItem)]
         /\ \A u \in Senders : Rests(todo'[u])
BY DEF TInv

LEMMA DoneRests ==
  ASSUME TInv, NEW s \in Senders, ~Idle(s), Done(s)
  PROVE  /\ todo' \in [Senders -> Seq(Item \cup PacketItem)]
         /\ \A u \in Senders : Rests(todo'[u])
<1>1. Tail(todo[s]) \in Seq(Item)
  BY RestDone
<1>2. Tail(todo[s]) \in Seq(Item \cup PacketItem)
  BY <1>1, SeqMonotonic
<1>3. Rests(Tail(todo[s]))
  BY <1>1, RestsItems
<1>4. todo' = [todo EXCEPT ![s] = Tail(todo[s])]
  BY DEF Done, TInv
<1> QED
  BY <1>2, <1>3, <1>4, RestsChange

LEMMA TBegin ==
  ASSUME TInv, NEW s \in Senders, NEW call \in Calls[s], Begin(s, call) PROVE TInv'
<1>1. StartAddresses \in Seq(Int) /\ call \in CallKinds
  BY ClientsAssumption DEF TInv, TypeInv
<1>2. Stores(call) \in Seq(Item)
  BY <1>1, StoresAre DEF Are
<1>3. Stores(call) \in Seq(Item \cup PacketItem) /\ Rests(Stores(call))
  BY <1>2, SeqMonotonic, RestsItems
<1>4. /\ todo' \in [Senders -> Seq(Item \cup PacketItem)]
      /\ \A u \in Senders : Rests(todo'[u])
  BY <1>3, RestsChange DEF Begin
<1>5. calls' \in 0..MaxCalls
  BY ClientsAssumption DEF Begin, TInv, TypeInv
<1>6. quiet' \in BOOLEAN
  BY DEF Begin
<1>7. UNCHANGED <<StartAddresses, dmxVars, zllVars, given, raced, fault>>
  BY DEF Begin
<1>8. StartCodeIntact'
  BY <1>7 DEF TInv, TypeInv, StartCodeIntact, dmxVars
<1> QED
  BY <1>4, <1>5, <1>6, <1>7, <1>8 DEF TInv, TypeInv, dmxVars, zllVars

LEMMA TSkipLamp == ASSUME TInv, NEW s \in Senders, SkipLamp(s) PROVE TInv'
<1>1. UNCHANGED <<StartAddresses, dmxVars, zllVars, given, calls, histVars>>
  BY DEF SkipLamp
<1>2. StartCodeIntact'
  BY <1>1 DEF TInv, TypeInv, StartCodeIntact, dmxVars
<1> QED
  BY <1>1, <1>2, DoneRests DEF SkipLamp, Next1, TInv, TypeInv, dmxVars, zllVars, histVars

LEMMA HeadKind ==
  ASSUME NEW d \in Item \cup PacketItem
  PROVE  /\ d.kind = "buffer" => d \in [kind : {"buffer"}, channel : Int, val : Bytes]
         /\ d.kind = "packet" => d \in PacketItem
         /\ d.kind = "data" => d \in DataItem
         /\ d.kind = "encode" => d = Encode
         /\ d.kind = "hand" => d.to \in {"dmx", "zll"} /\ d = Hand(d.to)
         /\ d.kind = "again" => d.val \in Nat /\ d = HandAgain(d.val)
BY DEF Item, PacketItem, DataItem, Encode, Hand, HandAgain

(* The turn's second half comes before the rest.                           *)
LEMMA HalfRests ==
  ASSUME NEW p \in PacketItem, NEW t \in Seq(Item)
  PROVE  /\ <<p>> \o t \in Seq(Item \cup PacketItem)
         /\ <<p>> \o t # <<>>
         /\ Head(<<p>> \o t) = p /\ Tail(<<p>> \o t) = t
         /\ Rests(<<p>> \o t)
<1>1. t \in Seq(Item \cup PacketItem) /\ <<p>> \in Seq(Item \cup PacketItem)
  BY SeqMonotonic
<1> DEFINE q == <<p>> \o t
<1>2. /\ q \in Seq(Item \cup PacketItem) /\ Len(q) = 1 + Len(t)
      /\ \A i \in 1..Len(q) : q[i] = IF i <= 1 THEN p ELSE t[i - 1]
  BY <1>1, ConcatProperties
<1>3. Len(t) \in Nat /\ t = [i \in 1..Len(t) |-> t[i]]
  BY LenProperties
<1> HIDE DEF q
<1>4. Len(q) # 0 /\ Head(q) = p
  BY <1>2, <1>3
<1>5. Tail(q) = t
  <2>1. Tail(q) \in Seq(Item \cup PacketItem) /\ Len(Tail(q)) = Len(t)
        /\ \A i \in 1..Len(t) : Tail(q)[i] = t[i]
    <3>1. q # <<>>
      BY <1>4
    <3>2. /\ Tail(q) \in Seq(Item \cup PacketItem) /\ Len(Tail(q)) = Len(q) - 1
          /\ \A i \in 1..Len(Tail(q)) : Tail(q)[i] = q[i + 1]
      BY <1>2, <3>1, HeadTailProperties
    <3> QED
      BY <1>2, <1>3, <3>2, SMTT(30)
  <2> QED
    BY <1>1, <2>1, SeqEqual
<1>6. q # <<>>
  BY <1>4
<1>7. Rests(q)
  BY <1>4, <1>5 DEF Rests
<1> QED
  BY <1>2, <1>4, <1>5, <1>6, <1>7 DEF q

LEMMA TStoreBuffer == ASSUME TInv, NEW s \in Senders, StoreBuffer(s) PROVE TInv'
<1> DEFINE d == Head(todo[s])
           t == Tail(todo[s])
<1>1. /\ ~Idle(s) /\ d.kind = "buffer" /\ InUniverse(d.channel)
      /\ buffer' = [buffer EXCEPT ![d.channel] = d.val]
      /\ raced' \in {raced, raced \cup {d.channel}}
      /\ todo' = [todo EXCEPT ![s] = <<ToPacket(d)>> \o t]
      /\ UNCHANGED <<StartAddresses, artNetData, zllVars, given, calls, last, quiet, fault>>
  BY DEF StoreBuffer, Next1, TInv
<1>2. d \in [kind : {"buffer"}, channel : Int, val : Bytes] /\ t \in Seq(Item)
  BY <1>1, RestDone, HeadKind
<1>3. d.channel \in 1..Top
  BY <1>1, <1>2, ClientsAssumption DEF InUniverse
<1>4. ToPacket(d) \in PacketItem
  BY <1>2, <1>3 DEF ToPacket, PacketItem
<1> HIDE DEF d, t
<1>5. /\ todo' \in [Senders -> Seq(Item \cup PacketItem)]
      /\ \A u \in Senders : Rests(todo'[u])
  BY <1>1, <1>2, <1>4, HalfRests, RestsChange
<1>6. buffer' \in [0..Top -> Bytes] /\ buffer'[0] = 0
  BY <1>1, <1>2, <1>3 DEF TInv, TypeInv, StartCodeIntact
<1>7. raced' \subseteq 1..Top
  BY <1>1, <1>3 DEF TInv, TypeInv
<1>8. StartCodeIntact'
  BY <1>1, <1>6 DEF TInv, TypeInv, StartCodeIntact
<1> QED
  BY <1>1, <1>5, <1>6, <1>7, <1>8 DEF TInv, TypeInv, zllVars

LEMMA TStorePacket == ASSUME TInv, NEW s \in Senders, StorePacket(s) PROVE TInv'
<1> DEFINE d == Head(todo[s])
<1>1. /\ ~Idle(s) /\ d.kind = "packet" /\ Done(s)
      /\ artNetData' = [artNetData EXCEPT ![Header + d.channel - 1] = d.val]
      /\ UNCHANGED <<StartAddresses, buffer, zllVars, given, calls, histVars>>
  BY DEF StorePacket, Next1
<1>2. d.channel \in 1..Top /\ d.val \in Bytes
  BY <1>1, RestDone, HeadKind DEF PacketItem
<1> HIDE DEF d
<1> DEFINE n == Header + d.channel - 1
<1>3. n \in 0..(Header + Top - 1) /\ n \notin 0..(Header - 1)
  BY <1>2, ClientsAssumption
<1>4. artNetData' = [artNetData EXCEPT ![n] = d.val]
  BY <1>1
<1> HIDE DEF n
<1>5. artNetData' \in [0..(Header + Top - 1) -> Bytes]
  BY <1>2, <1>3, <1>4 DEF TInv, TypeInv
<1>6. StartCodeIntact'
  <2>1. ASSUME NEW i \in 0..(Header - 1) PROVE artNetData'[i] = 0
    <3>1. artNetData[i] = 0 /\ i # n
      BY <1>3 DEF TInv, TypeInv, StartCodeIntact
    <3>2. i \in 0..(Header + Top - 1)
      BY ClientsAssumption
    <3> QED
      BY <3>1, <3>2, <1>4 DEF TInv, TypeInv
  <2> QED
    BY <1>1, <2>1 DEF TInv, TypeInv, StartCodeIntact
<1> QED
  BY <1>1, <1>5, <1>6, DoneRests DEF TInv, TypeInv, zllVars, histVars

LEMMA TStoreData == ASSUME TInv, NEW s \in Senders, StoreData(s) PROVE TInv'
<1> DEFINE d == Head(todo[s])
<1>1. /\ ~Idle(s) /\ d.kind = "data" /\ Done(s)
      /\ data' = [data EXCEPT ![d.field] = d.val]
      /\ UNCHANGED <<StartAddresses, dmxVars, byArrBuffer, given, calls, histVars>>
  BY DEF StoreData, Next1
<1>2. data' \in Data
  BY <1>1, RestDone, HeadKind, DataStored DEF TInv
<1> HIDE DEF d
<1>3. StartCodeIntact'
  BY <1>1 DEF TInv, TypeInv, StartCodeIntact, dmxVars
<1>4. /\ data'.byCmd \in 0..4
      /\ data'.byR \in Bytes /\ data'.byG \in Bytes /\ data'.byB \in Bytes
  BY <1>2 DEF Data
<1> QED
  BY <1>1, <1>2, <1>3, <1>4, DoneRests DEF TInv, TypeInv, dmxVars, histVars

LEMMA TEncodeFrame == ASSUME TInv, NEW s \in Senders, EncodeFrame(s) PROVE TInv'
<1>1. /\ ~Idle(s) /\ Done(s) /\ byArrBuffer' = ToByteArray(data)
      /\ fault' = fault \cup {"intToBytes"}
      /\ UNCHANGED <<StartAddresses, dmxVars, data, given, calls, last, quiet, raced>>
  BY DEF EncodeFrame, Next1
<1>2. byArrBuffer' \in Seq(Bytes) /\ Len(byArrBuffer') = 30
  BY <1>1, FrameShape DEF TInv
<1>3. \A i \in 1..Len(byArrBuffer') : byArrBuffer'[i] \in Bytes
  BY <1>2, ElementOfSeq
<1>4. StartCodeIntact'
  BY <1>1 DEF TInv, TypeInv, StartCodeIntact, dmxVars
<1> QED
  BY <1>1, <1>2, <1>3, <1>4, DoneRests DEF TInv, TypeInv, dmxVars

LEMMA THandFrame == ASSUME TInv, NEW s \in Senders, HandFrame(s) PROVE TInv'
<1> DEFINE d == Head(todo[s])
<1>1. /\ ~Idle(s) /\ d.kind = "hand" /\ Done(s) /\ given' = given \cup {d.to}
      /\ UNCHANGED <<StartAddresses, dmxVars, zllVars, calls, histVars>>
  BY DEF HandFrame, Next1
<1>2. d.to \in {"dmx", "zll"}
  BY <1>1, RestDone, HeadKind
<1> HIDE DEF d
<1>3. StartCodeIntact'
  BY <1>1 DEF TInv, TypeInv, StartCodeIntact, dmxVars
<1> QED
  BY <1>1, <1>2, <1>3, DoneRests DEF TInv, TypeInv, dmxVars, zllVars, histVars

LEMMA NewBrightness ==
  ASSUME NEW b \in Nat
  PROVE  /\ Are(ZllBrightness(b) \o <<Encode, Hand("zll")>>,
                Writes(FieldsBrightness(b)) \cup {Encode, Hand("zll")})
         /\ Ordered(ZllBrightness(b) \o <<Encode, Hand("zll")>>)
BY ZllBrightnessStores, ZllFrameStores

LEMMA THandNewBrightness == ASSUME TInv, NEW s \in Senders, HandNewBrightness(s) PROVE TInv'
<1> DEFINE d == Head(todo[s])
           q == ZllBrightness(d.val) \o <<Encode, Hand("zll")>>
<1>1. /\ ~Idle(s) /\ d.kind = "again"
      /\ UNCHANGED <<StartAddresses, dmxVars, zllVars, given, calls, histVars>>
  BY DEF HandNewBrightness, Next1
<1>2. d.val \in Nat
  BY <1>1, RestDone, HeadKind
<1>3. q \in Seq(Item) /\ <<>> \in Seq(Item)
  BY <1>2, NewBrightness, EmptySeq DEF Are
<1>4. todo' = [todo EXCEPT ![s] = IF d.val # data.brightness THEN q ELSE <<>>]
  BY DEF HandNewBrightness
<1> HIDE DEF q, d
<1>5. PICK r \in Seq(Item) : todo' = [todo EXCEPT ![s] = r]
  BY <1>3, <1>4
<1>6. r \in Seq(Item \cup PacketItem) /\ Rests(r)
  BY SeqMonotonic, RestsItems
<1>7. /\ todo' \in [Senders -> Seq(Item \cup PacketItem)]
      /\ \A u \in Senders : Rests(todo'[u])
  BY <1>5, <1>6, RestsChange
<1>8. StartCodeIntact'
  BY <1>1 DEF TInv, TypeInv, StartCodeIntact, dmxVars
<1> QED
  BY <1>1, <1>7, <1>8 DEF TInv, TypeInv, dmxVars, zllVars, histVars

LEMMA TNext == ASSUME TInv, [Next]_vars PROVE TInv'
<1>1. CASE UNCHANGED vars
  BY <1>1 DEF TInv, TypeInv, StartCodeIntact, vars, dmxVars, zllVars, histVars
<1>2. ASSUME NEW s \in Senders, Step(s) PROVE TInv'
  BY <1>2, TSkipLamp, TStoreBuffer, TStorePacket, TStoreData, TEncodeFrame, THandFrame,
     THandNewBrightness DEF Step
<1>3. ASSUME NEW s \in Senders, NEW call \in Calls[s], Begin(s, call) PROVE TInv'
  BY <1>3, TBegin
<1> QED
  BY <1>1, <1>2, <1>3 DEF Next

LEMMA TAlways == Spec => []TInv
BY TInit, TNext, PTL DEF Spec

(* However the setters' loops and updateData interleave, both clients'     *)
(* buffers keep their shape and their bytes, and nothing but a channel is  *)
(* ever stored to (setDMXValue, ToByteArray).                              *)
THEOREM TypeCorrect == Spec => []TypeInv
<1>1. TInv => TypeInv
  BY DEF TInv
<1> QED
  BY <1>1, TAlways, PTL

-----------------------------------------------------------------------------
(* The mirror.                                                             *)

HalfOn(s, ch) == Next1(s, "packet") /\ Head(todo[s]).channel = ch

(* A channel no two senders met on is either the same on both sides, or    *)
(* one sender alone is about to make it so.                                *)
Mirrored(ch) ==
  /\ \A s \in Senders : HalfOn(s, ch) =>
       /\ Head(todo[s]).val = buffer[ch]
       /\ \A u \in Senders : HalfOn(u, ch) => u = s
  /\ (\A s \in Senders : ~HalfOn(s, ch)) => artNetData[Header + ch - 1] = buffer[ch]

MInv == \A ch \in (1..Top) \ raced : Mirrored(ch)

LEMMA MInit == ASSUME Init PROVE MInv
<1>1. \A ch \in 1..Top : Header + ch - 1 \in 0..(Header + Top - 1) /\ ch \in 0..Top
  BY ClientsAssumption
<1>2. \A ch \in 1..Top : artNetData[Header + ch - 1] = 0 /\ buffer[ch] = 0
  BY <1>1 DEF Init
<1>3. \A s \in Senders, ch \in 1..Top : ~HalfOn(s, ch)
  BY DEF Init, HalfOn, Next1, Idle
<1> QED
  BY <1>2, <1>3 DEF MInv, Mirrored

LEMMA ItemNoPacket == ASSUME NEW q \in Seq(Item), q # <<>> PROVE Head(q).kind # "packet"
<1>1. Head(q) \in Item
  BY RangeTail
<1> QED
  BY <1>1 DEF Item, DataItem, Encode, Hand

(* A step of a sender that neither was nor is between two halves.          *)
LEMMA MKept ==
  ASSUME TInv, MInv, NEW s \in Senders, NEW q \in Seq(Item), ~Next1(s, "packet"),
         todo' = [todo EXCEPT ![s] = q], UNCHANGED <<dmxVars, raced>>
  PROVE  MInv'
<1>1. todo \in [Senders -> Seq(Item \cup PacketItem)]
  BY DEF TInv
<1>2. \A ch : ~HalfOn(s, ch) /\ ~HalfOn(s, ch)'
  BY <1>1, ItemNoPacket DEF HalfOn, Next1, Idle
<1>3. \A u \in Senders \ {s} : todo'[u] = todo[u]
  BY <1>1
<1>4. \A u \in Senders, ch \in 1..Top :
        /\ HalfOn(u, ch)' <=> HalfOn(u, ch)
        /\ HalfOn(u, ch) => todo'[u] = todo[u]
  BY <1>2, <1>3 DEF HalfOn, Next1, Idle
<1>5. ASSUME NEW ch \in (1..Top) \ raced PROVE Mirrored(ch)'
  <2>1. Mirrored(ch)
    BY DEF MInv
  <2>2. /\ \A u \in Senders : HalfOn(u, ch)' <=> HalfOn(u, ch)
        /\ \A u \in Senders : HalfOn(u, ch) => todo'[u] = todo[u]
        /\ buffer' = buffer /\ artNetData' = artNetData
    BY <1>4 DEF dmxVars
  <2> QED
    BY <2>1, <2>2 DEF Mirrored
<1> QED
  BY <1>5 DEF MInv

LEMMA MStoreBuffer == ASSUME TInv, MInv, NEW s \in Senders, StoreBuffer(s) PROVE MInv'
<1> DEFINE d == Head(todo[s])
           t == Tail(todo[s])
           c == d.channel
<1>1. /\ ~Idle(s) /\ d.kind = "buffer" /\ InUniverse(c)
      /\ buffer' = [buffer EXCEPT ![c] = d.val]
      /\ raced' = IF HalfStored(s, c) THEN raced \cup {c} ELSE raced
      /\ todo' = [todo EXCEPT ![s] = <<ToPacket(d)>> \o t]
      /\ artNetData' = artNetData
  BY DEF StoreBuffer, Next1, TInv
<1>2. d \in [kind : {"buffer"}, channel : Int, val : Bytes] /\ t \in Seq(Item)
  BY <1>1, RestDone, HeadKind
<1>3. c \in 1..Top
  BY <1>1, <1>2, ClientsAssumption DEF InUniverse
<1>4. /\ ToPacket(d) \in PacketItem /\ ToPacket(d).kind = "packet"
      /\ ToPacket(d).channel = c /\ ToPacket(d).val = d.val
  BY <1>2, <1>3 DEF ToPacket, PacketItem
<1>5. \A ch : ~HalfOn(s, ch)
  BY <1>1 DEF HalfOn, Next1
<1>6. buffer \in [0..Top -> Bytes] /\ todo \in [Senders -> Seq(Item \cup PacketItem)]
  BY DEF TInv, TypeInv
<1> HIDE DEF d, t
<1>7. todo'[s] # <<>> /\ Head(todo'[s]) = ToPacket(d)
  BY <1>1, <1>2, <1>4, <1>6, HalfRests
<1>8. \A u \in Senders \ {s} : todo'[u] = todo[u]
  BY <1>1, <1>6
<1> HIDE DEF c
<1>9. \A ch : HalfOn(s, ch)' <=> ch = c
  BY <1>4, <1>7 DEF HalfOn, Next1, Idle
<1>10. \A u \in Senders \ {s}, ch \in 1..Top : HalfOn(u, ch)' <=> HalfOn(u, ch)
  BY <1>8 DEF HalfOn, Next1, Idle
<1>11. ASSUME NEW ch \in (1..Top) \ raced' PROVE Mirrored(ch)'
  <2>1. Mirrored(ch) /\ ch \notin raced
    BY <1>1 DEF MInv
  <2>2. CASE ch = c
    <3>1. \A u \in Senders \ {s} : ~HalfOn(u, ch)
      BY <1>1, <2>2 DEF HalfStored, HalfOn
    <3>2. \A u \in Senders : HalfOn(u, ch)' <=> u = s
      BY <1>9, <1>10, <3>1, <2>2
    <3>3. Head(todo'[s]).val = buffer'[ch]
      BY <1>1, <1>3, <1>4, <1>6, <1>7, <2>2
    <3> QED
      BY <3>2, <3>3 DEF Mirrored
  <2>3. CASE ch # c
    <3>1. \A u \in Senders : HalfOn(u, ch)' <=> HalfOn(u, ch)
      BY <1>5, <1>9, <1>10, <2>3
    <3>2. \A u \in Senders : HalfOn(u, ch) => todo'[u] = todo[u]
      BY <1>5, <1>8
    <3>3. buffer'[ch] = buffer[ch]
      BY <1>1, <1>3, <1>6, <2>3
    <3> QED
      BY <2>1, <3>1, <3>2, <3>3, <1>1 DEF Mirrored
  <2> QED
    BY <2>2, <2>3
<1> QED
  BY <1>11 DEF MInv

LEMMA MStorePacket == ASSUME TInv, MInv, NEW s \in Senders, StorePacket(s) PROVE MInv'
<1> DEFINE d == Head(todo[s])
           t == Tail(todo[s])
           c == d.channel
<1>1. /\ ~Idle(s) /\ d.kind = "packet"
      /\ todo' = [todo EXCEPT ![s] = t]
      /\ artNetData' = [artNetData EXCEPT ![Header + c - 1] = d.val]
      /\ buffer' = buffer /\ raced' = raced
  BY DEF StorePacket, Next1, Done, TInv, histVars
<1>2. c \in 1..Top /\ d.val \in Bytes /\ t \in Seq(Item)
  BY <1>1, RestDone, HeadKind DEF PacketItem
<1>3. HalfOn(s, c) /\ \A ch : HalfOn(s, ch) => ch = c
  BY <1>1 DEF HalfOn, Next1
<1>4. /\ artNetData \in [0..(Header + Top - 1) -> Bytes]
      /\ todo \in [Senders -> Seq(Item \cup PacketItem)]
  BY DEF TInv, TypeInv
<1> HIDE DEF t
<1>5. \A ch : ~HalfOn(s, ch)'
  BY <1>1, <1>2, <1>4, ItemNoPacket DEF HalfOn, Next1, Idle
<1>6. \A u \in Senders \ {s} : todo'[u] = todo[u]
  BY <1>1, <1>4
<1>7. \A u \in Senders \ {s}, ch \in 1..Top : HalfOn(u, ch)' <=> HalfOn(u, ch)
  BY <1>6 DEF HalfOn, Next1, Idle
<1>8. \A ch \in 1..Top : /\ Header + ch - 1 \in 0..(Header + Top - 1)
                         /\ Header + ch - 1 = Header + c - 1 => ch = c
  BY <1>2, ClientsAssumption
<1>9. \A ch \in (1..Top) \ raced : HalfOn(s, ch) => d.val = buffer[ch]
  BY DEF MInv, Mirrored
<1> HIDE DEF d, c
<1>10. ASSUME NEW ch \in (1..Top) \ raced PROVE Mirrored(ch)'
  <2>1. Mirrored(ch)
    BY DEF MInv
  <2>2. CASE ch = c
    <3>1. \A u \in Senders : ~HalfOn(u, ch)'
      BY <1>3, <1>5, <1>7, <2>1, <2>2 DEF Mirrored
    <3>2. d.val = buffer[ch]
      BY <1>3, <1>9, <2>2
    <3>3. artNetData'[Header + ch - 1] = d.val
      BY <1>1, <1>4, <1>8, <2>2
    <3> QED
      BY <1>1, <3>1, <3>2, <3>3 DEF Mirrored
  <2>3. CASE ch # c
    <3>1. ~HalfOn(s, ch)
      BY <1>3, <2>3
    <3>2. \A u \in Senders : HalfOn(u, ch)' <=> HalfOn(u, ch)
      BY <1>5, <1>7, <3>1
    <3>3. \A u \in Senders : HalfOn(u, ch) => todo'[u] = todo[u]
      BY <1>6, <3>1
    <3>4. artNetData'[Header + ch - 1] = artNetData[Header + ch - 1]
      BY <1>1, <1>4, <1>8, <2>3
    <3> QED
      BY <2>1, <3>2, <3>3, <3>4, <1>1 DEF Mirrored
  <2> QED
    BY <2>2, <2>3
<1> QED
  BY <1>1, <1>10 DEF MInv

LEMMA MDone ==
  ASSUME TInv, MInv, NEW s \in Senders, ~Idle(s), Head(todo[s]).kind # "packet", Done(s),
         UNCHANGED <<dmxVars, raced>>
  PROVE  MInv'
<1>1. Tail(todo[s]) \in Seq(Item) /\ ~Next1(s, "packet")
  BY RestDone DEF Next1
<1>2. todo' = [todo EXCEPT ![s] = Tail(todo[s])]
  BY DEF Done, TInv
<1> QED
  BY <1>1, <1>2, MKept

LEMMA MNext == ASSUME TInv, MInv, [Next]_vars PROVE MInv'
<1>1. CASE UNCHANGED vars
  BY <1>1 DEF MInv, Mirrored, HalfOn, Next1, Idle, vars, dmxVars, histVars
<1>2. ASSUME NEW s \in Senders, SkipLamp(s) PROVE MInv'
  BY <1>2, MDone DEF SkipLamp, Next1, histVars
<1>3. ASSUME NEW s \in Senders, StoreData(s) PROVE MInv'
  BY <1>3, MDone DEF StoreData, Next1, histVars
<1>4. ASSUME NEW s \in Senders, EncodeFrame(s) PROVE MInv'
  BY <1>4, MDone DEF EncodeFrame, Next1
<1>5. ASSUME NEW s \in Senders, HandFrame(s) PROVE MInv'
  BY <1>5, MDone DEF HandFrame, Next1, histVars
<1>6. ASSUME NEW s \in Senders, HandNewBrightness(s) PROVE MInv'
  <2> DEFINE d == Head(todo[s])
             q == ZllBrightness(d.val) \o <<Encode, Hand("zll")>>
  <2>1. /\ ~Idle(s) /\ d.kind = "again" /\ ~Next1(s, "packet")
        /\ UNCHANGED <<dmxVars, raced>>
    BY <1>6 DEF HandNewBrightness, Next1, histVars
  <2>2. d.val \in Nat
    BY <2>1, RestDone, HeadKind
  <2>3. q \in Seq(Item) /\ <<>> \in Seq(Item)
    BY <2>2, NewBrightness, EmptySeq DEF Are
  <2>4. todo' = [todo EXCEPT ![s] = IF d.val # data.brightness THEN q ELSE <<>>]
    BY <1>6 DEF HandNewBrightness
  <2> HIDE DEF d, q
  <2> QED
    BY <2>1, <2>3, <2>4, MKept
<1>7. ASSUME NEW s \in Senders, NEW call \in Calls[s], Begin(s, call) PROVE MInv'
  <2>1. StartAddresses \in Seq(Int) /\ call \in CallKinds
    BY ClientsAssumption DEF TInv, TypeInv
  <2>2. Stores(call) \in Seq(Item)
    BY <2>1, StoresAre DEF Are
  <2> QED
    BY <1>7, <2>2, MKept DEF Begin, Next1
<1> QED
  BY <1>1, <1>2, <1>3, <1>4, <1>5, <1>6, <1>7, MStoreBuffer, MStorePacket DEF Next, Step

(* The port's buffer and the network's packet hold the same channels,      *)
(* whatever the senders interleave, but for the channels two of them       *)
(* stored to at once (DMXClient::setDMXValue).                             *)
THEOREM Mirror == Spec => []MirrorUnlessRaced
<1>1. MInv => MirrorUnlessRaced
  BY DEF MInv, Mirrored, MirrorUnlessRaced, HalfOn
<1>2. TInv /\ MInv /\ [Next]_vars => MInv'
  BY MNext
<1> QED
  BY <1>1, <1>2, MInit, TAlways, PTL DEF Spec

-----------------------------------------------------------------------------
(* A call that meets no other: what is not yet so is still to be done.     *)

Left(s) == Range(todo[s])

WillShow(s, ch, v) ==
  /\ \A w : [kind |-> "buffer", channel |-> ch, val |-> w] \in Left(s) => w = Byte(v)
  /\ buffer[ch] = Byte(v) \/ ToBuffer(ch, v) \in Left(s)

WillHold(s, f, v) ==
  /\ \A w : ToData(f, w) \in Left(s) => w = v
  /\ data[f] = v \/ ToData(f, v) \in Left(s)

WillGive(s, c) == c \in given \/ Hand(c) \in Left(s)

LampsShow(s) ==
  TellsBoth => \A i \in Lamps, p \in Lamp(last) : WillShow(s, StartAddresses[i] + p[1], p[2])

FramesGo(s) == last.op = "scene" => WillGive(s, "dmx") /\ WillGive(s, "zll")

(* A scene's colour is followed by its brightness.                         *)
Repeated == last.op = "scene" /\ last.pmode \in {"XY", "CCT"}

(* Before that: the frame in the buffer, once made, holds the brightness   *)
(* the client had before the scene.                                        *)
First(s) ==
  /\ TellsBoth => \A p \in Fields(last) : WillHold(s, p[1], p[2])
  /\ \A b : HandAgain(b) \in Left(s) => Repeated /\ b = last.brightness
  /\ Repeated => /\ HandAgain(last.brightness) \in Left(s)
                 /\ \A w : ToData("brightness", w) \notin Left(s)
                 /\ Encode \in Left(s) \/ byArrBuffer[5] = Byte(data.brightness)

(* After it, if the client had that brightness already.                    *)
Unchanged(s) ==
  /\ Repeated /\ Idle(s)
  /\ \A p \in Fields(last) : data[p[1]] = p[2]
  /\ byArrBuffer[5] = Byte(last.brightness)

(* After it, if it had not.                                                *)
Second(s) ==
  /\ Repeated /\ \A b : HandAgain(b) \notin Left(s)
  /\ WillHold(s, "byCmd", SET_BRIGHTNESS) /\ WillHold(s, "brightness", last.brightness)
  /\ Encode \in Left(s) \/ byArrBuffer[5] = Byte(last.brightness)

Course(s) ==
  /\ last \in CallKinds
  /\ Ordered(todo[s]) /\ LampsShow(s) /\ FramesGo(s)
  /\ First(s) \/ Unchanged(s) \/ Second(s)

QInv ==
  quiet => \E s \in Senders : (\A u \in Senders \ {s} : Idle(u)) /\ Course(s)

(* The offsets and fields of a call are told once.                         *)
LEMMA LampOnce ==
  ASSUME NEW call \in CallKinds, NEW p \in Lamp(call), NEW r \in Lamp(call)
  PROVE  p[1] \in 0..3 /\ (p[1] = r[1] => p[2] = r[2])
<1>1. CASE Colour(call, "rgb", "RGB")
  BY <1>1 DEF Lamp, Colour, LampRgb
<1>2. CASE call.op = "brightness"
  BY <1>2 DEF Lamp, Colour, LampBrightness
<1>3. CASE call.op = "cct"
  BY <1>3 DEF Lamp, Colour, LampCct
<1>4. CASE call.op = "xy"
  BY <1>4 DEF Lamp, Colour, LampXy
<1>5. CASE call.op = "scene" /\ call.pmode = "CCT"
  BY <1>5 DEF Lamp, Colour, LampCct, LampBrightness
<1>6. CASE call.op = "scene" /\ call.pmode = "XY"
  BY <1>6 DEF Lamp, Colour, LampXy, LampBrightness
<1>7. CASE call.op = "fade" \/ (call.op = "scene" /\ call.pmode \notin {"RGB", "CCT", "XY"})
  BY <1>7 DEF Lamp, Colour
<1> QED
  BY <1>1, <1>2, <1>3, <1>4, <1>5, <1>6, <1>7 DEF CallKinds, Colour

LEMMA FieldsOnce ==
  ASSUME NEW call \in CallKinds, NEW p \in Fields(call), NEW r \in Fields(call)
  PROVE  /\ p[1] \in {"byCmd", "brightness", "ciex", "ciey", "cct", "byR", "byG", "byB"}
         /\ p[1] = r[1] => p[2] = r[2]
         /\ call.op = "scene" /\ call.pmode \in {"XY", "CCT"} => p[1] # "brightness"
<1>1. CASE Colour(call, "rgb", "RGB")
  BY <1>1 DEF Fields, Colour, FieldsRgb
<1>2. CASE Colour(call, "cct", "CCT")
  BY <1>2 DEF Fields, Colour, FieldsCct
<1>3. CASE Colour(call, "xy", "XY")
  BY <1>3 DEF Fields, Colour, FieldsXy
<1>4. CASE Colour(call, "brightness", "BRIGHTNESS")
  BY <1>4 DEF Fields, Colour, FieldsBrightness
<1>5. CASE call.op = "fade" \/ (call.op = "scene" /\ call.pmode = "NONE")
  BY <1>5 DEF Fields, Colour
<1> QED
  BY <1>1, <1>2, <1>3, <1>4, <1>5 DEF CallKinds, Colour

LEMMA ItemsApart ==
  ASSUME NEW f, NEW w, NEW g, NEW x, NEW ch, NEW b, NEW c
  PROVE  /\ ToData(f, w) = ToData(g, x) => f = g /\ w = x
         /\ ToData(f, w).kind = "data" /\ Encode.kind = "encode" /\ Hand(c).kind = "hand"
         /\ HandAgain(b).kind = "again" /\ ToBuffer(ch, w).kind = "buffer"
         /\ HandAgain(b) = HandAgain(x) => b = x
         /\ Hand(c) = Hand(x) => c = x
<1>1. /\ ToData(f, w).field = f /\ ToData(f, w).val = w
      /\ ToData(g, x).field = g /\ ToData(g, x).val = x
  BY DEF ToData
<1>2. HandAgain(b).val = b /\ HandAgain(x).val = x
  BY DEF HandAgain
<1>3. Hand(c).to = c /\ Hand(x).to = x
  BY DEF Hand
<1>4. /\ ToData(f, w).kind = "data" /\ Encode.kind = "encode" /\ Hand(c).kind = "hand"
      /\ HandAgain(b).kind = "again" /\ ToBuffer(ch, w).kind = "buffer"
  BY DEF ToData, Encode, Hand, HandAgain, ToBuffer
<1> QED
  BY <1>1, <1>2, <1>3, <1>4

(* What a step that leaves the buffer, the fields or the hand-overs alone  *)
(* keeps.                                                                  *)
LEMMA ShowKept ==
  ASSUME NEW s, NEW ch, NEW v, WillShow(s, ch, v), buffer'[ch] = buffer[ch],
         \A w : [kind |-> "buffer", channel |-> ch, val |-> w] \in Left(s)'
                  <=> [kind |-> "buffer", channel |-> ch, val |-> w] \in Left(s)
  PROVE  WillShow(s, ch, v)'
BY DEF WillShow, ToBuffer

LEMMA HoldKept ==
  ASSUME NEW s, NEW f, NEW v, WillHold(s, f, v), data'[f] = data[f],
         \A w : ToData(f, w) \in Left(s)' <=> ToData(f, w) \in Left(s)
  PROVE  WillHold(s, f, v)'
BY DEF WillHold

LEMMA FramesKept ==
  ASSUME NEW s, FramesGo(s), last' = last, given \subseteq given',
         \A c : Hand(c) \in Left(s) => Hand(c) \in Left(s)' \/ c \in given'
  PROVE  FramesGo(s)'
BY DEF FramesGo, WillGive

LEMMA LampsKept ==
  ASSUME NEW s, LampsShow(s), UNCHANGED <<last, StartAddresses>>,
         \A ch \in 1..Top : \A v : WillShow(s, ch, v) => WillShow(s, ch, v)',
         last \in CallKinds, StartAddresses \in Seq(Int)
  PROVE  LampsShow(s)'
<1>1. SUFFICES ASSUME TellsBoth, NEW i \in Lamps, NEW p \in Lamp(last)
               PROVE  WillShow(s, StartAddresses[i] + p[1], p[2])'
  BY DEF LampsShow, TellsBoth, Lamps, Whole, Channels
<1>2. StartAddresses[i] + p[1] \in 1..Top
  <2>1. p[1] \in 0..3
    BY <1>1, LampOnce
  <2>2. StartAddresses[i] \in Int
    BY <1>1, ElementOfSeq DEF Lamps
  <2>3. StartAddresses[i]..(StartAddresses[i] + 3) \subseteq 1..Top
    BY <1>1 DEF Lamps, Whole, Channels
  <2>4. StartAddresses[i] + p[1] \in StartAddresses[i]..(StartAddresses[i] + 3)
    BY <2>1, <2>2
  <2> QED
    BY <2>3, <2>4
<1> QED
  BY <1>1, <1>2 DEF LampsShow

LEMMA PhaseKept ==
  ASSUME NEW s, First(s) \/ Second(s), last' = last, zllVars' = zllVars,
         \A d : d.kind \in {"data", "encode", "again"} => (d \in Left(s)' <=> d \in Left(s))
  PROVE  First(s)' \/ Second(s)'
<1>1. \A f, w : ToData(f, w) \in Left(s)' <=> ToData(f, w) \in Left(s)
  BY ItemsApart
<1>2. Encode \in Left(s)' <=> Encode \in Left(s)
  BY ItemsApart
<1>3. \A b : HandAgain(b) \in Left(s)' <=> HandAgain(b) \in Left(s)
  BY ItemsApart
<1>4. data' = data /\ byArrBuffer' = byArrBuffer
  BY DEF zllVars
<1>5. \A f, v : WillHold(s, f, v) => WillHold(s, f, v)'
  BY <1>1, <1>4, HoldKept
<1>6. (TellsBoth' <=> TellsBoth) /\ (Repeated' <=> Repeated)
  BY DEF TellsBoth, Repeated
<1>7. First(s) => First(s)'
  BY <1>1, <1>2, <1>3, <1>4, <1>5, <1>6 DEF First
<1>8. Second(s) => Second(s)'
  BY <1>2, <1>3, <1>4, <1>5, <1>6 DEF Second
<1> QED
  BY <1>7, <1>8

(* The first item, and what is left when it is done.                       *)
LEMMA LeftDone ==
  ASSUME TInv, NEW s \in Senders, ~Idle(s), Done(s), Ordered(todo[s])
  PROVE  /\ Left(s) = {Head(todo[s])} \cup Left(s)'
         /\ Ordered(todo[s])'
         /\ Head(todo[s]).kind = "encode" => \A d \in Left(s)' : d.kind # "data"
<1>1. /\ todo[s] \in Seq(Item \cup PacketItem) /\ todo[s] # <<>>
      /\ Head(todo[s]) \in Item \cup PacketItem
      /\ todo'[s] = Tail(todo[s])
  BY RestDone DEF TInv, Idle, Done
<1>2. Left(s) = {Head(todo[s])} \cup Left(s)'
  BY <1>1, RangeTail DEF Left
<1> QED
  BY <1>1, <1>2, OrderedTail DEF Left

LEMMA Phases ==
  ASSUME NEW s, Course(s), ~Idle(s) PROVE First(s) \/ Second(s)
BY DEF Course, Unchanged

LEMMA QSkipLamp ==
  ASSUME TInv, NEW s \in Senders, Course(s), SkipLamp(s) PROVE Course(s)'
<1> DEFINE h == Head(todo[s])
<1>1. /\ ~Idle(s) /\ h.kind = "buffer" /\ ~InUniverse(h.channel) /\ Done(s)
      /\ UNCHANGED <<StartAddresses, dmxVars, zllVars, given, calls, histVars>>
  BY DEF SkipLamp, Next1
<1>2. Left(s) = {h} \cup Left(s)' /\ Ordered(todo[s])'
  BY <1>1, LeftDone DEF Course
<1> HIDE DEF h
<1>3. \A d : d.kind # "buffer" => (d \in Left(s)' <=> d \in Left(s))
  BY <1>1, <1>2
<1>4. \A ch \in 1..Top : \A v : WillShow(s, ch, v) => WillShow(s, ch, v)'
  <2>1. \A ch \in 1..Top : \A w : h # [kind |-> "buffer", channel |-> ch, val |-> w]
    BY <1>1, ClientsAssumption DEF InUniverse
  <2> QED
    BY <1>1, <1>2, <2>1, ShowKept DEF dmxVars
<1>5. LampsShow(s)'
  BY <1>1, <1>4, LampsKept, ClientsAssumption DEF Course, histVars, TInv, TypeInv
<1>6. FramesGo(s)'
  BY <1>1, <1>3, FramesKept, ItemsApart DEF Course, histVars
<1>7. First(s)' \/ Second(s)'
  BY <1>1, <1>3, Phases, PhaseKept DEF histVars
<1> QED
  BY <1>1, <1>2, <1>5, <1>6, <1>7 DEF Course, histVars

LEMMA QStorePacket ==
  ASSUME TInv, NEW s \in Senders, Course(s), StorePacket(s) PROVE Course(s)'
<1> DEFINE h == Head(todo[s])
<1>1. /\ ~Idle(s) /\ h.kind = "packet" /\ Done(s)
      /\ UNCHANGED <<StartAddresses, buffer, zllVars, given, calls, histVars>>
  BY DEF StorePacket, Next1
<1>2. Left(s) = {h} \cup Left(s)' /\ Ordered(todo[s])'
  BY <1>1, LeftDone DEF Course
<1> HIDE DEF h
<1>3. \A d : d.kind # "packet" => (d \in Left(s)' <=> d \in Left(s))
  BY <1>1, <1>2
<1>4. \A ch \in 1..Top : \A v : WillShow(s, ch, v) => WillShow(s, ch, v)'
  <2>1. \A ch \in 1..Top : \A w : h # [kind |-> "buffer", channel |-> ch, val |-> w]
    BY <1>1
  <2> QED
    BY <1>1, <1>2, <2>1, ShowKept
<1>5. LampsShow(s)'
  BY <1>1, <1>4, LampsKept, ClientsAssumption DEF Course, histVars, TInv, TypeInv
<1>6. FramesGo(s)'
  BY <1>1, <1>3, FramesKept, ItemsApart DEF Course, histVars
<1>7. First(s)' \/ Second(s)'
  BY <1>1, <1>3, Phases, PhaseKept DEF histVars
<1> QED
  BY <1>1, <1>2, <1>5, <1>6, <1>7 DEF Course, histVars

LEMMA QStoreBuffer ==
  ASSUME TInv, NEW s \in Senders, Course(s), StoreBuffer(s) PROVE Course(s)'
<1> DEFINE h == Head(todo[s])
           t == Tail(todo[s])
           c == h.channel
           p == ToPacket(h)
<1>1. /\ ~Idle(s) /\ h.kind = "buffer" /\ InUniverse(c)
      /\ buffer' = [buffer EXCEPT ![c] = h.val]
      /\ todo'[s] = <<p>> \o t
      /\ UNCHANGED <<StartAddresses, artNetData, zllVars, given, calls, last, quiet, fault>>
  BY DEF StoreBuffer, Next1, TInv
<1>2. h \in [kind : {"buffer"}, channel : Int, val : Bytes] /\ t \in Seq(Item)
  BY <1>1, RestDone, HeadKind
<1>3. c \in 1..Top /\ buffer \in [0..Top -> Bytes]
  BY <1>1, <1>2, ClientsAssumption DEF InUniverse, TInv, TypeInv
<1>4. p \in PacketItem /\ p.kind = "packet"
  BY <1>2, <1>3 DEF ToPacket, PacketItem
<1>5. todo[s] \in Seq(Item \cup PacketItem) /\ todo[s] # <<>>
  BY <1>1 DEF TInv, Idle
<1>6. Left(s) = {h} \cup Range(t) /\ Ordered(t)
  BY <1>5, RangeTail, OrderedTail DEF Left, Course
<1>7. /\ todo'[s] \in Seq(Item \cup PacketItem) /\ todo'[s] # <<>>
      /\ Head(todo'[s]) = p /\ Tail(todo'[s]) = t
  BY <1>1, <1>2, <1>4, HalfRests
<1>8. Left(s)' = {p} \cup Range(t)
  BY <1>7, RangeTail DEF Left
<1>9. Ordered(todo'[s])
  <2> DEFINE q == todo'[s]
  <2>1. /\ Len(q) = 1 + Len(t) /\ Len(t) \in Nat /\ q[1] = p
        /\ \A i \in 2..Len(q) : q[i] = t[i - 1]
    <3>1. <<p>> \in Seq(Item \cup PacketItem) /\ t \in Seq(Item \cup PacketItem)
      BY <1>2, <1>4, SeqMonotonic
    <3> HIDE DEF p, t
    <3> QED
      BY <1>1, <3>1, ConcatProperties
  <2> HIDE DEF q, p, t
  <2>2. ASSUME NEW i \in 1..Len(q), NEW j \in 1..Len(q), i < j
        PROVE  (q[i].kind = "encode" => q[j].kind # "data") /\ q[i].kind # "again"
    <3>1. CASE i = 1
      BY <1>4, <2>1, <3>1
    <3>2. CASE i # 1
      <4>1. i - 1 \in 1..Len(t) /\ j - 1 \in 1..Len(t) /\ q[i] = t[i - 1] /\ q[j] = t[j - 1]
            /\ i - 1 < j - 1
        BY <2>1, <2>2, <3>2
      <4> QED
        BY <1>6, <4>1 DEF Ordered
    <3> QED
      BY <3>1, <3>2
  <2> QED
    BY <2>2 DEF Ordered, q
<1> HIDE DEF h, t, p
<1>10. \A d : d.kind \notin {"buffer", "packet"} => (d \in Left(s)' <=> d \in Left(s))
  BY <1>1, <1>4, <1>6, <1>8
<1>11. ASSUME NEW ch \in 1..Top, NEW v, WillShow(s, ch, v) PROVE WillShow(s, ch, v)'
  <2>1. \A w : p # [kind |-> "buffer", channel |-> ch, val |-> w]
    BY <1>4
  <2>2. CASE ch = c
    <3>1. h = [kind |-> "buffer", channel |-> ch, val |-> h.val]
      BY <1>2, <2>2
    <3>2. h.val = Byte(v)
      BY <1>6, <1>11, <3>1 DEF WillShow
    <3>3. buffer'[ch] = Byte(v)
      BY <1>1, <1>3, <2>2, <3>2
    <3> QED
      BY <1>6, <1>8, <1>11, <2>1, <3>3 DEF WillShow
  <2>3. CASE ch # c
    <3>1. \A w : h # [kind |-> "buffer", channel |-> ch, val |-> w]
      BY <2>3
    <3>2. buffer'[ch] = buffer[ch]
      BY <1>1, <1>3, <2>3
    <3> QED
      BY <1>6, <1>8, <1>11, <2>1, <3>1, <3>2, ShowKept
  <2> QED
    BY <2>2, <2>3
<1>12. LampsShow(s)'
  BY <1>1, <1>11, LampsKept, ClientsAssumption DEF Course, TInv, TypeInv
<1>13. FramesGo(s)'
  BY <1>1, <1>10, FramesKept, ItemsApart DEF Course
<1>14. First(s)' \/ Second(s)'
  BY <1>1, <1>10, Phases, PhaseKept
<1> QED
  BY <1>1, <1>9, <1>12, <1>13, <1>14 DEF Course

LEMMA QHandFrame ==
  ASSUME TInv, NEW s \in Senders, Course(s), HandFrame(s) PROVE Course(s)'
<1> DEFINE h == Head(todo[s])
<1>1. /\ ~Idle(s) /\ h.kind = "hand" /\ Done(s) /\ given' = given \cup {h.to}
      /\ UNCHANGED <<StartAddresses, dmxVars, zllVars, calls, histVars>>
  BY DEF HandFrame, Next1
<1>2. Left(s) = {h} \cup Left(s)' /\ Ordered(todo[s])'
  BY <1>1, LeftDone DEF Course
<1>3. h = Hand(h.to)
  BY <1>1, RestDone, HeadKind
<1> HIDE DEF h
<1>4. \A d : d.kind # "hand" => (d \in Left(s)' <=> d \in Left(s))
  BY <1>1, <1>2
<1>5. \A ch \in 1..Top : \A v : WillShow(s, ch, v) => WillShow(s, ch, v)'
  BY <1>1, <1>4, ShowKept DEF dmxVars
<1>6. LampsShow(s)'
  BY <1>1, <1>5, LampsKept, ClientsAssumption DEF Course, histVars, TInv, TypeInv
<1>7. FramesGo(s)'
  <2>1. \A c : Hand(c) \in Left(s) => Hand(c) \in Left(s)' \/ c \in given'
    BY <1>1, <1>2, <1>3, ItemsApart
  <2> QED
    BY <1>1, <2>1, FramesKept DEF Course, histVars
<1>8. First(s)' \/ Second(s)'
  BY <1>1, <1>4, Phases, PhaseKept DEF histVars
<1> QED
  BY <1>1, <1>2, <1>6, <1>7, <1>8 DEF Course, histVars

LEMMA FieldName ==
  ASSUME NEW d \in DataItem, NEW dd \in Data
  PROVE  d = ToData(d.field, d.val) /\ [dd EXCEPT ![d.field] = d.val][d.field] = d.val
<1>1. d = ToData(d.field, d.val)
  BY DEF DataItem, ToData
<1>2. CASE d.field \in {"byCmd", "brightness", "fadetime"}
  BY <1>1, <1>2 DEF Data
<1>3. CASE d.field \in {"ciex", "ciey", "cct"}
  BY <1>1, <1>3 DEF Data
<1>4. CASE d.field \in {"byR", "byG", "byB"}
  BY <1>1, <1>4 DEF Data
<1> QED
  BY <1>2, <1>3, <1>4 DEF DataItem

LEMMA FieldKept ==
  ASSUME NEW dd \in Data, NEW f, NEW g, NEW v,
         g \in {"byCmd", "brightness", "ciex", "ciey", "cct", "byR", "byG", "byB"}, f # g
  PROVE  [dd EXCEPT ![f] = v][g] = dd[g]
BY DEF Data

LEMMA QStoreData ==
  ASSUME TInv, NEW s \in Senders, Course(s), StoreData(s) PROVE Course(s)'
<1> DEFINE h == Head(todo[s])
<1>1. /\ ~Idle(s) /\ h.kind = "data" /\ Done(s) /\ data' = [data EXCEPT ![h.field] = h.val]
      /\ UNCHANGED <<StartAddresses, dmxVars, byArrBuffer, given, calls, histVars>>
  BY DEF StoreData, Next1
<1>2. Left(s) = {h} \cup Left(s)' /\ Ordered(todo[s])'
  BY <1>1, LeftDone DEF Course
<1>3. h \in DataItem
  BY <1>1, RestDone, HeadKind
<1> DEFINE f == h.field
           w == h.val
           Names == {"byCmd", "brightness", "ciex", "ciey", "cct", "byR", "byG", "byB"}
<1>4. data \in Data
  BY DEF TInv
<1>5. h = ToData(f, w) /\ data'[f] = w /\ \A g \in Names : g # f => data'[g] = data[g]
  BY <1>1, <1>3, <1>4, FieldName, FieldKept
<1>6. \A d : d.kind # "data" => (d \in Left(s)' <=> d \in Left(s))
  BY <1>1, <1>2
<1> HIDE DEF h, f, w, Names
<1>7. \A ch \in 1..Top : \A v : WillShow(s, ch, v) => WillShow(s, ch, v)'
  BY <1>1, <1>6, ShowKept DEF dmxVars
<1>8. LampsShow(s)'
  BY <1>1, <1>7, LampsKept, ClientsAssumption DEF Course, histVars, TInv, TypeInv
<1>9. FramesGo(s)'
  BY <1>1, <1>6, FramesKept, ItemsApart DEF Course, histVars
<1>10. ASSUME NEW g \in Names, NEW v, WillHold(s, g, v) PROVE WillHold(s, g, v)'
  <2>1. CASE g = f
    <3>1. w = v
      BY <1>2, <1>5, <1>10, <2>1 DEF WillHold
    <3>2. \A x : ToData(g, x) \in Left(s)' => ToData(g, x) \in Left(s)
      BY <1>2
    <3> QED
      BY <1>5, <1>10, <2>1, <3>1, <3>2 DEF WillHold
  <2>2. CASE g # f
    <3>1. \A x : ToData(g, x) # h
      BY <1>5, <2>2, ItemsApart
    <3>2. \A x : ToData(g, x) \in Left(s)' <=> ToData(g, x) \in Left(s)
      BY <1>2, <3>1
    <3>3. data'[g] = data[g]
      BY <1>5, <2>2
    <3> QED
      BY <1>10, <3>2, <3>3, HoldKept
  <2> QED
    BY <2>1, <2>2
<1>11. /\ Encode \in Left(s)' <=> Encode \in Left(s)
       /\ \A b : HandAgain(b) \in Left(s)' <=> HandAgain(b) \in Left(s)
  BY <1>6, ItemsApart
<1>12. /\ TellsBoth' <=> TellsBoth
       /\ Repeated' <=> Repeated
       /\ last' = last /\ byArrBuffer' = byArrBuffer
  BY <1>1 DEF histVars, TellsBoth, Repeated
<1>13. ASSUME First(s) PROVE First(s)'
  <2>1. ASSUME TellsBoth, NEW p \in Fields(last) PROVE WillHold(s, p[1], p[2])'
    <3>1. p[1] \in Names
      BY <2>1, FieldsOnce DEF Course, Names
    <3> QED
      BY <1>10, <1>13, <2>1, <3>1 DEF First
  <2>2. ASSUME Repeated
        PROVE  /\ \A x : ToData("brightness", x) \notin Left(s)'
               /\ Encode \in Left(s)' \/ byArrBuffer'[5] = Byte(data'.brightness)
    <3>1. \A x : ToData("brightness", x) \notin Left(s)
      BY <1>13, <2>2 DEF First
    <3>2. f # "brightness"
      BY <1>2, <1>5, <3>1
    <3>3. data'.brightness = data.brightness
      <4>1. data'["brightness"] = data["brightness"]
        BY <1>5, <3>2 DEF Names
      <4> QED
        BY <4>1
    <3> QED
      BY <1>2, <1>11, <1>12, <1>13, <2>2, <3>1, <3>3 DEF First
  <2> QED
    BY <1>11, <1>12, <1>13, <2>1, <2>2 DEF First
<1>14. ASSUME Second(s) PROVE Second(s)'
  <2>1. WillHold(s, "byCmd", SET_BRIGHTNESS)' /\ WillHold(s, "brightness", last.brightness)'
    <3>1. SET_BRIGHTNESS' = SET_BRIGHTNESS /\ (last.brightness)' = last.brightness
      BY <1>12 DEF SET_BRIGHTNESS
    <3>2. "byCmd" \in Names /\ "brightness" \in Names
      BY DEF Names
    <3>3. WillHold(s, "byCmd", SET_BRIGHTNESS)'
      BY <1>10, <1>14, <3>2 DEF Second
    <3>4. \A v : WillHold(s, "brightness", v) => WillHold(s, "brightness", v)'
      BY <1>10, <3>2
    <3> QED
      BY <1>12, <1>14, <3>3, <3>4 DEF Second, WillHold
  <2> QED
    BY <1>11, <1>12, <1>14, <2>1 DEF Second
<1> QED
  BY <1>1, <1>2, <1>8, <1>9, <1>12, <1>13, <1>14, Phases DEF Course

LEMMA QEncodeFrame ==
  ASSUME TInv, NEW s \in Senders, Course(s), EncodeFrame(s) PROVE Course(s)'
<1> DEFINE h == Head(todo[s])
<1>1. /\ ~Idle(s) /\ h.kind = "encode" /\ Done(s) /\ byArrBuffer' = ToByteArray(data)
      /\ UNCHANGED <<StartAddresses, dmxVars, data, given, calls, last, quiet, raced>>
  BY DEF EncodeFrame, Next1
<1>2. /\ Left(s) = {h} \cup Left(s)' /\ Ordered(todo[s])'
      /\ \A d \in Left(s)' : d.kind # "data"
  BY <1>1, LeftDone DEF Course
<1> HIDE DEF h
<1>3. \A d : d.kind # "encode" => (d \in Left(s)' <=> d \in Left(s))
  BY <1>1, <1>2
<1>4. \A ch \in 1..Top : \A v : WillShow(s, ch, v) => WillShow(s, ch, v)'
  BY <1>1, <1>3, ShowKept DEF dmxVars
<1>5. LampsShow(s)'
  BY <1>1, <1>4, LampsKept, ClientsAssumption DEF Course, TInv, TypeInv
<1>6. FramesGo(s)'
  BY <1>1, <1>3, FramesKept, ItemsApart DEF Course
<1>7. byArrBuffer'[5] = Byte(data.brightness)
  BY <1>1, FrameShape DEF TInv
<1>8. \A f, w : ToData(f, w) \in Left(s)' <=> ToData(f, w) \in Left(s)
  BY <1>3, ItemsApart
<1>9. \A b : HandAgain(b) \in Left(s)' <=> HandAgain(b) \in Left(s)
  BY <1>3, ItemsApart
<1>10. \A f, v : WillHold(s, f, v) => WillHold(s, f, v)'
  BY <1>1, <1>8, HoldKept
<1>11. (TellsBoth' <=> TellsBoth) /\ (Repeated' <=> Repeated)
  BY <1>1 DEF TellsBoth, Repeated
<1>12. First(s) => First(s)'
  BY <1>1, <1>7, <1>8, <1>9, <1>10, <1>11 DEF First
<1>13. Second(s) => Second(s)'
  <2>1. ASSUME Second(s) PROVE data.brightness = last.brightness
    <3>1. \A w : ToData("brightness", w) \notin Left(s)
      BY <1>2, <1>8, ItemsApart
    <3> QED
      BY <2>1, <3>1 DEF Second, WillHold
  <2> QED
    BY <1>1, <1>7, <1>9, <1>10, <1>11, <2>1 DEF Second
<1> QED
  BY <1>1, <1>2, <1>5, <1>6, <1>12, <1>13, Phases DEF Course

LEMMA QHandNewBrightness ==
  ASSUME TInv, NEW s \in Senders, Course(s), HandNewBrightness(s) PROVE Course(s)'
<1> DEFINE h == Head(todo[s])
           b == h.val
           q == ZllBrightness(b) \o <<Encode, Hand("zll")>>
<1>1. /\ ~Idle(s) /\ h.kind = "again"
      /\ todo'[s] = IF b # data.brightness THEN q ELSE <<>>
      /\ UNCHANGED <<StartAddresses, dmxVars, zllVars, given, calls, histVars>>
  BY DEF HandNewBrightness, Next1, TInv
<1>2. b \in Nat /\ h = HandAgain(b)
  BY <1>1, RestDone, HeadKind
<1>3. Left(s) = {h}
  <2>1. todo[s] \in Seq(Item \cup PacketItem) /\ todo[s] # <<>>
    BY <1>1 DEF TInv, Idle
  <2>2. Tail(todo[s]) = <<>>
    BY <1>1, <2>1, OrderedTail DEF Course
  <2>3. Range(<<>>) = {}
    BY AreNone DEF Are
  <2> QED
    BY <2>1, <2>2, <2>3, RangeTail, ZenonT(30) DEF Left
<1>4. /\ Are(q, Writes(FieldsBrightness(b)) \cup {Encode, Hand("zll")})
      /\ Ordered(q)
  BY <1>2, NewBrightness
<1> HIDE DEF h, q, b
<1>5. First(s) /\ Repeated /\ b = last.brightness
  <2>1. ~Second(s)
    BY <1>2, <1>3 DEF Second
  <2>2. First(s)
    BY <1>1, <2>1, Phases
  <2> QED
    BY <1>2, <1>3, <2>2 DEF First
<1>6. \A d \in Left(s) : d.kind = "again"
  BY <1>2, <1>3, ItemsApart
<1>7. \A f, w : ToData(f, w) \notin Left(s)
  BY <1>6, ItemsApart
<1>8. byArrBuffer[5] = Byte(data.brightness)
  <2>1. Encode \notin Left(s)
    BY <1>6, ItemsApart
  <2> QED
    BY <1>5, <2>1 DEF First
<1>9. TellsBoth /\ \A p \in Fields(last) : data[p[1]] = p[2]
  <2>1. TellsBoth
    BY <1>5 DEF Repeated, TellsBoth
  <2> QED
    BY <1>5, <1>7, <2>1 DEF First, WillHold
<1>10. \A d \in Left(s)' : d.kind \in {"data", "encode", "hand"}
  <2>1. CASE b = data.brightness
    BY <1>1, <2>1, AreNone DEF Left, Are
  <2>2. CASE b # data.brightness
    <3>1. Left(s)' = Writes(FieldsBrightness(b)) \cup {Encode, Hand("zll")}
      BY <1>1, <1>4, <2>2 DEF Left, Are
    <3> QED
      BY <3>1 DEF Writes, ToData, Encode, Hand
  <2> QED
    BY <2>1, <2>2
<1>11. \A ch \in 1..Top : \A v : WillShow(s, ch, v) => WillShow(s, ch, v)'
  <2>1. \A ch, w : /\ [kind |-> "buffer", channel |-> ch, val |-> w] \notin Left(s)
                   /\ [kind |-> "buffer", channel |-> ch, val |-> w] \notin Left(s)'
    BY <1>6, <1>10
  <2> QED
    BY <1>1, <2>1, ShowKept DEF dmxVars
<1>12. LampsShow(s)'
  BY <1>1, <1>11, LampsKept, ClientsAssumption DEF Course, histVars, TInv, TypeInv
<1>13. FramesGo(s)'
  <2>1. \A c : Hand(c) \notin Left(s)
    BY <1>6, ItemsApart
  <2> QED
    BY <1>1, <2>1, FramesKept DEF Course, histVars
<1>14. (Repeated' <=> Repeated) /\ last' = last /\ zllVars' = zllVars
  BY <1>1 DEF histVars, Repeated
<1>15. Ordered(todo[s])'
  BY <1>1, <1>4, AreNone, LooseOrdered DEF Loose
<1>16. CASE b = data.brightness
  <2>1. Unchanged(s)'
    BY <1>1, <1>5, <1>8, <1>9, <1>14, <1>16 DEF Unchanged, Idle, zllVars
  <2> QED
    BY <1>12, <1>13, <1>14, <1>15, <2>1 DEF Course
<1>17. CASE b # data.brightness
  <2>1. Left(s)' = Writes(FieldsBrightness(b)) \cup {Encode, Hand("zll")}
    BY <1>1, <1>4, <1>17 DEF Left, Are
  <2>2. \A x : HandAgain(x) \notin Left(s)'
    BY <1>10, ItemsApart
  <2>3. Encode \in Left(s)'
    BY <2>1
  <2>4. /\ ToData("byCmd", SET_BRIGHTNESS) \in Left(s)' /\ ToData("brightness", b) \in Left(s)'
        /\ \A f, w : ToData(f, w) \in Left(s)' => <<f, w>> \in FieldsBrightness(b)
    <3>1. Writes(FieldsBrightness(b)) = {ToData("byCmd", SET_BRIGHTNESS), ToData("brightness", b)}
      BY DEF Writes, FieldsBrightness
    <3>2. ASSUME NEW f, NEW w, ToData(f, w) \in Left(s)' PROVE <<f, w>> \in FieldsBrightness(b)
      <4>1. ToData(f, w) = ToData("byCmd", SET_BRIGHTNESS) \/ ToData(f, w) = ToData("brightness", b)
        BY <2>1, <3>1, <3>2, ItemsApart
      <4> QED
        BY <4>1, ItemsApart DEF FieldsBrightness
    <3> QED
      BY <2>1, <3>1, <3>2
  <2>5. /\ \A w : ToData("byCmd", w) \in Left(s)' => w = SET_BRIGHTNESS
        /\ \A w : ToData("brightness", w) \in Left(s)' => w = b
    BY <2>4 DEF FieldsBrightness
  <2>6. WillHold(s, "byCmd", SET_BRIGHTNESS)' /\ WillHold(s, "brightness", last.brightness)'
    BY <1>5, <1>14, <2>4, <2>5 DEF WillHold, SET_BRIGHTNESS
  <2>7. Second(s)'
    BY <1>5, <1>14, <2>2, <2>3, <2>6 DEF Second
  <2> QED
    BY <1>12, <1>13, <1>14, <1>15, <2>7 DEF Course
<1> QED
  BY <1>16, <1>17

LEMMA StoresApart ==
  ASSUME NEW call
  PROVE  /\ \A ch, w : [kind |-> "buffer", channel |-> ch, val |-> w] \in AllStores(call) =>
              \E i \in 1..Len(StartAddresses), p \in Lamp(call) :
                ch = StartAddresses[i] + p[1] /\ w = Byte(p[2])
         /\ \A f, w : ToData(f, w) \in AllStores(call) =>
              \E p \in Fields(call) \cup Fade(call) : f = p[1] /\ w = p[2]
         /\ \A b : HandAgain(b) \in AllStores(call) => HandAgain(b) \in Orders(call)
<1>1. ASSUME NEW d \in AllStores(call), d.kind = "buffer" PROVE d \in Turns(Lamp(call))
  BY <1>1 DEF AllStores, Writes, Orders, ToData, Encode, Hand, HandAgain
<1>2. ASSUME NEW d \in AllStores(call), d.kind = "data"
      PROVE  d \in Writes(Fields(call)) \cup Writes(Fade(call))
  BY <1>2 DEF AllStores, Turns, Orders, ToBuffer, Encode, Hand, HandAgain
<1>3. ASSUME NEW d \in AllStores(call), d.kind = "again" PROVE d \in Orders(call)
  BY <1>3 DEF AllStores, Turns, Writes, ToBuffer, ToData
<1>4. ASSUME NEW ch, NEW w, [kind |-> "buffer", channel |-> ch, val |-> w] \in AllStores(call)
      PROVE  \E i \in 1..Len(StartAddresses), p \in Lamp(call) :
               ch = StartAddresses[i] + p[1] /\ w = Byte(p[2])
  <2>1. [kind |-> "buffer", channel |-> ch, val |-> w] \in Turns(Lamp(call))
    BY <1>1, <1>4
  <2>2. PICK i \in 1..Len(StartAddresses), p \in Lamp(call) :
          [kind |-> "buffer", channel |-> ch, val |-> w] = ToBuffer(StartAddresses[i] + p[1], p[2])
    BY <2>1 DEF Turns
  <2>3. ch = StartAddresses[i] + p[1] /\ w = Byte(p[2])
    BY <2>2 DEF ToBuffer
  <2> QED
    BY <2>3
<1>5. ASSUME NEW f, NEW w, ToData(f, w) \in AllStores(call)
      PROVE  \E p \in Fields(call) \cup Fade(call) : f = p[1] /\ w = p[2]
  <2>1. ToData(f, w) \in Writes(Fields(call)) \cup Writes(Fade(call))
    BY <1>2, <1>5, ItemsApart
  <2>2. PICK p \in Fields(call) \cup Fade(call) : ToData(f, w) = ToData(p[1], p[2])
    BY <2>1 DEF Writes
  <2> QED
    BY <2>2, ItemsApart
<1>6. \A b : HandAgain(b) \in AllStores(call) => HandAgain(b) \in Orders(call)
  BY <1>3, ItemsApart
<1> QED
  BY <1>4, <1>5, <1>6

(* A whole lamp's channel belongs to one turn.                             *)
LEMMA LampAlone ==
  ASSUME StartAddresses \in Seq(Int), NEW call \in CallKinds,
         NEW i \in Lamps, NEW p \in Lamp(call),
         NEW j \in 1..Len(StartAddresses), NEW r \in Lamp(call),
         StartAddresses[i] + p[1] = StartAddresses[j] + r[1]
  PROVE  p[2] = r[2]
<1>1. p[1] \in 0..3 /\ r[1] \in 0..3
  BY LampOnce
<1>2. i \in 1..Len(StartAddresses) /\ Whole(i)
  BY DEF Lamps
<1>3. StartAddresses[i] \in Int /\ StartAddresses[j] \in Int
  BY <1>2, ElementOfSeq
<1>4. StartAddresses[i] + p[1] \in Channels(i) /\ StartAddresses[j] + r[1] \in Channels(j)
  <2>1. \A a \in Int, o \in 0..3 : a + o \in a..(a + 3)
    OBVIOUS
  <2> QED
    BY <1>1, <1>3, <2>1 DEF Channels
<1>5. i = j
  BY <1>2, <1>4 DEF Whole
<1>6. p[1] = r[1]
  BY <1>1, <1>3, <1>5
<1> QED
  BY <1>6, LampOnce

LEMMA QBegin ==
  ASSUME TInv, NEW s \in Senders, NEW call \in Calls[s], Begin(s, call), quiet'
  PROVE  QInv'
<1>1. /\ todo' = [todo EXCEPT ![s] = Stores(call)] /\ last' = call
      /\ \A u \in Senders : Idle(u)
      /\ UNCHANGED <<StartAddresses, dmxVars, zllVars, given, raced, fault>>
  BY DEF Begin
<1>2. StartAddresses \in Seq(Int) /\ call \in CallKinds
  BY ClientsAssumption DEF TInv, TypeInv
<1>3. Are(Stores(call), AllStores(call)) /\ Ordered(Stores(call))
  BY <1>2, StoresAre
<1>4. todo'[s] = Stores(call) /\ Left(s)' = AllStores(call)
  BY <1>1, <1>3 DEF TInv, Left, Are
<1>5. \A u \in Senders \ {s} : Idle(u)'
  BY <1>1 DEF Idle, TInv
<1>6. LampsShow(s)'
  <2>1. SUFFICES ASSUME NEW i \in Lamps', NEW p \in Lamp(call)
                 PROVE  WillShow(s, StartAddresses[i] + p[1], p[2])'
    BY <1>1 DEF LampsShow
  <2>2. i \in Lamps /\ StartAddresses' = StartAddresses
    BY <1>1 DEF Lamps, Whole, Channels
  <2> DEFINE ch == StartAddresses[i] + p[1]
  <2>3. ToBuffer(ch, p[2]) \in Left(s)'
    BY <1>4, <2>2 DEF AllStores, Turns, Lamps
  <2>4. ASSUME NEW w, [kind |-> "buffer", channel |-> ch, val |-> w] \in Left(s)'
        PROVE  w = Byte(p[2])
    <3>1. PICK j \in 1..Len(StartAddresses), r \in Lamp(call) :
            ch = StartAddresses[j] + r[1] /\ w = Byte(r[2])
      BY <1>4, <2>4, StoresApart
    <3>2. p[2] = r[2]
      BY <1>2, <2>2, <3>1, LampAlone
    <3> QED
      BY <3>1, <3>2
  <2>5. WillShow(s, ch, p[2])'
    BY <2>2, <2>3, <2>4 DEF WillShow
  <2> QED
    BY <2>2, <2>5
<1>7. FramesGo(s)'
  <2>1. call.op = "scene" => Hand("dmx") \in AllStores(call) /\ Hand("zll") \in AllStores(call)
    BY DEF AllStores, Orders
  <2> QED
    BY <1>1, <1>4, <2>1 DEF FramesGo, WillGive
<1>8. First(s)'
  <2>1. ASSUME NEW p \in Fields(call) PROVE WillHold(s, p[1], p[2])'
    <3>1. ToData(p[1], p[2]) \in Left(s)'
      BY <1>4 DEF AllStores, Writes
    <3>2. ASSUME NEW w, ToData(p[1], w) \in Left(s)' PROVE w = p[2]
      <4>1. PICK r \in Fields(call) \cup Fade(call) : p[1] = r[1] /\ w = r[2]
        BY <1>4, <3>2, StoresApart
      <4>2. r \in Fade(call) => r[1] = "fadetime"
        BY DEF Fade, FieldsFade
      <4>3. r \in Fields(call)
        BY <1>2, <4>1, <4>2, FieldsOnce
      <4> QED
        BY <1>2, <4>1, <4>3, FieldsOnce
    <3> QED
      BY <3>1, <3>2 DEF WillHold
  <2>2. Repeated' <=> call.op = "scene" /\ call.pmode \in {"XY", "CCT"}
    BY <1>1 DEF Repeated
  <2>3. ASSUME NEW b, HandAgain(b) \in Left(s)' PROVE Repeated' /\ b = call.brightness
    <3>1. HandAgain(b) \in Orders(call)
      BY <1>4, <2>3, StoresApart
    <3>2. HandAgain(b) \notin {Encode, Hand("dmx"), Hand("zll")}
      BY ItemsApart
    <3>3. /\ call.op = "scene" /\ call.pmode \in {"XY", "CCT"}
          /\ HandAgain(b) = HandAgain(call.brightness)
      BY <3>1, <3>2 DEF Orders
    <3> QED
      BY <2>2, <3>3, ItemsApart
  <2>4. ASSUME Repeated'
        PROVE  /\ HandAgain(call.brightness) \in Left(s)' /\ Encode \in Left(s)'
               /\ \A w : ToData("brightness", w) \notin Left(s)'
    <3>1. HandAgain(call.brightness) \in Left(s)' /\ Encode \in Left(s)'
      BY <1>4, <2>2, <2>4 DEF AllStores, Orders
    <3>2. ASSUME NEW w, ToData("brightness", w) \in Left(s)' PROVE FALSE
      <4>1. PICK r \in Fields(call) \cup Fade(call) : "brightness" = r[1] /\ w = r[2]
        BY <1>4, <3>2, StoresApart
      <4>2. r \in Fade(call) => r[1] = "fadetime"
        BY DEF Fade, FieldsFade
      <4> QED
        BY <1>2, <2>2, <2>4, <4>1, <4>2, FieldsOnce
    <3> QED
      BY <3>1, <3>2
  <2> QED
    BY <1>1, <2>1, <2>3, <2>4 DEF First
<1>9. Course(s)'
  BY <1>1, <1>2, <1>3, <1>4, <1>6, <1>7, <1>8 DEF Course
<1> QED
  BY <1>5, <1>9 DEF QInv

LEMMA QNext == ASSUME TInv, QInv, [Next]_vars PROVE QInv'
<1>1. CASE UNCHANGED vars
  BY <1>1, ZenonT(30) DEF QInv, Course, LampsShow, FramesGo, First, Unchanged, Second, WillShow, WillHold,
              WillGive, Left, Repeated, TellsBoth, Lamps, Whole, Channels, Idle,
              vars, dmxVars, zllVars, histVars
<1>2. ASSUME NEW s \in Senders, NEW call \in Calls[s], Begin(s, call) PROVE QInv'
  <2>1. CASE quiet'
    BY <1>2, <2>1, QBegin
  <2>2. CASE ~quiet'
    BY <2>2 DEF QInv
  <2> QED
    BY <2>1, <2>2
<1>3. ASSUME NEW s \in Senders, Step(s) PROVE QInv'
  <2>1. /\ quiet' = quiet /\ ~Idle(s)
        /\ \A u \in Senders \ {s} : todo'[u] = todo[u]
    BY <1>3 DEF Step, SkipLamp, StoreBuffer, StorePacket, StoreData, EncodeFrame, HandFrame,
                HandNewBrightness, Next1, Done, TInv, histVars
  <2>2. CASE quiet
    <3>1. PICK r \in Senders : (\A u \in Senders \ {r} : Idle(u)) /\ Course(r)
      BY <2>2 DEF QInv
    <3>2. r = s
      BY <2>1, <3>1
    <3>3. \A u \in Senders \ {s} : Idle(u)'
      BY <2>1, <3>1, <3>2 DEF Idle
    <3>4. Course(s)'
      BY <1>3, <3>1, <3>2, QSkipLamp, QStoreBuffer, QStorePacket, QStoreData, QEncodeFrame,
         QHandFrame, QHandNewBrightness DEF Step
    <3> QED
      BY <3>3, <3>4 DEF QInv
  <2>3. CASE ~quiet
    BY <2>1, <2>3 DEF QInv
  <2> QED
    BY <2>2, <2>3
<1> QED
  BY <1>1, <1>2, <1>3 DEF Next

LEMMA QAlways == Spec => []QInv
<1>1. Init => QInv
  BY DEF Init, QInv
<1>2. TInv /\ QInv /\ [Next]_vars => QInv'
  BY QNext
<1> QED
  BY <1>1, <1>2, TAlways, PTL DEF Spec

LEMMA ByteTwice == ASSUME NEW v \in Int PROVE Byte(Byte(v)) = Byte(v)
BY DEF Byte

(* When the call is over, everything it was to do is so.                   *)
LEMMA AtRest ==
  ASSUME TInv, QInv, Rest, quiet
  PROVE  /\ last \in CallKinds
         /\ last.op = "scene" => given = {"dmx", "zll"}
         /\ TellsBoth => \A i \in Lamps, p \in Lamp(last) : Shows(i, p[1], p[2])
         /\ Repeated => byArrBuffer[5] = Byte(last.brightness)
         /\ \/ TellsBoth => \A p \in Fields(last) : data[p[1]] = p[2]
            \/ Repeated /\ data.byCmd = SET_BRIGHTNESS /\ data.brightness = last.brightness
<1>1. PICK s \in Senders : Course(s)
  BY DEF QInv
<1>2. Left(s) = {}
  BY AreNone DEF Rest, Idle, Left, Are
<1>3. last.op = "scene" => given = {"dmx", "zll"}
  BY <1>1, <1>2 DEF Course, FramesGo, WillGive, TInv, TypeInv
<1>4. TellsBoth => \A i \in Lamps, p \in Lamp(last) : Shows(i, p[1], p[2])
  BY <1>1, <1>2 DEF Course, LampsShow, WillShow, Shows
<1>5. CASE First(s)
  <2>1. ~Repeated
    BY <1>2, <1>5 DEF First
  <2>2. TellsBoth => \A p \in Fields(last) : data[p[1]] = p[2]
    BY <1>2, <1>5 DEF First, WillHold
  <2> QED
    BY <1>1, <1>3, <1>4, <2>1, <2>2 DEF Course
<1>6. CASE Unchanged(s)
  BY <1>1, <1>3, <1>4, <1>6 DEF Unchanged, Course
<1>7. CASE Second(s)
  <2>1. data["byCmd"] = SET_BRIGHTNESS /\ data["brightness"] = last.brightness
    BY <1>2, <1>7 DEF Second, WillHold
  <2>2. Repeated /\ byArrBuffer[5] = Byte(last.brightness)
    BY <1>2, <1>7 DEF Second
  <2> QED
    BY <1>1, <1>3, <1>4, <2>1, <2>2 DEF Course
<1> QED
  BY <1>1, <1>5, <1>6, <1>7 DEF Course

Agreed ==
  \A i \in Lamps :
    /\ data.byCmd = SET_BRIGHTNESS => Shows(i, 1, data.brightness)
    /\ data.byCmd = SET_CCT => Shows(i, 0, CCT_MODE) /\ Shows(i, 2, DmxCct(data.cct))
    /\ data.byCmd = SET_RGB => /\ Shows(i, 0, RGB_MODE) /\ Shows(i, 1, data.byR)
                               /\ Shows(i, 2, data.byG) /\ Shows(i, 3, data.byB)
    /\ data.byCmd = SET_XY => /\ Shows(i, 0, XY_MODE) /\ Shows(i, 2, DmxX(data.ciex))
                              /\ Shows(i, 3, DmxY(data.ciey))

LEMMA Agreeing == ASSUME TInv, QInv, Rest, quiet, TellsBoth PROVE Agreed
<1>1. /\ last \in CallKinds
      /\ \A i \in Lamps, p \in Lamp(last) : Shows(i, p[1], p[2])
  BY AtRest
<1>2. CASE \A p \in Fields(last) : data[p[1]] = p[2]
  <2>1. CASE Colour(last, "rgb", "RGB")
    <3>1. Lamp(last) = LampRgb(last.rgb) /\ Fields(last) = FieldsRgb(last.rgb)
      BY <2>1 DEF Lamp, Fields, Colour
    <3>2. \A i \in Lamps : /\ Shows(i, 0, RGB_MODE) /\ Shows(i, 1, last.rgb[1])
                           /\ Shows(i, 2, last.rgb[2]) /\ Shows(i, 3, last.rgb[3])
      BY <1>1, <3>1 DEF LampRgb
    <3>3. /\ data["byCmd"] = SET_RGB /\ data["byR"] = Byte(last.rgb[1])
          /\ data["byG"] = Byte(last.rgb[2]) /\ data["byB"] = Byte(last.rgb[3])
      BY <1>2, <3>1 DEF FieldsRgb
    <3>4. last.rgb \in [1..3 -> Nat]
      BY <1>1, <2>1 DEF CallKinds, Colour
    <3>5. /\ Byte(data.byR) = Byte(last.rgb[1]) /\ Byte(data.byG) = Byte(last.rgb[2])
          /\ Byte(data.byB) = Byte(last.rgb[3])
      <4>1. last.rgb[1] \in Int /\ last.rgb[2] \in Int /\ last.rgb[3] \in Int
        BY <3>4
      <4> QED
        BY <3>3, <4>1, ByteTwice
    <3> QED
      BY <3>2, <3>3, <3>5 DEF Agreed, Shows, SET_BRIGHTNESS, SET_XY, SET_CCT, SET_RGB
  <2>2. CASE Colour(last, "cct", "CCT")
    <3>1. LampCct(last.cct) \subseteq Lamp(last) /\ Fields(last) = FieldsCct(last.cct)
      BY <2>2 DEF Lamp, Fields, Colour
    <3>2. \A i \in Lamps : Shows(i, 0, CCT_MODE) /\ Shows(i, 2, DmxCct(last.cct))
      BY <1>1, <3>1 DEF LampCct
    <3>3. data["byCmd"] = SET_CCT /\ data["cct"] = last.cct
      BY <1>2, <3>1 DEF FieldsCct
    <3> QED
      BY <3>2, <3>3 DEF Agreed, SET_BRIGHTNESS, SET_XY, SET_CCT, SET_RGB
  <2>3. CASE Colour(last, "xy", "XY")
    <3>1. LampXy(last.xy) \subseteq Lamp(last) /\ Fields(last) = FieldsXy(last.xy)
      BY <2>3 DEF Lamp, Fields, Colour
    <3>2. \A i \in Lamps : /\ Shows(i, 0, XY_MODE) /\ Shows(i, 2, DmxX(last.xy[1]))
                           /\ Shows(i, 3, DmxY(last.xy[2]))
      BY <1>1, <3>1 DEF LampXy
    <3>3. data["byCmd"] = SET_XY /\ data["ciex"] = last.xy[1] /\ data["ciey"] = last.xy[2]
      BY <1>2, <3>1 DEF FieldsXy
    <3> QED
      BY <3>2, <3>3 DEF Agreed, SET_BRIGHTNESS, SET_XY, SET_CCT, SET_RGB
  <2>4. CASE last.op = "brightness"
    <3>1. /\ Lamp(last) = LampBrightness(last.brightness)
          /\ Fields(last) = FieldsBrightness(last.brightness)
      BY <2>4 DEF Lamp, Fields, Colour
    <3>2. \A i \in Lamps : Shows(i, 1, last.brightness)
      BY <1>1, <3>1 DEF LampBrightness
    <3>3. data["byCmd"] = SET_BRIGHTNESS /\ data["brightness"] = last.brightness
      BY <1>2, <3>1 DEF FieldsBrightness
    <3> QED
      BY <3>2, <3>3 DEF Agreed, SET_BRIGHTNESS, SET_XY, SET_CCT, SET_RGB
  <2> QED
    BY <2>1, <2>2, <2>3, <2>4 DEF TellsBoth, Colour
<1>3. CASE Repeated /\ data.byCmd = SET_BRIGHTNESS /\ data.brightness = last.brightness
  <2>1. <<1, last.brightness>> \in Lamp(last)
    BY <1>3 DEF Repeated, Lamp, Colour, LampBrightness
  <2>2. \A i \in Lamps : Shows(i, 1, last.brightness)
    BY <1>1, <2>1
  <2> QED
    BY <1>3, <2>2 DEF Agreed, SET_BRIGHTNESS, SET_XY, SET_CCT, SET_RGB
<1> QED
  BY <1>2, <1>3, AtRest

(* Both clients end a call that met no other in agreement, for every call, *)
(* every value and wherever the lamps' addresses lie (the setters of       *)
(* DMXClient and ZLLClient, updateData).                                   *)
THEOREM Agreement == Spec => []ClientsAgree
<1>1. TInv /\ QInv => ClientsAgree
  BY Agreeing DEF ClientsAgree, Agreed
<1> QED
  BY <1>1, TAlways, QAlways, PTL

(* A scene that met no other call ends with its brightness in the frame    *)
(* and on every lamp, although the frame is first made without it (the     *)
(* two updateData).                                                        *)
THEOREM SceneShown == Spec => []SceneBrightness
<1>1. ASSUME TInv, QInv PROVE SceneBrightness
  <2>1. SUFFICES ASSUME Rest, quiet, last.op = "scene"
                 PROVE  /\ given = {"dmx", "zll"}
                        /\ last.pmode \in {"CCT", "XY"} =>
                             /\ byArrBuffer[5] = Byte(last.brightness)
                             /\ \A i \in Lamps : Shows(i, 1, last.brightness)
    BY DEF SceneBrightness
  <2>2. given = {"dmx", "zll"}
    BY <1>1, <2>1, AtRest
  <2>3. ASSUME last.pmode \in {"CCT", "XY"}
        PROVE  /\ byArrBuffer[5] = Byte(last.brightness)
               /\ \A i \in Lamps : Shows(i, 1, last.brightness)
    <3>1. Repeated /\ TellsBoth
      BY <2>1, <2>3 DEF Repeated, TellsBoth
    <3>2. <<1, last.brightness>> \in Lamp(last)
      BY <2>1, <2>3 DEF Lamp, Colour, LampBrightness
    <3>3. /\ byArrBuffer[5] = Byte(last.brightness)
          /\ \A i \in Lamps, p \in Lamp(last) : Shows(i, p[1], p[2])
      BY <1>1, <2>1, <3>1, AtRest
    <3> QED
      BY <3>2, <3>3
  <2> QED
    BY <2>2, <2>3
<1> QED
  BY <1>1, TAlways, QAlways, PTL
=============================================================================

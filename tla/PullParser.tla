------------------------------ MODULE PullParser ------------------------------
(***************************************************************************)
(* IXMLPullParser: from the characters of a settings file to the tokens of *)
(* an XML document, one nextToken() at a time.                             *)
(*                                                                         *)
(* A text is a sequence of one-character strings.  The parser's state is a *)
(* record: the text that is left of the file (text), whether a read has    *)
(* returned nothing (fin), the place it has come to (at), and the token it *)
(* returned last: its kind (tok), name or text (content), attributes       *)
(* (attrs), whether the element is closed by its own tag (empty) and       *)
(* whether a text is white space only (white).                             *)
(*                                                                         *)
(* Left out: multi-byte characters, the character with code 0, HTML, line  *)
(* numbers, the look ahead behind a "&" (it matters for a reference in the *)
(* last characters of a file only).  Names of elements, attributes and     *)
(* entities are in lower case (the code compares them without case).       *)
(***************************************************************************)
EXTENDS Integers, Sequences, SequencesExt, FiniteSets, TLC

Chars(s) == [i \in 1..Len(s) |-> SubSeq(s, i, i)]

NUL == "nul"

(* The classes of XML_Character_Classes.                                   *)
Spaces == {" ", "\t", "\n", "\r"}
NotSpace(c) == c \notin Spaces

Signs == ToSet(Chars("!\"#$%&'()*+,/;<=>?@[\\]^{|}~"))
NoNameChars == Spaces \cup Signs \cup {NUL}
NameChar(c) == c \notin NoNameChars

(* A name must be followed by one of these.                                *)
EndsName(c) == c \in Spaces \/ c \in {"/", "=", ">", "?"}

Entities ==
  {[s |-> Chars("amp;"),  c |-> "&"],  [s |-> Chars("lt;"),   c |-> "<"],
   [s |-> Chars("gt;"),   c |-> ">"],  [s |-> Chars("quot;"), c |-> "\""],
   [s |-> Chars("apos;"), c |-> "'"],  [s |-> Chars("nbsp;"), c |-> " "]}

DOCTYPE == [open |-> <<"!", "D", "O", "C", "T", "Y", "P", "E">>, close |-> <<"]", ">">>]

ClearTags ==
  {DOCTYPE,
   [open |-> <<"!", "[", "C", "D", "A", "T", "A", "[">>, close |-> <<"]", "]", ">">>],
   [open |-> <<"!", "-", "-">>, close |-> <<"-", "-", ">">>],
   [open |-> <<"P", "R", "E", ">">>, close |-> <<"<", "/", "P", "R", "E", ">">>]}

maxIXMLClearTagsOpenTagLen == 8

-----------------------------------------------------------------------------
(* Reading.                                                                *)

New(text) ==
  [text |-> text, fin |-> FALSE, at |-> 1, tok |-> "StartDocument",
   content |-> <<>>, attrs |-> <<>>, empty |-> FALSE, white |-> FALSE]

Here(p) == IF p.at \in 1..Len(p.text) THEN p.text[p.at] ELSE NUL

Shorter(a, b) == IF a < b THEN a ELSE b

(* The first read at the end of the file finds nothing; every later one    *)
(* ends the text at the parser's place, over the character that is there.  *)
readData(p) ==
  IF p.fin THEN [p EXCEPT !.text = SubSeq(@, 1, Shorter(p.at - 1, Len(@)))]
  ELSE [p EXCEPT !.fin = TRUE]

peek(p, k) == IF p.at + k > Len(p.text) THEN readData(p) ELSE p

getNextChar(p) == peek([p EXCEPT !.at = @ + 1], 1)

(* getNextChar until a character that is in chars (wanted = TRUE) or is    *)
(* not (FALSE), or the end.                                                *)
Stops(p, q, chars, wanted) == q > Len(p.text) \/ (p.text[q] \in chars) = wanted

Seek(p, chars, wanted) ==
  LET n == Len(p.text)
      q == CHOOSE q \in p.at..(n + 1) :
             /\ Stops(p, q, chars, wanted)
             /\ \A k \in p.at..(q - 1) : ~Stops(p, k, chars, wanted)
  IN  IF Stops(p, p.at, chars, wanted) THEN p
      ELSE IF q < n THEN [p EXCEPT !.at = q]
      ELSE IF p.fin /\ p.at < n THEN [p EXCEPT !.text = Front(@), !.at = n]
      ELSE [p EXCEPT !.at = q, !.fin = TRUE]

SeekTo(p, chars) == Seek(p, chars, TRUE)
skipSpaceChars(p) == Seek(p, Spaces, FALSE)

(* A string ends where the text does.                                      *)
Between(p, q) == SubSeq(q.text, p.at, Shorter(q.at - 1, Len(q.text)))

StartsWith(p, s) ==
  p.at + Len(s) - 1 <= Len(p.text) /\ SubSeq(p.text, p.at, p.at + Len(s) - 1) = s

skipName(p) == SeekTo(getNextChar(p), NoNameChars)

Returned(p, tok) == [p EXCEPT !.tok = tok]
Error(p) == Returned(p, "Error")

-----------------------------------------------------------------------------
(* processText: the characters up to delim, with entities and line ends    *)
(* replaced.                                                               *)

EntityAt(raw, i) ==
  {e \in Entities : i + Len(e.s) <= Len(raw) /\ SubSeq(raw, i + 1, i + Len(e.s)) = e.s}

(* Codes of characters; those that are not printed get a name of their own.*)
Printed == Chars(" !\"#$%&'()*+,-./0123456789:;<=>?@ABCDEFGHIJKLMNOPQRSTUVWXYZ[\\]^_"
                 \o "?abcdefghijklmnopqrstuvwxyz{|}~")
Character(n) ==
  CASE n = 9 -> "\t"
    [] n = 10 -> "\n"
    [] n = 13 -> "\r"
    [] n - 31 \in DOMAIN Printed -> Printed[n - 31]
    [] OTHER -> "code" \o ToString(n)

DigitValue(c) == SelectInSeq(Chars("0123456789abcdef"), LAMBDA g : g = c) - 1

(* A reference by number, decimal or hexadecimal, up to 255.               *)
NumberAt(raw, i) ==
  LET end == SelectInSubSeq(raw, i + 1, Len(raw), LAMBDA c : c = ";")
      hex == i + 2 < end /\ raw[i + 2] \in {"x", "X"}
      base == IF hex THEN 16 ELSE 10
      digits == SubSeq(raw, i + (IF hex THEN 3 ELSE 2), end - 1)
      n == FoldLeft(LAMBDA m, c : base * m + DigitValue(c), 0, digits)
  IN  IF /\ i + 1 < end /\ raw[i + 1] = "#"
         /\ \A k \in DOMAIN digits : DigitValue(digits[k]) \in 0..(base - 1)
         /\ n \in 1..255
        THEN {[s |-> SubSeq(raw, i + 1, end), c |-> Character(n)]}
      ELSE {}

Reference(raw, i) == EntityAt(raw, i) \cup NumberAt(raw, i)

KnownEntities(raw) == \A i \in 1..Len(raw) : raw[i] = "&" => Reference(raw, i) # {}

LineEnd(c) == c \in {"\n", "\r"}

(* Character i: it is written, stands for others, or is one of those that  *)
(* a reference or a line end takes.                                        *)
DecodeNext(raw, s, i) ==
  IF s.skip > 0 THEN [s EXCEPT !.skip = @ - 1]
  ELSE IF raw[i] = "&" THEN
    LET e == CHOOSE e \in Reference(raw, i) : TRUE
    IN  [out |-> Append(s.out, e.c), skip |-> Len(e.s)]
  ELSE IF LineEnd(raw[i]) THEN
    [out |-> Append(s.out, "\n"),
     skip |-> IF i < Len(raw) /\ LineEnd(raw[i + 1]) /\ raw[i + 1] # raw[i] THEN 1 ELSE 0]
  ELSE [s EXCEPT !.out = Append(@, raw[i])]

Decoded(raw) ==
  LET after[i \in 0..Len(raw)] ==
        IF i = 0 THEN [out |-> <<>>, skip |-> 0] ELSE DecodeNext(raw, after[i - 1], i)
  IN  after[Len(raw)].out

processText(p, delim) ==
  LET q == SeekTo(peek(p, 1), {delim})
      raw == Between(p, q)
  IN  [p |-> q,
       ok |-> KnownEntities(raw),
       out |-> IF KnownEntities(raw) THEN Decoded(raw) ELSE <<>>,
       white |-> ToSet(raw) \subseteq Spaces]

-----------------------------------------------------------------------------
(* parseNameAndAttributes.                                                 *)

(* The name ends at n, the equal sign is at e, the quote at q.             *)
WithValue(a, n, e, q, v) ==
  IF EndsName(Here(n)) /\ Here(e) = "=" /\ Here(q) \in {"\"", "'"} /\ v.ok
    THEN [p |-> skipSpaceChars(getNextChar(v.p)),
          attrs |-> Append(a.attrs, [name |-> Between(a.p, n), value |-> v.out]),
          ok |-> TRUE]
  ELSE [a EXCEPT !.ok = FALSE]

oneAttribute(a) ==
  LET n == skipName(a.p)
      e == skipSpaceChars(n)
      q == getNextChar(e)
  IN  WithValue(a, n, e, q, processText(getNextChar(q), Here(q)))

nextAttribute(a) == IF a.ok /\ NameChar(Here(a.p)) THEN oneAttribute(a) ELSE a

(* At most n more attributes.                                              *)
attributeList(a, n) ==
  LET after[k \in 0..n] == IF k = 0 THEN a ELSE nextAttribute(after[k - 1])
  IN  after[n]

(* Every attribute takes an equal sign.                                    *)
parseNameAndAttributes(p) ==
  LET n == skipName(p)
      name == [p |-> skipSpaceChars([n EXCEPT !.content = Between(p, n)]),
               attrs |-> <<>>, ok |-> EndsName(Here(n))]
  IN  attributeList(name, Cardinality({i \in p.at..Len(p.text) : p.text[i] = "="}) + 1)

-----------------------------------------------------------------------------
(* The tokens.                                                             *)

EndTag(p) ==
  LET n == skipName(p)
      e == skipSpaceChars(n)
  IN  IF EndsName(Here(n)) /\ Here(e) = ">"
        THEN [getNextChar(e) EXCEPT !.tok = "EndTag", !.content = Between(p, n)]
      ELSE Error(e)

InstructionToken(a) ==
  LET e == getNextChar(a.p)
  IN  IF a.ok /\ Here(a.p) = "?" /\ Here(e) = ">"
        THEN [getNextChar(e) EXCEPT !.tok = "ProcessingInstruction", !.attrs = a.attrs]
      ELSE Error(e)

ProcessingInstruction(p) == InstructionToken(parseNameAndAttributes(p))

StartToken(a) ==
  LET alone == Here(a.p) = "/"
      e == IF alone THEN getNextChar(a.p) ELSE a.p
  IN  IF a.ok /\ Here(e) = ">"
        THEN [getNextChar(e) EXCEPT !.tok = "StartTag", !.attrs = a.attrs, !.empty = alone]
      ELSE Error(e)

StartTag(p) == StartToken(parseNameAndAttributes(p))

(* findClearTagEnd stops at the first character of the close tag unless    *)
(* the rest of the close tag stands at that very place: then it looks      *)
(* there for ever.                                                         *)
findClearTagEnd(p, close) ==
  LET e == SeekTo(peek(p, 1), {Head(close)})
      u == peek(e, Len(close) - 1)
  IN  IF Here(e) = NUL THEN e
      ELSE IF StartsWith(u, Tail(close)) THEN Returned(u, "Endless")
      ELSE u

DoctypeEnd(p, close) ==
  LET e == SeekTo(peek(p, 1), {"<", ">"})
  IN  IF Here(e) = "<" THEN findClearTagEnd(e, close) ELSE e

Clear(p, tag) ==
  LET s == [p EXCEPT !.at = @ + Len(tag.open), !.tok = "Clear"]
      e == IF tag = DOCTYPE THEN DoctypeEnd(s, tag.close)
           ELSE findClearTagEnd(s, tag.close)
  IN  [e EXCEPT !.content = Between(s, e), !.at = @ + Len(tag.close)]

TextToken(t) ==
  IF ~t.ok THEN Error(t.p)
  ELSE [t.p EXCEPT
          !.tok = IF Here(t.p) # NUL \/ t.out # <<>> THEN "Text" ELSE "EndDocument",
          !.content = t.out, !.attrs = <<>>, !.white = t.white]

(* A slip: a text ends where a tag does.                                   *)
TextToTagEnd(p) == TextToken(processText(p, ">"))

Text(p) == TextToken(processText(p, "<"))

Markup(p) ==
  LET u == peek(p, maxIXMLClearTagsOpenTagLen)
      tags == {c \in ClearTags : StartsWith(u, c.open)}
  IN  CASE Here(p) = "/" -> EndTag(getNextChar(p))
        [] Here(p) = "?" -> ProcessingInstruction(getNextChar(p))
        [] OTHER -> IF tags = {} THEN StartTag(u)
                    ELSE Clear(u, CHOOSE c \in tags : TRUE)

(* After a text the parser has the next character, otherwise it reads it.  *)
nextToken(p) ==
  LET r == IF p.tok = "Text" THEN p ELSE peek(p, 1)
  IN  CASE p.tok \in {"Error", "EndDocument", "Endless"} -> p
        [] p.empty -> [p EXCEPT !.empty = FALSE, !.tok = "EndTag"]
        [] p.tok = "StartDocument" /\ p.text = <<>> -> Error(p)
        [] OTHER -> CASE Here(r) = NUL -> Returned(r, "EndDocument")
                      [] Here(r) = "<" -> Markup(getNextChar(r))
                      [] OTHER -> Text(r)
=============================================================================

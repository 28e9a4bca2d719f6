------------------------------- MODULE Settings -------------------------------
(***************************************************************************)
(* The Settings singleton: it picks a settings file, parses it when it is  *)
(* first asked for, and answers every read from the tree of the file.      *)
(*                                                                         *)
(* Two builds are modelled.  On WIN32 the conversions of a text to a       *)
(* number throw when there is no number; on CYGWIN and RASPI (and in the   *)
(* template Read<T> on all of them) a number that cannot be read leaves    *)
(* the variable as it was: without a value when there is no text at all.   *)
(***************************************************************************)
EXTENDS XmlLookup

CONSTANTS
  Machines,  \* where the program starts: the platform, the file named after
             \* the computer (own) and the one for all (common); a file is
             \* Missing or [text, sections, scenes, known, commented, endless : ...]
  Missing,   \* no file
  Reads,     \* the reads: [kind, section, name : ...]
  DefaultText, DefaultNumber,
  Junk       \* what a variable without a value may hold

(* What is in a file is a sequence of characters.                          *)
ASSUME MachinesAssumption ==
  \A m \in Machines : \A f \in {m.own, m.common} \ {Missing} : f.text \in Seq(STRING)

VARIABLES
  platform,  \* "WIN32" or "CYGWIN"
  files,     \* the two files
  FileName,  \* which of them is used
  stage,     \* of the singleton: "none", "parsing", "ready"
  xMainNode, \* the node "settings", 0 if there is none
  xNode,     \* the node read last
  result,    \* what the last read returned
  crashed    \* a string was made of a null pointer

settingsVars ==
  <<platform, files, FileName, stage, xMainNode, xNode, result, crashed>>

-----------------------------------------------------------------------------
(* Reading the tree.                                                       *)

Signed(text) == text # <<>> /\ Head(text) = "-"
Unsigned(text) == IF Signed(text) THEN Tail(text) ELSE text

IsNumber(text) == Leading(Unsigned(text)) # <<>>

Number(text) ==
  IF Signed(text) THEN 0 - xmltoi(Tail(text)) ELSE xmltoi(text)

(* fromString<int>, the set of what it can return.                         *)
fromStringInt(text) ==
  IF IsNumber(text) THEN {Number(text)}
  ELSE IF text = <<>> THEN Junk
  ELSE {0}

(* fromString<string>: the first word.                                     *)
fromStringWord(text) ==
  LET k == SelectInSeq(text, LAMBDA c : c \in Spaces)
  IN  IF k = 0 THEN text ELSE SubSeq(text, 1, k - 1)

(* lumitech::stoi inside a try block that returns the default.             *)
stoiOrDefault(text) ==
  IF platform = "CYGWIN" THEN fromStringInt(text)
  ELSE IF IsNumber(text) THEN {Number(text)}
  ELSE {DefaultNumber}

Upper(text) ==
  LET lower == Chars("yestru")
      upper == Chars("YESTRU")
  IN  [k \in DOMAIN text |->
         LET i == SelectInSeq(lower, LAMBDA c : c = text[k])
         IN  IF i = 0 THEN text[k] ELSE upper[i]]

Truth(text) == IF Upper(text) \in {Chars("TRUE"), Chars("YES")} THEN 1 ELSE 0

(* A slip: the field behind the last delimiter is lost.                    *)
splitDropLast(text, delim) ==
  LET ends == {i \in DOMAIN text : text[i] = delim}
  IN  IF ends = {} THEN <<>>
      ELSE <<SubSeq(text, 1, (CHOOSE i \in ends : \A k \in ends : i <= k) - 1)>>

(* splitstring::split: empty fields are dropped.                           *)
split(text, delim) ==
  LET Char(s, c) ==
        IF c # delim THEN [s EXCEPT !.buf = Append(@, c)]
        ELSE IF s.buf = <<>> THEN s
        ELSE [flds |-> Append(s.flds, s.buf), buf |-> <<>>]
      all == FoldLeft(Char, [flds |-> <<>>, buf |-> <<>>], text)
  IN  IF all.buf = <<>> THEN all.flds ELSE Append(all.flds, all.buf)

-----------------------------------------------------------------------------
(* The answer to a read whose text is text, as the set of possible ones.   *)

Answer(r, text, number, fields) ==
  [kind |-> r.kind, section |-> r.section, name |-> r.name,
   text |-> text, number |-> number, fields |-> fields]

NoAnswer == Answer([kind |-> "none", section |-> <<>>, name |-> <<>>], <<>>, 0, <<>>)

Numbers(r, S) == {Answer(r, <<>>, n, <<>>) : n \in S}

Fields(text) ==
  IF split(text, ",") = <<>> /\ DefaultText # <<>> THEN <<DefaultText>>
  ELSE split(text, ",")

(* The narrow types get the number before the code looks at its range.     *)
Stored(kind, n) ==
  CASE kind = "ReadByte" -> n % 256
    [] kind = "ReadUShort" -> n % 65536
    [] kind = "ReadShort" -> ((n + 32768) % 65536) - 32768
    [] OTHER -> n

Answers(r, text) ==
  CASE r.kind \in {"ReadString", "ReadAttribute"} -> {Answer(r, text, 0, <<>>)}
    [] r.kind \in {"ReadInt", "ReadByte", "ReadShort", "ReadUShort"} ->
         Numbers(r, {Stored(r.kind, n) : n \in stoiOrDefault(text)})
    [] r.kind = "ReadBool" -> Numbers(r, {Truth(text)})
    [] r.kind = "ReadStringVector" -> {Answer(r, <<>>, 0, Fields(text))}
    [] r.kind = "Read<int>" -> Numbers(r, fromStringInt(text))
    [] r.kind = "Read<string>" -> {Answer(r, fromStringWord(text), 0, <<>>)}

(* The text ReadString is given for what is not in the file.               *)
Fallback(r) ==
  IF r.kind \in {"ReadString", "ReadAttribute", "ReadStringVector"} THEN DefaultText
  ELSE <<>>

Section(r) == getChildNode(xMainNode, r.section)

Asked(r) ==
  IF r.kind = "ReadAttribute" THEN Section(r) ELSE getChildNode(Section(r), r.name)

Attribute(r) ==
  getAttribute(Asked(r), IF r.kind = "ReadAttribute" THEN r.name ELSE Chars("value"))

-----------------------------------------------------------------------------
(* The constructor, called by the first getInstance().                     *)
Chosen == IF files.own # Missing THEN "own" ELSE "common"

getInstance ==
  /\ stage = "none"
  /\ FileName' = Chosen
  /\ IF files[Chosen] = Missing
       THEN stage' = "ready" /\ UNCHANGED domVars
     ELSE stage' = "parsing" /\ Parse(files[Chosen].text)
  /\ UNCHANGED <<platform, files, xMainNode, xNode, result, crashed>>

Parsing == stage = "parsing" /\ DomNext /\ UNCHANGED settingsVars

parseFile ==
  /\ stage = "parsing" /\ Parsed
  /\ xMainNode' = genericParse(Chars("settings"))
  /\ stage' = "ready"
  /\ UNCHANGED <<platform, files, FileName, xNode, result, crashed, domVars>>

(* Any of the Read functions.                                              *)
Read(r) ==
  /\ stage = "ready" /\ ~crashed
  /\ xNode' = IF xMainNode = 0 THEN xNode ELSE Asked(r)
  /\ IF xMainNode # 0 /\ Asked(r) # 0 /\ Attribute(r) = {}
       THEN crashed' = TRUE /\ UNCHANGED result
     ELSE /\ result' \in IF xMainNode = 0 \/ Asked(r) = 0 THEN Answers(r, Fallback(r))
                         ELSE UNION {Answers(r, v) : v \in Attribute(r)}
          /\ UNCHANGED crashed
  /\ UNCHANGED <<platform, files, FileName, stage, xMainNode, domVars>>

Init ==
  /\ DomInit
  /\ \E m \in Machines :
       platform = m.platform /\ files = [own |-> m.own, common |-> m.common]
  /\ FileName = "none" /\ stage = "none"
  /\ xMainNode = 0 /\ xNode = 0
  /\ result = NoAnswer
  /\ crashed = FALSE

Next == getInstance \/ Parsing \/ parseFile \/ \E r \in Reads : Read(r)

-----------------------------------------------------------------------------
(* Properties.                                                             *)

(* The parser builds the tree the tokens describe (genericParseRecur): the *)
(* shared arrays never mix up the elements of two levels, nor those of two *)
(* documents, and a level that ends early closes what it should.           *)
TreeBuilt == Abstract!Spec

(* What a file says: sections, in its order, with their attributes and     *)
(* entries; an entry's value is a set with at most one text.  Not known is *)
(* what a file says that is not well formed, or ends in its last tag, or   *)
(* has a hyphen in a comment.                                              *)
Document == files[FileName]

Said(r) ==
  LET items(s) == IF r.kind = "ReadAttribute" THEN s.attributes ELSE s.entries
      k == SelectInSeq(Document.sections, LAMBDA s : s.name = r.section)
      l == SelectInSeq(items(Document.sections[k]), LAMBDA e : e.name = r.name)
  IN  IF k = 0 \/ l = 0 THEN {} ELSE items(Document.sections[k])[l].value

NumberKinds == {"ReadInt", "ReadByte", "ReadShort", "ReadUShort", "Read<int>"}
TextKinds == {"ReadString", "ReadAttribute"}

Fits(kind, n) ==
  CASE kind = "ReadByte" -> n \in 0..255
    [] kind = "ReadUShort" -> n \in 0..65535
    [] kind = "ReadShort" -> n \in (-32768)..32767
    [] OTHER -> TRUE

Right(v) ==
  CASE result.kind \in TextKinds -> result.text = v
    [] result.kind \in NumberKinds ->
         IsNumber(v) /\ Fits(result.kind, Number(v)) => result.number = Number(v)
    [] result.kind = "ReadBool" -> result.number = 1 <=> v \in {Chars("yes"), Chars("true")}
    [] result.kind = "ReadStringVector" ->
         /\ \A k \in DOMAIN result.fields : result.fields[k] # <<>>
         /\ FlattenSeq(result.fields) = SelectSeq(v, LAMBDA c : c # ",")
    [] OTHER -> result.text = v \/ \E c \in Spaces : Contains(v, c)

RightDefault ==
  CASE result.kind \in TextKinds -> result.text = DefaultText
    [] result.kind \in NumberKinds \ {"Read<int>"} -> platform = "WIN32" => result.number = DefaultNumber
    [] result.kind = "ReadStringVector" -> result.fields = <<DefaultText>>
    [] OTHER -> TRUE

Faithful ==
  result # NoAnswer =>
    IF Said(result) = {} THEN RightDefault ELSE \A v \in Said(result) : Right(v)

(* A read returns what the file says, converted, and the default when the  *)
(* file has no such entry, and the parser never hangs before it can        *)
(* (Settings.cpp, IXMLParser).  Exempt are files where it is known to      *)
(* hang (a comment or CDATA section whose first "-" or "]" is followed by  *)
(* ">", see findClearTagEnd) and the reads where the code does otherwise:  *)
(* no number where one is expected (only WIN32 has the default then), a    *)
(* number that does not fit, ReadBool without an entry, and Read<string>   *)
(* of several words.                                                       *)
ReadsMatchText ==
  /\ pp.tok = "Endless" => Document.endless
  /\ IF FileName # "none" /\ Document # Missing THEN Document.known => Faithful
     ELSE result # NoAnswer => RightDefault

(* What is left to do: characters, the end of an element closed by its own *)
(* tag, and levels.                                                        *)
Left(p) == IF p.at > Len(p.text) THEN 0 ELSE Len(p.text) - p.at + 1
Work == 4 * Left(pp) + (IF pp.empty THEN 2 ELSE 0) + Len(stack)

LessToDo == pp'.tok = "Endless" \/ (Work \in Nat /\ Work' \in Nat /\ Work' < Work)

(* Reading ends, whatever the file holds, cut off or malformed: every step *)
(* of the parser (nextToken, genericParseRecur) leaves less to do.  Exempt *)
(* is the loop of findClearTagEnd that is never left.                      *)
ParseEnds == [][Parsing => LessToDo]_domVars

(* Release/settings.xml comments out IP-Address and IP-Port together: what *)
(* stands in a comment is not read.                                        *)
CommentsLeaveNoTrace ==
  FileName # "none" /\ Document # Missing /\ Document.commented => Faithful
=============================================================================

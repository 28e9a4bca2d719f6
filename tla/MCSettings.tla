------------------------------ MODULE MCSettings ------------------------------
(* Settings files made of pieces: what each says is known beforehand.      *)
EXTENDS XmlRewrite

Piece(s, entries) ==
  [text |-> Chars(s), entries |-> entries, wellFormed |-> TRUE, hyphen |-> FALSE,
   endless |-> FALSE, scenes |-> <<>>]

Entry(name, v) == <<[name |-> Chars(name), value |-> {Chars(v)}]>>
NoValue(name) == <<[name |-> Chars(name), value |-> {}]>>

Pieces ==
  {Piece("<e value=\"1\"/>", Entry("e", "1")),
   Piece("<e value='300' />", Entry("e", "300")),
   Piece("<e  value=\"x\"></e>", Entry("e", "x")),
   Piece("<e value='-40000' />", Entry("e", "-40000")),
   Piece("<e value=\"\" />", Entry("e", "")),
   Piece("<f n=\"\" value =\" a,,b&amp;'c<\"/>", Entry("f", "a,,b&'c<")),
   Piece("<f value=\"yes\"><e value=\"8\"/>i</f>", Entry("f", "yes")),
   Piece("<f/>", NoValue("f")),
   Piece("\n\t", <<>>),
   Piece("t&lt;&nbsp;u&#65;&#x42; ", <<>>),
   Piece("<k>a<m/>b<m><e/>c</m></k>", <<>>),
   Piece("<!-- <e value=\"2\"/> -->", <<>>),
   Piece("<![CDATA[ <e value=\"2\"/> ]]>", <<>>),
   [Piece("<!--<i-p value=\"4\" /><e value=\"3\"/>-->", <<>>) EXCEPT !.hyphen = TRUE],
   [Piece("<!--a->-->", <<>>) EXCEPT !.hyphen = TRUE, !.endless = TRUE],
   [Piece("<d>", <<>>) EXCEPT !.wellFormed = FALSE],
   [Piece("</k>", <<>>) EXCEPT !.wellFormed = FALSE],
   [Piece("&what;", <<>>) EXCEPT !.wellFormed = FALSE],
   [Piece("&#256;", <<>>) EXCEPT !.wellFormed = FALSE]}

Scene(s, pmode, value) ==
  [Piece("<PILEDScene nr=\"1\" " \o s \o "/>", <<>>)
     EXCEPT !.scenes = <<[pmode |-> pmode, value |-> value]>>]

ScenePieces ==
  {Scene("brightness=\"60\" fadetime='20' waittime='8'", "BRIGHTNESS", 60),
   Scene("brightness=\"-300\" waitkeypress='true'", "UNCLEAR", 0),
   Scene("brightness='70' cct=\"2700\" waitkeypress='no'", "CCT", 2700),
   Scene("cct=\"2000\"", "NONE", 0),
   Scene("cct='4000' xy=\"0.4, 0.35\"", "XY", <<400, 350>>),
   Scene("xy=\"0.4,x\" fadetime='1'", "UNCLEAR", 0),
   Scene("rgb=\"1,, 255,0\" xy='0.2,0.2'", "RGB", <<1, 255, 0>>),
   Scene("rgb=\"1,2\" brightness=''", "NONE", 0),
   Scene("waittime='5'", "NONE", 0)}

Doc(head, ps, tail) ==
  LET all == FlattenSeq([k \in DOMAIN ps |-> ps[k].text])
      some(P(_)) == \E k \in DOMAIN ps : P(ps[k])
  IN  [text |-> Chars(head) \o Chars("<settings><s name=\"q\">") \o all
                  \o Chars("</s></settings>") \o Chars(tail),
       sections |-> <<[name |-> Chars("s"),
                       attributes |-> Entry("name", "q"),
                       entries |-> FlattenSeq([k \in DOMAIN ps |-> ps[k].entries])]>>,
       scenes |-> FlattenSeq([k \in DOMAIN ps |-> ps[k].scenes]),
       known |-> ~some(LAMBDA p : ~p.wellFormed \/ p.hyphen) /\ tail # "",
       commented |-> ~some(LAMBDA p : ~p.wellFormed \/ p.endless) /\ tail # "",
       endless |-> some(LAMBDA p : p.endless)]

Pairs == {Doc("", <<p, q>>, "\n") : p, q \in Pieces}

Singles == {Doc("", ps, "\n") : ps \in SeqOf(Pieces, 1)}

SceneDocs == {Doc("", <<a, b>>, "\n") : a, b \in ScenePieces}

Others ==
  {Doc(head, <<p>>, tail) :
     head \in {"", "<?xml version=\"1.0\"?>\n", "<!DOCTYPE settings>\n"},
     p \in Pieces, tail \in {"\n", "", "<after/>\n"}}

(* Files cut off inside the tag behind the last.                           *)
Cuts ==
  {[Doc("", <<>>, cut) EXCEPT !.known = FALSE, !.commented = FALSE] :
     cut \in {"<", "</", "</g", "<g h", "<g h=", "<g h='", "<g h='i", "<g h='i'", "<g/",
              "<?", "<!-", "<!--", "<!--a-", "<!DOCTYPE", "<!DOCTYPE <", "i&", "i&l"}}

Empty == [Doc("", <<>>, "") EXCEPT !.text = <<>>]

Plain == CHOOSE d \in Singles : d.known /\ d.sections[1].entries # <<>>

On(p, own, common) == [platform |-> p, own |-> own, common |-> common]

(* What stands beside what is tried out on one platform, all the rest on   *)
(* both.                                                                   *)
MCMachines ==
  {On("WIN32", d, Missing) : d \in Pairs}
    \cup {On("CYGWIN", Missing, d) : d \in Others}
    \cup {On(p, d, Missing) : p \in {"WIN32", "CYGWIN"}, d \in Singles}
    \cup {On("CYGWIN", d, Missing) : d \in SceneDocs \cup Cuts}
    \cup {On("WIN32", Doc("", <<s>>, "\n"), Missing) : s \in ScenePieces}
    \cup {On(p, Missing, d) : p \in {"WIN32", "CYGWIN"}, d \in {Empty, Missing}}
    \cup {On("WIN32", Plain, Empty)}

ReadOf(kind, section, name) ==
  [kind |-> kind, section |-> Chars(section), name |-> Chars(name)]

MCReads ==
  {ReadOf(kind, "s", "e") : kind \in {"ReadString", "ReadInt", "ReadByte", "ReadShort", "ReadUShort",
                                       "Read<int>"}}
    \cup {ReadOf(kind, "s", "f") :
            kind \in {"ReadBool", "ReadStringVector", "ReadString", "Read<string>"}}
    \cup {ReadOf("ReadAttribute", "s", "name"), ReadOf("ReadAttribute", "s", "id"),
          ReadOf("ReadString", "u", "e")}

(* Scenes are read for themselves: what is read or written besides has no  *)
(* part in them.                                                           *)
ScenesAlone == scene = StandardScene \/ (result = NoAnswer /\ written = NotWritten)

MCDefaultText == Chars("d")
=============================================================================

------------------------------- MODULE XmlFile -------------------------------
(***************************************************************************)
(* What TinyXML writes for a document of ConfigFile, and what it reads from*)
(* such a text or from a beginning of one.  A text is a sequence of pieces:*)
(* the piece open is "<" and a name, slash and gt are single characters,   *)
(* space is any white space; only the last piece may be cut.  XmlText says *)
(* what happens to the characters of a value.                              *)
(***************************************************************************)
EXTENDS ConfigFile, SequencesExt

Named(kind, name) == [kind |-> kind, name |-> name, value |-> "", cut |-> FALSE]
Piece(kind) == Named(kind, "")
AttributePiece(a) == [kind |-> "attribute", name |-> a.name, value |-> a.value, cut |-> FALSE]

Space == Piece("space")
-----------------------------------------------------------------------------
(***************************************************************************)
(* The elements the program builds: each Config with its date, each user   *)
(* with its attributes in the order of SetAttribute.  Values are named for *)
(* what they are; a value that is missing has no attribute.                *)
(***************************************************************************)
Rest == <<"hostname", "username", "os", "nbvideo">>
Attribute(name, value) == [name |-> name, value |-> value]
UserAttributes(u) ==
    (IF u.ip = NoAddress THEN <<>> ELSE <<Attribute("ip", u.ip)>>) \o
        [k \in 1 .. (IF u.rest THEN 4 ELSE 0) |-> Attribute(Rest[k], "")]
ConfigAttributes(c) == IF c.date = NoDate THEN <<>> ELSE <<Attribute("date", c.date)>>

(***************************************************************************)
(* Print of an element: " />" when it has no child, else its children, each*)
(* on a line of its own; children are what each of them prints.  Print of  *)
(* the document, which starts with its declaration if it was loaded with   *)
(* one.                                                                    *)
(***************************************************************************)
ElementPrint(name, attributes, children) ==
    <<Named("open", name)>> \o
    FlattenSeq([k \in DOMAIN attributes |-> <<Space, AttributePiece(attributes[k])>>]) \o
    (IF children = <<>>
     THEN <<Space, Piece("slash"), Piece("gt")>>
     ELSE <<Piece("gt")>> \o
          FlattenSeq([k \in DOMAIN children |-> <<Space>> \o children[k]]) \o
          <<Space, Named("end", name), Piece("gt")>>)

UserPrint(u) == ElementPrint("user", UserAttributes(u), <<>>)
ConfigPrint(c) ==
    ElementPrint("Config", ConfigAttributes(c), [k \in DOMAIN c.users |-> UserPrint(c.users[k])])
RootPrint(d) ==
    ElementPrint("ConfigReseau", <<>>, [k \in DOMAIN d.configs |-> ConfigPrint(d.configs[k])])

DocumentPrint(d, declared) ==
    (IF declared THEN <<Piece("declaration"), Space>> ELSE <<>>) \o
    (IF d.root THEN RootPrint(d) \o <<Space>> ELSE <<>>)

\* What is left of a text when only its beginning was written.
\* Of a tag there may be a part of the name, or only "<".
CutPiece(piece) ==
    {[piece EXCEPT !.cut = TRUE]} \cup
        (IF piece.kind \in {"open", "end"} THEN {[piece EXCEPT !.cut = TRUE, !.name = ""]} ELSE {})
Beginnings(text) ==
    {SubSeq(text, 1, k) : k \in 0 .. Len(text)} \cup
        UNION {{Append(SubSeq(text, 1, k - 1), piece) : piece \in CutPiece(text[k])} :
                   k \in {j \in DOMAIN text : text[j].kind \notin {"space", "slash", "gt"}}}
-----------------------------------------------------------------------------
(***************************************************************************)
(* Parsing.  A position of text is a number; 0 is the NULL pointer, and    *)
(* Len(text) + 1 points to the end.  Each parser returns the position it   *)
(* leaves, what it has built, and whether it has set an error.             *)
(***************************************************************************)
Nowhere == 0
Readable(text, p) == p # Nowhere /\ p <= Len(text)
Is(text, p, kind) == Readable(text, p) /\ text[p].kind = kind

\* Mutant: only the end is looked at.
SkipNothing(text, p) == IF Readable(text, p) THEN p ELSE Nowhere

SkipWhiteSpace(text, p) ==
    CASE ~Readable(text, p) -> Nowhere
      [] Is(text, p, "space") -> p + 1
      [] OTHER -> p

\* A "<" with nothing to tell what it begins makes a TiXmlUnknown.
Identify(text, p) ==
    CASE Is(text, p, "declaration") /\ ~text[p].cut -> "declaration"
      [] Is(text, p, "open") /\ text[p].name # "" -> "element"
      [] OTHER -> "unknown"

\* TiXmlAttribute::Parse: NULL unless the closing quote is followed by something.
AttributeParse(text, p) ==
    IF Is(text, p, "attribute") /\ ~text[p].cut /\ p < Len(text) THEN p + 1 ELSE Nowhere

Result(p, attributes, children, error) ==
    [p |-> p, attributes |-> attributes, children |-> children, error |-> error]
Failed == Result(Nowhere, <<>>, <<>>, TRUE)

\* The loop of TiXmlElement::Parse over the attributes, up to "/", ">" or an error.  What
\* was read before p lies between from and p.
Attributes(text, from) ==
    LET read[at \in 0 .. Len(text) + 1] ==
            LET p == SkipWhiteSpace(text, at)
                next == AttributeParse(text, p)
                rest == read[next]
            IN  CASE ~Readable(text, p) -> Failed
                  [] Is(text, p, "slash") \/ Is(text, p, "gt") -> Result(p, <<>>, <<>>, FALSE)
                  [] OTHER ->
                       IF \/ next = Nowhere
                          \/ \E k \in from .. p - 1 :
                                 Is(text, k, "attribute") /\ text[k].name = text[p].name
                       THEN Failed
                       ELSE Result(rest.p,
                                   <<Attribute(text[p].name, text[p].value)>> \o rest.attributes,
                                   <<>>, rest.error)
    IN  read[from]

Element(name, attributes, children) ==
    [type |-> "element", name |-> name, attributes |-> attributes, children |-> children]
Parsed(p, node, error) == [p |-> p, node |-> node, error |-> error]

\* Mutant: an element without its end tag has no children.
UnendedEmpty(name, attributes, children) == Parsed(Nowhere, Element(name, attributes, <<>>), TRUE)

Unended(name, attributes, children) == Parsed(Nowhere, Element(name, attributes, children), TRUE)

\* TiXmlElement::Parse, where value[p] is what ReadValue gives from p on.
ElementParse(text, value, p) ==
    LET name == text[p].name
        read == Attributes(text, p + 1)
        inside == value[read.p + 1]
        ended == /\ inside.p # Nowhere
                 /\ text[inside.p].name = name /\ ~text[inside.p].cut
                 /\ Is(text, inside.p + 1, "gt")
    IN  CASE text[p].cut -> Unended(name, <<>>, <<>>)
          [] ~text[p].cut /\ read.error -> Unended(name, read.attributes, <<>>)
          [] ~text[p].cut /\ ~read.error /\ Is(text, read.p, "slash") ->
                 IF Is(text, read.p + 1, "gt")
                 THEN Parsed(read.p + 2, Element(name, read.attributes, <<>>), FALSE)
                 ELSE Unended(name, read.attributes, <<>>)
          [] OTHER ->
                 IF ended
                 THEN Parsed(inside.p + 2, Element(name, read.attributes, inside.children),
                             inside.error)
                 ELSE Unended(name, read.attributes, inside.children)

\* The node Identify found at p, with everything below it.
NodeParse(text, value, p) ==
    CASE Identify(text, p) = "element" -> ElementParse(text, value, p)
      [] Identify(text, p) = "declaration" -> Parsed(p + 1, [type |-> "declaration"], FALSE)
      [] OTHER -> Parsed(p + 1, [type |-> "unknown"], FALSE)

\* A child is linked, complete or not, before the others.
WithChild(child, rest) ==
    Result(rest.p, rest.attributes, <<child.node>> \o rest.children, rest.error \/ child.error)
ThenRead(child, read) == WithChild(child, read[child.p])

\* TiXmlElement::ReadValue, from any position on, up to "</" or Nowhere.
ReadValue(text) ==
    LET value[at \in 0 .. Len(text) + 1] ==
            LET p == SkipWhiteSpace(text, at)
            IN  CASE ~Readable(text, p) -> Failed
                  [] Is(text, p, "end") /\ text[p].name # "" -> Result(p, <<>>, <<>>, FALSE)
                  [] OTHER -> ThenRead(NodeParse(text, value, p), value)
    IN  value

\* A document of no node is an error.
NotEmpty(read) == Result(read.p, <<>>, read.children, read.error \/ read.children = <<>>)

\* TiXmlDocument::Parse: it links what Identify finds until the text or the pointer ends.
DocumentParse(text) ==
    LET nodes[at \in 0 .. Len(text) + 1] ==
            LET p == SkipWhiteSpace(text, at)
            IN  IF ~Readable(text, p) THEN Result(Nowhere, <<>>, <<>>, FALSE)
                ELSE ThenRead(NodeParse(text, ReadValue(text), p), nodes)
    IN  NotEmpty(nodes[1])

LoadFile(text) == DocumentParse(text)
-----------------------------------------------------------------------------
(***************************************************************************)
(* The document of ConfigFile that the program sees in what LoadFile made: *)
(* it follows FirstChildElement and NextSiblingElement, whatever the names,*)
(* and asks for attributes by their names.                                 *)
(***************************************************************************)
Elements(nodes) ==
    LET met[k \in 0 .. Len(nodes)] ==
            CASE k = 0 -> <<>>
              [] k > 0 /\ nodes[k].type = "element" -> Append(met[k - 1], nodes[k])
              [] OTHER -> met[k - 1]
    IN  met[Len(nodes)]
Value(e, name, missing) ==
    LET K == {k \in DOMAIN e.attributes : e.attributes[k].name = name}
    IN  IF K = {} THEN missing ELSE e.attributes[First(K)].value
Has(e, name) == \E k \in DOMAIN e.attributes : e.attributes[k].name = name

UserSeen(e) == [ip |-> Value(e, "ip", NoAddress), rest |-> \A k \in DOMAIN Rest : Has(e, Rest[k])]
ConfigSeen(e) ==
    [date |-> Value(e, "date", NoDate),
     users |-> [k \in DOMAIN Elements(e.children) |-> UserSeen(Elements(e.children)[k])]]

DocumentSeen(loaded) ==
    LET roots == Elements(loaded.children) IN
    IF roots = <<>> THEN EmptyDocument
    ELSE LET configs == Elements(Head(roots).children)
         IN  [root |-> TRUE,
              configs |-> [k \in DOMAIN configs |-> ConfigSeen(configs[k])],
              whole |-> ~loaded.error]

Read(text) == DocumentSeen(LoadFile(text))
=============================================================================

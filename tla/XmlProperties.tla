---------------------------- MODULE XmlProperties ----------------------------
(***************************************************************************)
(* What the rest of the master relies on in TinyXML and in the check of    *)
(* file names.  subject says which of them a behaviour is about: a value or*)
(* a name grows by a character, a document by an element, and the DOM is   *)
(* changed by its operations.  A part with a specification of its own      *)
(* states its properties there (XmlTree, FileName).                        *)
(***************************************************************************)
EXTENDS XmlFile, XmlText, FileName, XmlTree, XmlAttributes

CONSTANTS
    Characters,   \* those a value is made of
    MaxText,      \* bound: length of a value
    MaxConfigs,   \* bound: configurations in a document
    MaxUsers      \* bound: users in one of them

\* A char other than the one that ends a string.
ASSUME CharactersAssumption == Characters \subseteq 1 .. 255

VARIABLES subject, text, document

xmlVars == <<subject, text, document, fileVars, Destination, treeVars, attributeSet>>

Init ==
    /\ subject \in {"value", "name", "document", "tree", "attributes"}
    /\ text = <<>>
    /\ document \in IF subject = "document" THEN {EmptyDocument, BlankDocument} ELSE {EmptyDocument}
    /\ FileInit
    /\ DestinationInit
    /\ TreeInit
    /\ AttributesInit

TypeCharacter ==
    /\ subject = "value" /\ Len(text) < MaxText
    /\ \E c \in Characters : text' = Append(text, c)
    /\ UNCHANGED <<subject, document, fileVars, Destination, treeVars, attributeSet>>

TypeName ==
    /\ subject = "name"
    /\ DestinationNext
    /\ UNCHANGED <<subject, text, document, fileVars, treeVars, attributeSet>>

\* Every document that was saved, and what a load can have made of a cut one.
AddElement ==
    /\ subject = "document" /\ document.root
    /\ \/ /\ Len(document.configs) < MaxConfigs
          /\ \E date \in Dates \cup {NoDate} :
                 document' = [document EXCEPT !.configs = Append(@, [date |-> date, users |-> <<>>])]
       \/ /\ document.configs # <<>>
          /\ Len(Last(document.configs).users) < MaxUsers
          /\ \E m \in Machines : \E u \in CutUser(FullUser(m)) :
                 document' = [document EXCEPT !.configs[Len(document.configs)].users = Append(@, u)]
    /\ UNCHANGED <<subject, text, fileVars, Destination, treeVars, attributeSet>>

ChangeTree ==
    /\ subject = "tree"
    /\ TreeNext
    /\ UNCHANGED <<subject, text, document, fileVars, Destination, attributeSet>>

ChangeAttributes ==
    /\ subject = "attributes"
    /\ AttributesNext
    /\ UNCHANGED <<subject, text, document, fileVars, Destination, treeVars>>

Next == TypeCharacter \/ TypeName \/ AddElement \/ ChangeTree \/ ChangeAttributes

Spec == Init /\ [][Next]_xmlVars
-----------------------------------------------------------------------------
(***************************************************************************)
(* An attribute has, after it was written and read, the value it had:      *)
(* whatever is in it but a character reference of its own ("&#x"), which   *)
(* EncodeString passes unchanged.  Reading stops behind the closing quote. *)
(***************************************************************************)
ValuesReturn ==
    subject = "value" /\ (\A i \in DOMAIN text : ~BeginsReference(text, i)) =>
        LET printed == PrintValue(text)
        IN  ParseValue(Append(printed, Blank)) = Got(text, Len(printed) + 1)

(***************************************************************************)
(* What SaveFile has written whole LoadFile reads back: the same           *)
(* configurations and users in the same order, and no error.               *)
(***************************************************************************)
SavedIsLoaded ==
    subject = "document" =>
        \A declared \in BOOLEAN : Read(DocumentPrint(document, declared)) = document

(***************************************************************************)
(* When saving ends early, what is loaded the next time is one of          *)
(* ConfigFile!Cuts, and each of these can happen: the two descriptions of a*)
(* crash, by documents and by what is in the file, agree.                  *)
(***************************************************************************)
CutsAreBeginnings ==
    subject = "document" =>
        \A declared \in BOOLEAN :
            {Read(t) : t \in Beginnings(DocumentPrint(document, declared))} = Cuts(document)
-----------------------------------------------------------------------------
\* The children of n in t, following next from firstChild.
ChildrenOf(t, n) ==
    LET chain[k \in 0 .. Cardinality(Nodes)] ==
            IF k = 0 THEN t.firstChild[n]
            ELSE IF chain[k - 1] = NULL THEN NULL ELSE t.next[chain[k - 1]]
        met == {k \in 0 .. Cardinality(Nodes) : chain[k] # NULL}
    IN  [k \in 1 .. Cardinality(met) |-> chain[k - 1]]

Children == INSTANCE XmlChildren
                WITH alive <- tree.alive,
                     children <- [n \in Nodes |-> ChildrenOf(tree, n)]

(***************************************************************************)
(* Seen along next, the pointers are the sequences of children of          *)
(* XmlChildren, and each operation of TiXmlNode does to them what the one  *)
(* of that name in XmlChildren does: the child comes where it was asked    *)
(* for, all below it is copied or deleted with it, and no other sequence   *)
(* changes.                                                                *)
(***************************************************************************)
KeepsChildren ==
    [][\A this, x \in tree.alive :
        /\ x # doc /\ InsertEndChild(this, x) => Children!InsertEndChild(this, x)
        /\ Clear(this) => Children!Clear(this)
        /\ RemoveChild(this, x) => Children!RemoveChild(this, x)
        /\ \A c \in {n \in tree.alive : tree.parent[n] = this /\ x # doc} :
              /\ InsertBeforeChild(this, c, x) => Children!InsertBeforeChild(this, c, x)
              /\ InsertAfterChild(this, c, x) => Children!InsertAfterChild(this, c, x)
              /\ ReplaceChild(this, c, x) => Children!ReplaceChild(this, c, x)
      ]_treeVars

(***************************************************************************)
(* Print and CopyTo meet the attributes of an element in the order in which*)
(* they were first set, each once: SetAttribute changes one in its place or*)
(* puts it last, RemoveAttribute takes one out.                            *)
(***************************************************************************)
AttributesKeepOrder ==
    [][LET old == Listed(attributeSet)
           new == Listed(attributeSet)'
       IN  \E name \in Names :
               LET K == {k \in DOMAIN old : old[k].name = name} IN
               \/ /\ K = {}
                  /\ \E value \in Values : new = Append(old, [name |-> name, value |-> value])
               \/ \E k \in K : \/ K = {k} /\ new = RemoveAt(old, k)
                               \/ \E value \in Values : new = [old EXCEPT ![k].value = value]
      ]_attributeSet
=============================================================================

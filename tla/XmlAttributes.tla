---------------------------- MODULE XmlAttributes ----------------------------
(***************************************************************************)
(* The attributes of one TiXmlElement: a ring of cells through a sentinel. *)
(* Iteration (First, Next) knows the sentinel by its empty name and value. *)
(***************************************************************************)
EXTENDS Naturals, Sequences, FiniteSets

CONSTANTS
    Cells,     \* places for attributes
    sentinel,
    NoCell,
    Names,     \* the names the program gives: none is empty
    Values     \* with the empty one

ASSUME AttributesAssumption ==
    /\ IsFiniteSet(Cells)
    /\ {sentinel, NoCell} \cap Cells = {}
    /\ sentinel # NoCell
    /\ "" \notin Names

VARIABLE attributeSet   \* the cells: name, value, next and prev

Ring == Cells \cup {sentinel}
FreeCell == [name |-> "", value |-> "", next |-> NoCell, prev |-> NoCell]
Sentinel == [name |-> "", value |-> "", next |-> sentinel, prev |-> sentinel]

AttributesInit ==
    attributeSet = [c \in Ring |-> IF c = sentinel THEN Sentinel ELSE FreeCell]

Linked(s) == {c \in Cells : s[c].next # NoCell}
-----------------------------------------------------------------------------
\* Mutant: the last attribute does not point to the new one.
AddBehind(s, c) ==
    [s EXCEPT ![c].next = sentinel, ![c].prev = s[sentinel].prev, ![sentinel].prev = c]

Add(s, c) ==
    LET last == s[sentinel].prev
        added == [s EXCEPT ![c].next = sentinel, ![c].prev = last]
    IN  [added EXCEPT ![last].next = c, ![sentinel].prev = c]

Detach(s, c) ==
    LET around == [s EXCEPT ![s[c].prev].next = s[c].next]
    IN  [[around EXCEPT ![s[c].next].prev = s[c].prev] EXCEPT ![c] = FreeCell]

\* The cells in the order in which Find meets them: from the sentinel to the sentinel.
Walk(s) ==
    LET walk[k \in 0 .. Cardinality(Cells)] ==
            IF k = 0 THEN s[sentinel].next
            ELSE IF walk[k - 1] \in Cells THEN s[walk[k - 1]].next ELSE walk[k - 1]
        met == {k \in 0 .. Cardinality(Cells) : walk[k] \in Cells}
    IN  [k \in 1 .. Cardinality(met) |-> walk[k - 1]]

Find(s, name) ==
    LET K == {k \in DOMAIN Walk(s) : s[Walk(s)[k]].name = name}
    IN  IF K = {} THEN NoCell ELSE Walk(s)[CHOOSE k \in K : \A j \in K : k <= j]

\* First and Next: the attributes Print writes and CopyTo copies.
Listed(s) ==
    LET cells == Walk(s)
        stops == {k \in DOMAIN cells : k > 1 /\ s[cells[k]].name = "" /\ s[cells[k]].value = ""}
        shown == IF stops = {} THEN Len(cells)
                 ELSE (CHOOSE k \in stops : \A j \in stops : k <= j) - 1
    IN  [k \in 1 .. shown |-> [name |-> s[cells[k]].name, value |-> s[cells[k]].value]]
-----------------------------------------------------------------------------
\* FindOrCreate, then SetValue.
SetAttribute(name, value) ==
    LET found == Find(attributeSet, name) IN
    \/ /\ found # NoCell
       /\ attributeSet' = [attributeSet EXCEPT ![found].value = value]
    \/ /\ found = NoCell
       /\ \E c \in Cells \ Linked(attributeSet) :
              attributeSet' = [Add(attributeSet, c) EXCEPT ![c].name = name, ![c].value = value]

RemoveAttribute(name) ==
    LET found == Find(attributeSet, name) IN
    /\ found # NoCell
    /\ attributeSet' = Detach(attributeSet, found)

AttributesNext ==
    \E name \in Names : RemoveAttribute(name) \/ \E value \in Values : SetAttribute(name, value)
=============================================================================

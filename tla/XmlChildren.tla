----------------------------- MODULE XmlChildren -----------------------------
(***************************************************************************)
(* What the operations of TiXmlNode promise: each node has a sequence of   *)
(* children; a copy of a node, with all below it, is put into one at the   *)
(* end, before or behind a child, or takes the place of a child; or a child*)
(* goes with all below it.                                                 *)
(***************************************************************************)
EXTENDS Naturals, SequencesExt

CONSTANT Nodes

VARIABLES alive, children

\* x and, one level after the other, all that is below it.
Below(x) ==
    LET kids == children
        below[k \in 0 .. Cardinality(Nodes)] ==
            IF k = 0 THEN {x}
            ELSE LET above == below[k - 1] IN above \cup UNION {ToSet(kids[m]) : m \in above}
    IN  below[Cardinality(Nodes)]

CopiesAt(x) ==
    {at \in [Below(x) -> Nodes \ alive] : \A m, n \in DOMAIN at : at[m] = at[n] => m = n}

\* The children after the copy of x to at and, next, the end of gone.
Copied(at, gone) ==
    LET kids == children IN
    [n \in Nodes |->
        IF n \in gone THEN <<>>
        ELSE IF \E m \in DOMAIN at : at[m] = n
        THEN LET old == kids[CHOOSE m \in DOMAIN at : at[m] = n]
             IN  [k \in DOMAIN old |-> at[old[k]]]
        ELSE kids[n]]
Places(at) == {at[m] : m \in DOMAIN at}

\* A copy of x becomes the child number k of this.
InsertCopy(this, k, x) ==
    \E at \in CopiesAt(x) :
        /\ alive' = alive \cup Places(at)
        /\ children' = [Copied(at, {}) EXCEPT ![this] = InsertAt(children[this], k, at[x])]

\* Which child of this c is.
Index(this, c) == CHOOSE k \in DOMAIN children[this] : children[this][k] = c

InsertEndChild(this, x) == InsertCopy(this, Len(children[this]) + 1, x)
InsertBeforeChild(this, c, x) == InsertCopy(this, Index(this, c), x)
InsertAfterChild(this, c, x) == InsertCopy(this, Index(this, c) + 1, x)

ReplaceChild(this, c, x) ==
    \E at \in CopiesAt(x) :
        /\ alive' = (alive \cup Places(at)) \ Below(c)
        /\ children' = [Copied(at, Below(c)) EXCEPT
                            ![this] = [children[this] EXCEPT ![Index(this, c)] = at[x]]]

RemoveChild(this, c) ==
    /\ alive' = alive \ Below(c)
    /\ children' = [Copied(<<>>, Below(c)) EXCEPT ![this] = RemoveAt(children[this], Index(this, c))]

Clear(this) ==
    /\ alive' = alive \ (Below(this) \ {this})
    /\ children' = Copied(<<>>, Below(this))
=============================================================================

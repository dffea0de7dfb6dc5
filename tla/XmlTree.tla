------------------------------- MODULE XmlTree -------------------------------
(***************************************************************************)
(* The tree of nodes TinyXML keeps of a document: each node points to its  *)
(* parent, its first and last child and its neighbours, and every operation*)
(* of TiXmlNode mends these pointers one by one.  tree is the heap: the    *)
(* allocated nodes and their pointers.                                     *)
(***************************************************************************)
EXTENDS Naturals, FiniteSets

CONSTANTS
    Nodes,       \* places for nodes
    NULL,
    doc,         \* the TiXmlDocument
    le_nouveau   \* a TiXmlElement on the stack, of which copies are inserted

ASSUME TreeAssumption ==
    /\ IsFiniteSet(Nodes)
    /\ NULL \notin Nodes
    /\ {doc, le_nouveau} \subseteq Nodes
    /\ doc # le_nouveau

VARIABLES
    tree,    \* the nodes and their pointers
    error    \* SetError was called

treeVars == <<tree, error>>

Pointers == [Nodes -> Nodes \cup {NULL}]
Tree == [alive : SUBSET Nodes, parent : Pointers, firstChild : Pointers,
         lastChild : Pointers, prev : Pointers, next : Pointers]

NoPointers == [n \in Nodes |-> NULL]

TreeInit ==
    /\ tree = [alive |-> {doc, le_nouveau}, parent |-> NoPointers, firstChild |-> NoPointers,
               lastChild |-> NoPointers, prev |-> NoPointers, next |-> NoPointers]
    /\ error = FALSE
-----------------------------------------------------------------------------
\* x and everything below it.
Closed(t, S) == \A n \in Nodes : t.parent[n] \in S => n \in S
Subtree(t, x) == {n \in t.alive : \A S \in SUBSET Nodes : x \in S /\ Closed(t, S) => n \in S}

\* delete: the destructor deletes the children, too.
Delete(t, S) ==
    LET Kept(pointers) == [n \in Nodes |-> IF n \in S THEN NULL ELSE pointers[n]]
    IN  [alive |-> t.alive \ S, parent |-> Kept(t.parent), firstChild |-> Kept(t.firstChild),
         lastChild |-> Kept(t.lastChild), prev |-> Kept(t.prev), next |-> Kept(t.next)]

\* The places a Clone of x may be given.
Places(t, x) ==
    {at \in [Subtree(t, x) -> Nodes \ t.alive] : \A m, n \in DOMAIN at : at[m] = at[n] => m = n}

\* Mutant: the node itself is copied, not what is below it.
CloneShallow(t, x, at) == [t EXCEPT !.alive = @ \cup {at[x]}]

\* CopyTo links a clone of each child, in their order; the clone of x is linked nowhere.
Clone(t, x, at) ==
    LET Old(n) == CHOOSE m \in DOMAIN at : at[m] = n
        IsNew(n) == \E m \in DOMAIN at : at[m] = n
        There(m) == IF m \in DOMAIN at THEN at[m] ELSE NULL
        Copied(pointers) ==
            [n \in Nodes |-> IF IsNew(n) THEN There(pointers[Old(n)]) ELSE pointers[n]]
        Linked(pointers) == [Copied(pointers) EXCEPT ![at[x]] = NULL]
    IN  [alive |-> t.alive \cup {at[m] : m \in DOMAIN at},
         parent |-> Linked(t.parent), prev |-> Linked(t.prev), next |-> Linked(t.next),
         firstChild |-> Copied(t.firstChild), lastChild |-> Copied(t.lastChild)]
-----------------------------------------------------------------------------
LinkEndChild(t, this, node) ==
    LET last == t.lastChild[this]
        linked == [t EXCEPT !.parent[node] = this, !.prev[node] = last, !.next[node] = NULL,
                            !.lastChild[this] = node]
    IN  IF last # NULL
        THEN [linked EXCEPT !.next[last] = node]
        ELSE [linked EXCEPT !.firstChild[this] = node]

LinkBefore(t, this, beforeThis, node) ==
    LET before == t.prev[beforeThis]
        linked == [t EXCEPT !.parent[node] = this, !.next[node] = beforeThis,
                            !.prev[node] = before, !.prev[beforeThis] = node]
    IN  IF before # NULL
        THEN [linked EXCEPT !.next[before] = node]
        ELSE [linked EXCEPT !.firstChild[this] = node]

LinkAfter(t, this, afterThis, node) ==
    LET after == t.next[afterThis]
        linked == [t EXCEPT !.parent[node] = this, !.prev[node] = afterThis,
                            !.next[node] = after, !.next[afterThis] = node]
    IN  IF after # NULL
        THEN [linked EXCEPT !.prev[after] = node]
        ELSE [linked EXCEPT !.lastChild[this] = node]

Unlink(t, this, old) ==
    LET mended == IF t.next[old] # NULL
                  THEN [t EXCEPT !.prev[t.next[old]] = t.prev[old]]
                  ELSE [t EXCEPT !.lastChild[this] = t.prev[old]]
    IN  IF t.prev[old] # NULL
        THEN [mended EXCEPT !.next[t.prev[old]] = t.next[old]]
        ELSE [mended EXCEPT !.firstChild[this] = t.next[old]]

\* Mutant: the parent still has the old one as its last child.
SubstituteInside(t, this, old, node) ==
    LET linked == [t EXCEPT !.parent[node] = this, !.next[node] = t.next[old],
                            !.prev[node] = t.prev[old]]
        mended == IF t.next[old] # NULL
                  THEN [linked EXCEPT !.prev[t.next[old]] = node]
                  ELSE linked
    IN  IF t.prev[old] # NULL
        THEN [mended EXCEPT !.next[t.prev[old]] = node]
        ELSE [mended EXCEPT !.firstChild[this] = node]

Substitute(t, this, old, node) ==
    LET linked == [t EXCEPT !.parent[node] = this, !.next[node] = t.next[old],
                            !.prev[node] = t.prev[old]]
        mended == IF t.next[old] # NULL
                  THEN [linked EXCEPT !.prev[t.next[old]] = node]
                  ELSE [linked EXCEPT !.lastChild[this] = node]
    IN  IF t.prev[old] # NULL
        THEN [mended EXCEPT !.next[t.prev[old]] = node]
        ELSE [mended EXCEPT !.firstChild[this] = node]
-----------------------------------------------------------------------------
\* A document is never inserted: SetError, if this belongs to a document.
TopOnly(this) ==
    /\ error' = (error \/ this \in Subtree(tree, doc))
    /\ UNCHANGED tree

InsertEndChild(this, addThis) ==
    \/ addThis = doc /\ TopOnly(this)
    \/ /\ addThis # doc
       /\ \E at \in Places(tree, addThis) :
              tree' = LinkEndChild(Clone(tree, addThis, at), this, at[addThis])
       /\ UNCHANGED error

InsertBeforeChild(this, beforeThis, addThis) ==
    /\ tree.parent[beforeThis] = this
    /\ \/ addThis = doc /\ TopOnly(this)
       \/ /\ addThis # doc
          /\ \E at \in Places(tree, addThis) :
                 tree' = LinkBefore(Clone(tree, addThis, at), this, beforeThis, at[addThis])
          /\ UNCHANGED error

InsertAfterChild(this, afterThis, addThis) ==
    /\ tree.parent[afterThis] = this
    /\ \/ addThis = doc /\ TopOnly(this)
       \/ /\ addThis # doc
          /\ \E at \in Places(tree, addThis) :
                 tree' = LinkAfter(Clone(tree, addThis, at), this, afterThis, at[addThis])
          /\ UNCHANGED error

ReplaceChild(this, replaceThis, withThis) ==
    /\ tree.parent[replaceThis] = this
    /\ \/ withThis = doc /\ TopOnly(this)
       \/ /\ withThis # doc
          /\ \E at \in Places(tree, withThis) :
                 tree' = Delete(Substitute(Clone(tree, withThis, at), this, replaceThis,
                                           at[withThis]),
                                Subtree(tree, replaceThis))
          /\ UNCHANGED error

RemoveChild(this, removeThis) ==
    /\ tree.parent[removeThis] = this
    /\ tree' = Delete(Unlink(tree, this, removeThis), Subtree(tree, removeThis))
    /\ UNCHANGED error

Clear(this) ==
    /\ LET without == Delete(tree, Subtree(tree, this) \ {this})
       IN  tree' = [without EXCEPT !.firstChild[this] = NULL, !.lastChild[this] = NULL]
    /\ UNCHANGED error

TreeNext ==
    \E this, other \in tree.alive :
        \/ InsertEndChild(this, other)
        \/ RemoveChild(this, other)
        \/ \E added \in tree.alive :
               \/ InsertBeforeChild(this, other, added)
               \/ InsertAfterChild(this, other, added)
               \/ ReplaceChild(this, other, added)
        \/ Clear(this)

TreeSpec == TreeInit /\ [][TreeNext]_treeVars
-----------------------------------------------------------------------------
(***************************************************************************)
(* The five pointers of a node always agree with those of the nodes around *)
(* it: none leads to a node that was deleted, next and prev are each       *)
(* other's inverse and stay among the children of one parent, whose        *)
(* firstChild and lastChild are the two that have no neighbour.  No node is*)
(* below or behind itself, so a traversal, or a destructor, comes to an end*)
(* and meets all that is there.                                            *)
(***************************************************************************)
NoneDangling(t) ==
    \A n \in Nodes :
        {t.parent[n], t.firstChild[n], t.lastChild[n], t.prev[n], t.next[n]}
            \subseteq (IF n \in t.alive THEN t.alive ELSE {}) \cup {NULL}
NeighboursAgree(t) ==
    \A m, n \in Nodes :
        /\ t.next[m] = n <=> t.prev[n] = m
        /\ t.next[m] = n => t.parent[m] = t.parent[n] /\ t.parent[n] # NULL
EndsAgree(t) ==
    \A p, c \in Nodes :
        /\ t.firstChild[p] = c <=> t.parent[c] = p /\ t.prev[c] = NULL
        /\ t.lastChild[p] = c <=> t.parent[c] = p /\ t.next[c] = NULL
NoneBelowItself(t) ==
    \A S \in SUBSET t.alive : S # {} => \E n \in S : t.parent[n] \notin S
NoneBehindItself(t) ==
    \A S \in SUBSET t.alive : S # {} => \E n \in S : t.next[n] \notin S

WellLinked(t) ==
    /\ t \in Tree
    /\ NoneDangling(t)
    /\ NeighboursAgree(t) /\ EndsAgree(t)
    /\ NoneBelowItself(t) /\ NoneBehindItself(t)

TreeLinked == WellLinked(tree)
=============================================================================

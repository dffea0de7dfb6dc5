------------------------------ MODULE XmlProofs ------------------------------
(***************************************************************************)
(* Theorems about XmlProperties, for every set of nodes, of cells and of   *)
(* characters.  XmlFileProofs has those about saved documents.             *)
(*                                                                         *)
(* The tree: an insertion is the same change wherever it is made, node     *)
(* comes between two neighbours, a and b.  A deletion is safe once the rest*)
(* does not point into what is deleted.  The links then are sequences of   *)
(* children, and each operation changes them as XmlChildren says.          *)
(*                                                                         *)
(* A value: what is printed of the characters from a place on is read from *)
(* there on, by induction on the place.  Induction is stated with a set:   *)
(* NatMin gives the least number of one that is not empty.                 *)
(*                                                                         *)
(* The attributes: the cells linked from the sentinel are a ring, and the  *)
(* list is what the ring shows.                                            *)
(***************************************************************************)
EXTENDS XmlProperties, TLAPS, FiniteSetTheorems, SequenceTheorems, WellFoundedInduction

(* The pointers of a heap. *)
LEMMA Fields ==
    ASSUME NEW t \in Tree
    PROVE  /\ t.alive \subseteq Nodes
           /\ t.parent \in Pointers /\ t.firstChild \in Pointers /\ t.lastChild \in Pointers
           /\ t.prev \in Pointers /\ t.next \in Pointers
    BY DEF Tree

(* Heaps made of such pointers. *)
LEMMA Made ==
    ASSUME NEW alive \in SUBSET Nodes, NEW parent \in Pointers, NEW firstChild \in Pointers,
           NEW lastChild \in Pointers, NEW prev \in Pointers, NEW next \in Pointers
    PROVE  [alive |-> alive, parent |-> parent, firstChild |-> firstChild,
            lastChild |-> lastChild, prev |-> prev, next |-> next] \in Tree
    BY DEF Tree
-----------------------------------------------------------------------------
(* What Subtree(t, x) is, without its definition: S is closed, and everything in it but x has
   its parent in it. *)
IsSubtree(t, x, S) ==
    /\ S \subseteq t.alive /\ x \in S
    /\ \A n \in Nodes : t.parent[n] \in S => n \in S
    /\ \A n \in S : n # x => t.parent[n] \in S

(* A node that were in S without its parent could be left out of S, which would stay closed. *)
LEMMA SubtreeIs ==
    ASSUME NEW t, WellLinked(t), NEW x \in t.alive
    PROVE  IsSubtree(t, x, Subtree(t, x))
<1> DEFINE S == Subtree(t, x)
<1>0. /\ t.alive \subseteq Nodes /\ t.parent \in Pointers /\ NULL \notin Nodes
      /\ \A n \in Nodes : t.parent[n] \in Nodes => n \in t.alive
  BY Fields, TreeAssumption DEF WellLinked, NoneDangling, Pointers
<1>1. S \subseteq t.alive /\ x \in S
  BY <1>0 DEF Subtree
<1>2. \A n \in Nodes : t.parent[n] \in S => n \in S
  BY <1>0, <1>1 DEF Subtree, Closed
<1>3. ASSUME NEW n \in S, n # x, t.parent[n] \notin S
      PROVE  FALSE
  <2>1. Closed(t, S \ {n})
    BY <1>2, <1>3 DEF Closed
  <2>2. S \ {n} \in SUBSET Nodes /\ x \in S \ {n}
    BY <1>0, <1>1, <1>3
  <2>3. n \in S \ {n}
    BY <2>1, <2>2, <1>3 DEF Subtree
  <2> QED BY <2>3
<1> QED BY <1>1, <1>2, <1>3 DEF IsSubtree

(* Only x ties its subtree to the rest: no other pointer crosses the boundary. *)
LEMMA Boundary ==
    ASSUME NEW t, WellLinked(t), NEW x, NEW S, IsSubtree(t, x, S)
    PROVE  /\ t.parent[x] \notin S /\ t.prev[x] \notin S /\ t.next[x] \notin S
           /\ \A n \in S \ {x} : /\ t.parent[n] \in S
                                 /\ t.prev[n] \in S \cup {NULL}
                                 /\ t.next[n] \in S \cup {NULL}
           /\ \A n \in S : /\ t.firstChild[n] \in S \cup {NULL} /\ t.firstChild[n] # x
                           /\ t.lastChild[n] \in S \cup {NULL} /\ t.lastChild[n] # x
           /\ \A n \in Nodes \ S : /\ t.parent[n] \notin S
                                   /\ t.prev[n] \in S => t.prev[n] = x
                                   /\ t.next[n] \in S => t.next[n] = x
                                   /\ t.firstChild[n] \in S => t.firstChild[n] = x
                                   /\ t.lastChild[n] \in S => t.lastChild[n] = x
<1>0. /\ t.alive \subseteq Nodes /\ S \subseteq t.alive /\ x \in S /\ NULL \notin Nodes
      /\ \A n \in Nodes : n \in t.alive \/ t.parent[n] = NULL
      /\ \A n \in Nodes : /\ t.parent[n] \in Nodes \cup {NULL}
                          /\ t.prev[n] \in Nodes \cup {NULL} /\ t.next[n] \in Nodes \cup {NULL}
                          /\ t.firstChild[n] \in Nodes \cup {NULL}
                          /\ t.lastChild[n] \in Nodes \cup {NULL}
  BY Fields, TreeAssumption DEF WellLinked, NoneDangling, Pointers, IsSubtree
<1>1. t.parent[x] \notin S
  <2>1. S \in SUBSET t.alive /\ S # {}
    BY <1>0
  <2>2. PICK n \in S : t.parent[n] \notin S
    BY <2>1 DEF WellLinked, NoneBelowItself
  <2> QED BY <2>2 DEF IsSubtree
<1>2. \A m, n \in Nodes : t.next[m] = n => t.parent[m] = t.parent[n] /\ t.parent[n] # NULL /\ t.prev[n] = m
  BY DEF WellLinked, NeighboursAgree
<1>3. \A m, n \in Nodes : t.prev[n] = m => t.next[m] = n
  BY DEF WellLinked, NeighboursAgree
<1>4. \A p, c \in Nodes : /\ t.firstChild[p] = c => t.parent[c] = p
                          /\ t.lastChild[p] = c => t.parent[c] = p
  BY DEF WellLinked, EndsAgree
<1>5. /\ \A n \in Nodes : t.parent[n] \in S => n \in S
      /\ \A n \in S : n # x => t.parent[n] \in S
  BY DEF IsSubtree
<1>6. t.prev[x] \notin S /\ t.next[x] \notin S
  <2>1. {x} \in SUBSET t.alive /\ {x} # {}
    BY <1>0
  <2>2. t.next[x] # x
    BY <2>1 DEF WellLinked, NoneBehindItself
  <2> QED BY <2>2, <1>0, <1>1, <1>2, <1>3, <1>5
<1>7. \A n \in S \ {x} : t.parent[n] \in S /\ t.prev[n] \in S \cup {NULL} /\ t.next[n] \in S \cup {NULL}
  BY <1>0, <1>2, <1>3, <1>5
<1>8. \A n \in S : /\ t.firstChild[n] \in S \cup {NULL} /\ t.firstChild[n] # x
                   /\ t.lastChild[n] \in S \cup {NULL} /\ t.lastChild[n] # x
  BY <1>0, <1>1, <1>4, <1>5
<1>9. \A n \in Nodes \ S : /\ t.parent[n] \notin S
                           /\ t.prev[n] \in S => t.prev[n] = x
                           /\ t.next[n] \in S => t.next[n] = x
                           /\ t.firstChild[n] \in S => t.firstChild[n] = x
                           /\ t.lastChild[n] \in S => t.lastChild[n] = x
  BY <1>0, <1>2, <1>3, <1>4, <1>5
<1> QED BY <1>1, <1>6, <1>7, <1>8, <1>9
-----------------------------------------------------------------------------
(* The heap is well linked, and the nodes outside S know nothing of S. *)
CutOff(t, S) ==
    /\ t \in Tree
    /\ \A n \in Nodes \ S :
           {t.parent[n], t.firstChild[n], t.lastChild[n], t.prev[n], t.next[n]}
               \subseteq ((IF n \in t.alive THEN t.alive ELSE {}) \ S) \cup {NULL}
    /\ \A m, n \in Nodes \ S :
           /\ t.next[m] = n <=> t.prev[n] = m
           /\ t.next[m] = n => t.parent[m] = t.parent[n] /\ t.parent[n] # NULL
    /\ \A p, c \in Nodes \ S :
           /\ t.firstChild[p] = c <=> t.parent[c] = p /\ t.prev[c] = NULL
           /\ t.lastChild[p] = c <=> t.parent[c] = p /\ t.next[c] = NULL
    /\ \A T \in SUBSET (t.alive \ S) : T # {} => \E n \in T : t.parent[n] \notin T
    /\ \A T \in SUBSET (t.alive \ S) : T # {} => \E n \in T : t.next[n] \notin T

(* delete clears what is deleted and touches nothing else. *)
LEMMA DeleteFields ==
    ASSUME NEW t \in Tree, NEW S
    PROVE  /\ Delete(t, S) \in Tree
           /\ Delete(t, S).alive = t.alive \ S
           /\ \A n \in Nodes :
                  LET Kept(pointers) == IF n \in S THEN NULL ELSE pointers[n] IN
                  /\ Delete(t, S).parent[n] = Kept(t.parent)
                  /\ Delete(t, S).firstChild[n] = Kept(t.firstChild)
                  /\ Delete(t, S).lastChild[n] = Kept(t.lastChild)
                  /\ Delete(t, S).prev[n] = Kept(t.prev)
                  /\ Delete(t, S).next[n] = Kept(t.next)
<1> DEFINE Kept(pointers) == [n \in Nodes |-> IF n \in S THEN NULL ELSE pointers[n]]
<1>1. ASSUME NEW pointers \in Pointers
      PROVE  Kept(pointers) \in Pointers
  BY DEF Pointers
<1>2. t.alive \ S \in SUBSET Nodes
  BY Fields
<1>3. Delete(t, S) \in Tree
  BY <1>1, <1>2, Fields, Made DEF Delete
<1> QED BY <1>3 DEF Delete

(* What is cut off can be deleted. *)
LEMMA DeleteLinked ==
    ASSUME NEW t, NEW S, CutOff(t, S)
    PROVE  WellLinked(Delete(t, S))
<1> DEFINE d == Delete(t, S)
<1>0. t \in Tree
  BY DEF CutOff
<1>1. /\ d \in Tree
      /\ d.alive = t.alive \ S
      /\ \A n \in S \cap Nodes :
             /\ d.parent[n] = NULL /\ d.firstChild[n] = NULL /\ d.lastChild[n] = NULL
             /\ d.prev[n] = NULL /\ d.next[n] = NULL
      /\ \A n \in Nodes \ S :
             /\ d.parent[n] = t.parent[n]
             /\ d.firstChild[n] = t.firstChild[n] /\ d.lastChild[n] = t.lastChild[n]
             /\ d.prev[n] = t.prev[n] /\ d.next[n] = t.next[n]
  BY <1>0, DeleteFields
<1> HIDE DEF d
<1>2. NULL \notin Nodes /\ t.alive \subseteq Nodes
  BY <1>0, Fields, TreeAssumption
<1>3. \A n \in Nodes \ S :
          {t.parent[n], t.firstChild[n], t.lastChild[n], t.prev[n], t.next[n]}
               \subseteq ((IF n \in t.alive THEN t.alive ELSE {}) \ S) \cup {NULL}
  BY DEF CutOff
<1>4. NoneDangling(d)
  BY <1>1, <1>2, <1>3 DEF NoneDangling
<1>5. NeighboursAgree(d)
  <2>1. \A m, n \in Nodes \ S :
           /\ t.next[m] = n <=> t.prev[n] = m
           /\ t.next[m] = n => t.parent[m] = t.parent[n] /\ t.parent[n] # NULL
    BY DEF CutOff
  <2>2. \A n \in Nodes \ S : t.next[n] \notin S \cap Nodes /\ t.prev[n] \notin S \cap Nodes
    BY <1>2, <1>3
  <2> QED BY <1>1, <1>2, <2>1, <2>2 DEF NeighboursAgree
<1>6. EndsAgree(d)
  <2>1. \A p, c \in Nodes \ S :
           /\ t.firstChild[p] = c <=> t.parent[c] = p /\ t.prev[c] = NULL
           /\ t.lastChild[p] = c <=> t.parent[c] = p /\ t.next[c] = NULL
    BY DEF CutOff
  <2>2. \A n \in Nodes \ S : /\ t.firstChild[n] \notin S \cap Nodes
                             /\ t.lastChild[n] \notin S \cap Nodes
                             /\ t.parent[n] \notin S \cap Nodes
    BY <1>2, <1>3
  <2> QED BY <1>1, <1>2, <2>1, <2>2 DEF EndsAgree
<1>7. NoneBelowItself(d)
  <2>1. \A T \in SUBSET (t.alive \ S) : T # {} => \E n \in T : t.parent[n] \notin T
    BY DEF CutOff
  <2> QED BY <1>1, <1>2, <2>1 DEF NoneBelowItself
<1>8. NoneBehindItself(d)
  <2>1. \A T \in SUBSET (t.alive \ S) : T # {} => \E n \in T : t.next[n] \notin T
    BY DEF CutOff
  <2> QED BY <1>1, <1>2, <2>1 DEF NoneBehindItself
<1> QED BY <1>1, <1>4, <1>5, <1>6, <1>7, <1>8 DEF WellLinked, d

(* An assignment to one pointer of one node. *)
LEMMA Mended ==
    ASSUME NEW f \in Pointers, NEW at \in Nodes, NEW to \in Nodes \cup {NULL}
    PROVE  /\ [f EXCEPT ![at] = to] \in Pointers
           /\ \A n \in Nodes : [f EXCEPT ![at] = to][n] = IF n = at THEN to ELSE f[n]
    BY DEF Pointers
-----------------------------------------------------------------------------
(* The assignments of RemoveChild, node by node. *)
Unlinked(t, this, old, u) ==
    /\ u \in Tree /\ u.alive = t.alive /\ u.parent = t.parent
    /\ \A n \in Nodes :
           /\ u.prev[n] = IF n = t.next[old] THEN t.prev[old] ELSE t.prev[n]
           /\ u.next[n] = IF n = t.prev[old] THEN t.next[old] ELSE t.next[n]
           /\ u.firstChild[n] = IF t.prev[old] = NULL /\ n = this
                                THEN t.next[old] ELSE t.firstChild[n]
           /\ u.lastChild[n] = IF t.next[old] = NULL /\ n = this
                               THEN t.prev[old] ELSE t.lastChild[n]

(* Unlink does what Unlinked says. *)
LEMMA UnlinkFields ==
    ASSUME NEW t \in Tree, NEW this \in Nodes, NEW old \in Nodes
    PROVE  Unlinked(t, this, old, Unlink(t, this, old))
<1> SUFFICES ASSUME NEW u, u = Unlink(t, this, old)
             PROVE  Unlinked(t, this, old, u)
  OBVIOUS
<1> DEFINE prevs == IF t.next[old] # NULL
                    THEN [t.prev EXCEPT ![t.next[old]] = t.prev[old]] ELSE t.prev
           lasts == IF t.next[old] = NULL
                    THEN [t.lastChild EXCEPT ![this] = t.prev[old]] ELSE t.lastChild
           nexts == IF t.prev[old] # NULL
                    THEN [t.next EXCEPT ![t.prev[old]] = t.next[old]] ELSE t.next
           firsts == IF t.prev[old] = NULL
                     THEN [t.firstChild EXCEPT ![this] = t.next[old]] ELSE t.firstChild
<1>0. /\ t.next[old] \in Nodes \cup {NULL} /\ t.prev[old] \in Nodes \cup {NULL}
      /\ NULL \notin Nodes
  BY Fields, TreeAssumption DEF Pointers
<1>1. u = [alive |-> t.alive, parent |-> t.parent, firstChild |-> firsts,
           lastChild |-> lasts, prev |-> prevs, next |-> nexts]
  BY DEF Unlink, Tree
<1>2. /\ prevs \in Pointers /\ lasts \in Pointers /\ nexts \in Pointers /\ firsts \in Pointers
  BY <1>0, Fields, Mended
<1>3. \A n \in Nodes :
         /\ prevs[n] = IF n = t.next[old] THEN t.prev[old] ELSE t.prev[n]
         /\ nexts[n] = IF n = t.prev[old] THEN t.next[old] ELSE t.next[n]
         /\ firsts[n] = IF t.prev[old] = NULL /\ n = this THEN t.next[old] ELSE t.firstChild[n]
         /\ lasts[n] = IF t.next[old] = NULL /\ n = this THEN t.prev[old] ELSE t.lastChild[n]
  <2> SUFFICES ASSUME NEW n \in Nodes
               PROVE  /\ prevs[n] = IF n = t.next[old] THEN t.prev[old] ELSE t.prev[n]
                      /\ nexts[n] = IF n = t.prev[old] THEN t.next[old] ELSE t.next[n]
                      /\ firsts[n] = IF t.prev[old] = NULL /\ n = this THEN t.next[old]
                                     ELSE t.firstChild[n]
                      /\ lasts[n] = IF t.next[old] = NULL /\ n = this THEN t.prev[old]
                                    ELSE t.lastChild[n]
    OBVIOUS
  <2>1. prevs[n] = IF n = t.next[old] THEN t.prev[old] ELSE t.prev[n]
    BY <1>0, Fields DEF Pointers
  <2>2. nexts[n] = IF n = t.prev[old] THEN t.next[old] ELSE t.next[n]
    BY <1>0, Fields DEF Pointers
  <2>3. firsts[n] = IF t.prev[old] = NULL /\ n = this THEN t.next[old] ELSE t.firstChild[n]
    BY <1>0, Fields DEF Pointers
  <2>4. lasts[n] = IF t.next[old] = NULL /\ n = this THEN t.prev[old] ELSE t.lastChild[n]
    BY <1>0, Fields DEF Pointers
  <2> QED BY <2>1, <2>2, <2>3, <2>4
<1> HIDE DEF prevs, lasts, nexts, firsts
<1>4. u \in Tree
  BY <1>1, <1>2, Fields, Made
<1> QED BY <1>1, <1>3, <1>4 DEF Unlinked

(* RemoveChild's assignments cut the subtree of the removed node off.  A ring of siblings
   that the mended next pointer closed would have been one before, with the removed node. *)
LEMMA UnlinkCutsOff ==
    ASSUME NEW t, WellLinked(t), NEW this \in t.alive, NEW old \in t.alive,
           t.parent[old] = this, NEW S, IsSubtree(t, old, S)
    PROVE  CutOff(Unlink(t, this, old), S)
<1> SUFFICES ASSUME NEW u, u = Unlink(t, this, old)
             PROVE  CutOff(u, S)
  OBVIOUS
<1>0. /\ t \in Tree /\ t.alive \subseteq Nodes /\ this \in Nodes /\ old \in Nodes
      /\ NULL \notin Nodes /\ S \subseteq t.alive /\ old \in S
      /\ \A n \in Nodes : /\ t.prev[n] \in Nodes \cup {NULL} /\ t.next[n] \in Nodes \cup {NULL}
                          /\ t.firstChild[n] \in Nodes \cup {NULL}
                          /\ t.lastChild[n] \in Nodes \cup {NULL}
  BY Fields, TreeAssumption DEF WellLinked, IsSubtree, Pointers
<1>1. /\ u \in Tree /\ u.alive = t.alive /\ u.parent = t.parent
      /\ \A n \in Nodes :
             /\ u.prev[n] = IF n = t.next[old] THEN t.prev[old] ELSE t.prev[n]
             /\ u.next[n] = IF n = t.prev[old] THEN t.next[old] ELSE t.next[n]
             /\ u.firstChild[n] = IF t.prev[old] = NULL /\ n = this
                                  THEN t.next[old] ELSE t.firstChild[n]
             /\ u.lastChild[n] = IF t.next[old] = NULL /\ n = this
                                 THEN t.prev[old] ELSE t.lastChild[n]
  <2>1. Unlinked(t, this, old, u)
    BY <1>0, UnlinkFields
  <2> QED BY <2>1 DEF Unlinked
<1>2. /\ this \notin S /\ t.prev[old] \notin S /\ t.next[old] \notin S
      /\ \A n \in Nodes \ S : /\ t.parent[n] \notin S
                              /\ t.prev[n] \in S => t.prev[n] = old
                              /\ t.next[n] \in S => t.next[n] = old
                              /\ t.firstChild[n] \in S => t.firstChild[n] = old
                              /\ t.lastChild[n] \in S => t.lastChild[n] = old
  BY Boundary
<1>3. /\ \A m, n \in Nodes : t.next[m] = n <=> t.prev[n] = m
      /\ \A m, n \in Nodes : t.next[m] = n => t.parent[m] = t.parent[n] /\ t.parent[n] # NULL
  BY DEF WellLinked, NeighboursAgree
<1>4. \A p, c \in Nodes :
         /\ t.firstChild[p] = c <=> t.parent[c] = p /\ t.prev[c] = NULL
         /\ t.lastChild[p] = c <=> t.parent[c] = p /\ t.next[c] = NULL
  BY DEF WellLinked, EndsAgree
<1>5. \A n \in Nodes :
        {t.parent[n], t.firstChild[n], t.lastChild[n], t.prev[n], t.next[n]}
            \subseteq (IF n \in t.alive THEN t.alive ELSE {}) \cup {NULL}
  BY DEF WellLinked, NoneDangling
<1>6. \A n \in Nodes \ S :
         {u.parent[n], u.firstChild[n], u.lastChild[n], u.prev[n], u.next[n]}
             \subseteq ((IF n \in t.alive THEN t.alive ELSE {}) \ S) \cup {NULL}
  <2> SUFFICES ASSUME NEW n \in Nodes \ S
               PROVE  {u.parent[n], u.firstChild[n], u.lastChild[n], u.prev[n], u.next[n]}
                          \subseteq ((IF n \in t.alive THEN t.alive ELSE {}) \ S) \cup {NULL}
    OBVIOUS
  <2>1. /\ {t.prev[old], t.next[old]} \subseteq (t.alive \ S) \cup {NULL}
        /\ n \in {t.prev[old], t.next[old], this} => n \in t.alive
    BY <1>0, <1>2, <1>5
  <2>2. u.parent[n] \in ((IF n \in t.alive THEN t.alive ELSE {}) \ S) \cup {NULL}
    BY <1>1, <1>2, <1>5
  <2>3. u.firstChild[n] \in ((IF n \in t.alive THEN t.alive ELSE {}) \ S) \cup {NULL}
    BY <1>0, <1>1, <1>2, <1>4, <1>5, <2>1
  <2>4. u.lastChild[n] \in ((IF n \in t.alive THEN t.alive ELSE {}) \ S) \cup {NULL}
    BY <1>0, <1>1, <1>2, <1>4, <1>5, <2>1
  <2>5. u.prev[n] \in ((IF n \in t.alive THEN t.alive ELSE {}) \ S) \cup {NULL}
    BY <1>0, <1>1, <1>2, <1>3, <1>5, <2>1
  <2>6. u.next[n] \in ((IF n \in t.alive THEN t.alive ELSE {}) \ S) \cup {NULL}
    BY <1>0, <1>1, <1>2, <1>3, <1>5, <2>1
  <2> QED BY <2>2, <2>3, <2>4, <2>5, <2>6
<1>7. \A m, n \in Nodes \ S :
         /\ u.next[m] = n <=> u.prev[n] = m
         /\ u.next[m] = n => u.parent[m] = u.parent[n] /\ u.parent[n] # NULL
  BY <1>0, <1>1, <1>2, <1>3
<1>8. \A p, c \in Nodes \ S :
         /\ u.firstChild[p] = c <=> u.parent[c] = p /\ u.prev[c] = NULL
         /\ u.lastChild[p] = c <=> u.parent[c] = p /\ u.next[c] = NULL
  BY <1>0, <1>1, <1>2, <1>3, <1>4
<1>9. \A T \in SUBSET (u.alive \ S) : T # {} => \E n \in T : u.parent[n] \notin T
  BY <1>1 DEF WellLinked, NoneBelowItself
<1>10. ASSUME NEW T \in SUBSET (u.alive \ S), T # {}
       PROVE  \E n \in T : u.next[n] \notin T
  <2>0. T \in SUBSET t.alive /\ T \cup {old} \in SUBSET t.alive /\ T \subseteq Nodes
    BY <1>0, <1>1
  <2>1. PICK n \in T \cup {old} : t.next[n] \notin T \cup {old}
    BY <2>0 DEF WellLinked, NoneBehindItself
  <2>2. PICK m \in T : t.next[m] \notin T
    BY <2>0, <1>10 DEF WellLinked, NoneBehindItself
  <2>3. CASE n # old
    BY <2>0, <2>1, <2>3, <1>0, <1>1, <1>3
  <2>4. CASE n = old /\ t.prev[old] \in T
    BY <2>0, <2>1, <2>4, <1>0, <1>1, <1>3
  <2>5. CASE n = old /\ t.prev[old] \notin T
    BY <2>0, <2>2, <2>5, <1>0, <1>1, <1>3
  <2> QED BY <2>3, <2>4, <2>5
<1> QED BY <1>1, <1>6, <1>7, <1>8, <1>9, <1>10 DEF CutOff

(* RemoveChild. *)
LEMMA RemoveLinked ==
    ASSUME NEW t, WellLinked(t), NEW this \in t.alive, NEW old \in t.alive,
           t.parent[old] = this
    PROVE  WellLinked(Delete(Unlink(t, this, old), Subtree(t, old)))
    BY SubtreeIs, UnlinkCutsOff, DeleteLinked

(* firstChild = lastChild = 0, one after the other. *)
LEMMA EndsCleared ==
    ASSUME NEW d \in Tree, NEW this \in Nodes
    PROVE  [d EXCEPT !.firstChild[this] = NULL, !.lastChild[this] = NULL] =
           [alive |-> d.alive, parent |-> d.parent,
            firstChild |-> [d.firstChild EXCEPT ![this] = NULL],
            lastChild |-> [d.lastChild EXCEPT ![this] = NULL], prev |-> d.prev, next |-> d.next]
<1> DEFINE e == [d EXCEPT !.firstChild[this] = NULL]
<1>1. e = [alive |-> d.alive, parent |-> d.parent,
           firstChild |-> [d.firstChild EXCEPT ![this] = NULL],
           lastChild |-> d.lastChild, prev |-> d.prev, next |-> d.next]
  BY DEF Tree
<1>2. [d EXCEPT !.firstChild[this] = NULL, !.lastChild[this] = NULL] =
          [e EXCEPT !.lastChild[this] = NULL]
  OBVIOUS
<1> HIDE DEF e
<1>3. [e EXCEPT !.lastChild[this] = NULL] =
          [alive |-> e.alive, parent |-> e.parent, firstChild |-> e.firstChild,
           lastChild |-> [e.lastChild EXCEPT ![this] = NULL], prev |-> e.prev, next |-> e.next]
  BY <1>1
<1> QED BY <1>1, <1>2, <1>3

(* Clear: without its ends, a node's children are cut off. *)
LEMMA ClearLinked ==
    ASSUME NEW t, WellLinked(t), NEW this \in t.alive
    PROVE  WellLinked([Delete(t, Subtree(t, this) \ {this})
                          EXCEPT !.firstChild[this] = NULL, !.lastChild[this] = NULL])
<1> DEFINE S == Subtree(t, this)
           B == S \ {this}
           d == Delete(t, B)
           c == [t EXCEPT !.firstChild[this] = NULL, !.lastChild[this] = NULL]
<1>0. /\ t \in Tree /\ t.alive \subseteq Nodes /\ this \in Nodes
      /\ NULL \notin Nodes /\ IsSubtree(t, this, S) /\ this \notin B
  BY Fields, TreeAssumption, SubtreeIs DEF WellLinked
<1>1. /\ S \subseteq t.alive /\ this \in S
      /\ \A n \in Nodes : t.parent[n] \in S => n \in S
      /\ \A n \in S : n # this => t.parent[n] \in S
  BY <1>0 DEF IsSubtree
<1>2. /\ c \in Tree /\ c.alive = t.alive /\ c.parent = t.parent
      /\ c.prev = t.prev /\ c.next = t.next
      /\ c.firstChild \in Pointers /\ c.lastChild \in Pointers
      /\ \A n \in Nodes :
             /\ c.firstChild[n] = IF n = this THEN NULL ELSE t.firstChild[n]
             /\ c.lastChild[n] = IF n = this THEN NULL ELSE t.lastChild[n]
  BY <1>0 DEF Tree, Pointers
<1>3. [d EXCEPT !.firstChild[this] = NULL, !.lastChild[this] = NULL] = Delete(c, B)
  <2> DEFINE Kept(pointers) == [n \in Nodes |-> IF n \in B THEN NULL ELSE pointers[n]]
  <2>1. /\ [Kept(t.firstChild) EXCEPT ![this] = NULL] = Kept(c.firstChild)
        /\ [Kept(t.lastChild) EXCEPT ![this] = NULL] = Kept(c.lastChild)
    <3> HIDE DEF B, c
    <3> QED BY <1>0, <1>2
  <2>2. d = [alive |-> t.alive \ B, parent |-> Kept(t.parent),
             firstChild |-> Kept(t.firstChild), lastChild |-> Kept(t.lastChild),
             prev |-> Kept(t.prev), next |-> Kept(t.next)]
    BY DEF Delete
  <2>3. Delete(c, B) = [alive |-> t.alive \ B, parent |-> Kept(t.parent),
                        firstChild |-> Kept(c.firstChild), lastChild |-> Kept(c.lastChild),
                        prev |-> Kept(t.prev), next |-> Kept(t.next)]
    BY <1>2 DEF Delete
  <2> HIDE DEF Kept, d, c, B
  <2>4. d \in Tree
    BY <1>0, DeleteFields DEF d
  <2>5. [d EXCEPT !.firstChild[this] = NULL, !.lastChild[this] = NULL] =
            [alive |-> d.alive, parent |-> d.parent,
             firstChild |-> [d.firstChild EXCEPT ![this] = NULL],
             lastChild |-> [d.lastChild EXCEPT ![this] = NULL],
             prev |-> d.prev, next |-> d.next]
    BY <1>0, <2>4, EndsCleared
  <2> QED BY <2>1, <2>2, <2>3, <2>5
<1> HIDE DEF c, S, d
<1>4. /\ t.parent[this] \notin S /\ t.prev[this] \notin S /\ t.next[this] \notin S
      /\ \A n \in Nodes \ S : /\ t.parent[n] \notin S
                              /\ t.prev[n] \in S => t.prev[n] = this
                              /\ t.next[n] \in S => t.next[n] = this
                              /\ t.firstChild[n] \in S => t.firstChild[n] = this
                              /\ t.lastChild[n] \in S => t.lastChild[n] = this
  BY <1>0, Boundary
<1>5. \A n \in Nodes \ B :
         {c.parent[n], c.firstChild[n], c.lastChild[n], c.prev[n], c.next[n]}
             \subseteq ((IF n \in c.alive THEN c.alive ELSE {}) \ B) \cup {NULL}
  <2>1. \A n \in Nodes :
          {t.parent[n], t.firstChild[n], t.lastChild[n], t.prev[n], t.next[n]}
              \subseteq (IF n \in t.alive THEN t.alive ELSE {}) \cup {NULL}
    BY DEF WellLinked, NoneDangling
  <2>2. ASSUME NEW n \in Nodes \ B
        PROVE  /\ c.parent[n] \notin B /\ c.prev[n] \notin B /\ c.next[n] \notin B
               /\ c.firstChild[n] \notin B /\ c.lastChild[n] \notin B
    <3>1. CASE n = this
      BY <1>0, <1>1, <1>2, <1>4, <3>1
    <3>2. CASE n \in Nodes \ S
      BY <1>0, <1>1, <1>2, <1>4, <3>2
    <3> QED BY <3>1, <3>2
  <2> QED BY <1>0, <1>2, <2>1, <2>2
<1>6. \A m, n \in Nodes \ B :
         /\ c.next[m] = n <=> c.prev[n] = m
         /\ c.next[m] = n => c.parent[m] = c.parent[n] /\ c.parent[n] # NULL
  BY <1>2 DEF WellLinked, NeighboursAgree
<1>7. \A p, n \in Nodes \ B :
         /\ c.firstChild[p] = n <=> c.parent[n] = p /\ c.prev[n] = NULL
         /\ c.lastChild[p] = n <=> c.parent[n] = p /\ c.next[n] = NULL
  <2>1. \A p, n \in Nodes :
           /\ t.firstChild[p] = n <=> t.parent[n] = p /\ t.prev[n] = NULL
           /\ t.lastChild[p] = n <=> t.parent[n] = p /\ t.next[n] = NULL
    BY DEF WellLinked, EndsAgree
  <2>2. \A n \in Nodes \ B : t.parent[n] # this
    BY <1>1, <1>4
  <2> QED BY <1>0, <1>2, <2>1, <2>2
<1>8. \A T \in SUBSET (c.alive \ B) : T # {} => \E n \in T : c.parent[n] \notin T
  BY <1>2 DEF WellLinked, NoneBelowItself
<1>9. \A T \in SUBSET (c.alive \ B) : T # {} => \E n \in T : c.next[n] \notin T
  BY <1>2 DEF WellLinked, NoneBehindItself
<1>10. CutOff(c, B)
  BY <1>2, <1>5, <1>6, <1>7, <1>8, <1>9 DEF CutOff
<1>11. WellLinked([d EXCEPT !.firstChild[this] = NULL, !.lastChild[this] = NULL])
  BY <1>3, <1>10, DeleteLinked
<1> QED BY <1>11 DEF d, S
-----------------------------------------------------------------------------
(* node has become a child of this between a and b (either may be NULL). *)
Inserted(t, this, a, b, node, u) ==
    /\ u \in Tree /\ u.alive = t.alive
    /\ \A n \in Nodes :
           /\ u.parent[n] = IF n = node THEN this ELSE t.parent[n]
           /\ u.prev[n] = IF n = node THEN a ELSE IF n = b THEN node ELSE t.prev[n]
           /\ u.next[n] = IF n = node THEN b ELSE IF n = a THEN node ELSE t.next[n]
           /\ u.firstChild[n] = IF a = NULL /\ n = this THEN node ELSE t.firstChild[n]
           /\ u.lastChild[n] = IF b = NULL /\ n = this THEN node ELSE t.lastChild[n]

(* a and b are neighbours among the children of this. *)
Gap(t, this, a, b) ==
    /\ a \in Nodes \cup {NULL} /\ b \in Nodes \cup {NULL}
    /\ IF a # NULL THEN t.parent[a] = this /\ t.next[a] = b ELSE t.firstChild[this] = b
    /\ IF b # NULL THEN t.parent[b] = this /\ t.prev[b] = a ELSE t.lastChild[this] = a

(* node is linked to nothing but what is below it. *)
Loose(t, node, N) ==
    /\ IsSubtree(t, node, N)
    /\ t.parent[node] = NULL /\ t.prev[node] = NULL /\ t.next[node] = NULL

(* The heart of the three inserts and of ReplaceChild.  this must not be below node: the
   nodes not below node then hold one whose parent is outside any given set. *)
LEMMA InsertedLinked ==
    ASSUME NEW t, WellLinked(t), NEW this \in t.alive, NEW a, NEW b, NEW node, NEW N, NEW u,
           Gap(t, this, a, b), Loose(t, node, N), this \notin N,
           Inserted(t, this, a, b, node, u)
    PROVE  WellLinked(u)
<1>0. /\ t.alive \subseteq Nodes /\ this \in Nodes /\ NULL \notin Nodes
      /\ node \in t.alive /\ node \in N /\ N \subseteq t.alive
      /\ t.parent[node] = NULL /\ t.prev[node] = NULL /\ t.next[node] = NULL
      /\ \A n \in Nodes : t.parent[n] \in N => n \in N
      /\ a \in Nodes \cup {NULL} /\ b \in Nodes \cup {NULL}
  BY Fields, TreeAssumption DEF WellLinked, Loose, IsSubtree, Gap
<1>1. /\ u \in Tree /\ u.alive = t.alive
      /\ \A n \in Nodes :
             /\ u.parent[n] = IF n = node THEN this ELSE t.parent[n]
             /\ u.prev[n] = IF n = node THEN a ELSE IF n = b THEN node ELSE t.prev[n]
             /\ u.next[n] = IF n = node THEN b ELSE IF n = a THEN node ELSE t.next[n]
             /\ u.firstChild[n] = IF a = NULL /\ n = this THEN node ELSE t.firstChild[n]
             /\ u.lastChild[n] = IF b = NULL /\ n = this THEN node ELSE t.lastChild[n]
  BY DEF Inserted
<1>2. /\ a # NULL => t.parent[a] = this /\ t.next[a] = b
      /\ a = NULL => t.firstChild[this] = b
      /\ b # NULL => t.parent[b] = this /\ t.prev[b] = a
      /\ b = NULL => t.lastChild[this] = a
  BY DEF Gap
<1>3. /\ \A m, n \in Nodes : t.next[m] = n <=> t.prev[n] = m
      /\ \A m, n \in Nodes : t.next[m] = n => t.parent[m] = t.parent[n] /\ t.parent[n] # NULL
  BY DEF WellLinked, NeighboursAgree
<1>4. \A p, c \in Nodes :
         /\ t.firstChild[p] = c <=> t.parent[c] = p /\ t.prev[c] = NULL
         /\ t.lastChild[p] = c <=> t.parent[c] = p /\ t.next[c] = NULL
  BY DEF WellLinked, EndsAgree
<1>5. \A n \in Nodes :
         /\ n \notin t.alive => /\ t.parent[n] = NULL
                              /\ t.firstChild[n] = NULL /\ t.lastChild[n] = NULL
                              /\ t.prev[n] = NULL /\ t.next[n] = NULL
         /\ {t.parent[n], t.firstChild[n], t.lastChild[n], t.prev[n], t.next[n]}
                 \subseteq t.alive \cup {NULL}
  BY DEF WellLinked, NoneDangling
<1>6. /\ a # node /\ b # node /\ this # node
      /\ a \in t.alive \cup {NULL} /\ b \in t.alive \cup {NULL}
      /\ a # b \/ a = NULL
  <2>1. {a} \in SUBSET t.alive => t.next[a] # a \/ a = NULL
    BY DEF WellLinked, NoneBehindItself
  <2>2. a # node /\ b # node /\ this # node
    BY <1>0, <1>2
  <2>3. a \in t.alive \cup {NULL} /\ b \in t.alive \cup {NULL}
    BY <1>0, <1>2, <1>5
  <2> QED BY <1>0, <1>2, <2>1, <2>2, <2>3
<1>7. NoneDangling(u)
  <2> SUFFICES ASSUME NEW n \in Nodes
               PROVE  {u.parent[n], u.firstChild[n], u.lastChild[n], u.prev[n], u.next[n]}
                          \subseteq (IF n \in u.alive THEN u.alive ELSE {}) \cup {NULL}
    BY DEF NoneDangling
  <2>1. CASE n \in t.alive
    BY <1>0, <1>1, <1>5, <1>6, <2>1
  <2>2. CASE n \notin t.alive
    BY <1>0, <1>1, <1>5, <1>6, <2>2
  <2> QED BY <2>1, <2>2
<1>8. NeighboursAgree(u)
  <2>1. \A m, n \in Nodes : u.next[m] = n <=> u.prev[n] = m
    BY <1>0, <1>1, <1>2, <1>3, <1>6
  <2>2. \A m, n \in Nodes : u.next[m] = n => u.parent[m] = u.parent[n] /\ u.parent[n] # NULL
    BY <1>0, <1>1, <1>2, <1>3, <1>6
  <2> QED BY <2>1, <2>2 DEF NeighboursAgree
<1>9. EndsAgree(u)
  <2>1. \A p, c \in Nodes : u.firstChild[p] = c <=> u.parent[c] = p /\ u.prev[c] = NULL
    BY <1>0, <1>1, <1>2, <1>3, <1>4, <1>6
  <2>2. \A p, c \in Nodes : u.lastChild[p] = c <=> u.parent[c] = p /\ u.next[c] = NULL
    BY <1>0, <1>1, <1>2, <1>3, <1>4, <1>6
  <2> QED BY <2>1, <2>2 DEF EndsAgree
<1>10. NoneBelowItself(u)
  <2> SUFFICES ASSUME NEW S \in SUBSET t.alive, S # {}
               PROVE  \E n \in S : u.parent[n] \notin S
    BY <1>1 DEF NoneBelowItself
  <2>1. CASE node \notin S
    <3>1. PICK n \in S : t.parent[n] \notin S
      BY DEF WellLinked, NoneBelowItself
    <3> QED BY <1>0, <1>1, <2>1, <3>1
  <2>2. CASE node \in S /\ this \notin S
    BY <1>0, <1>1, <2>2
  <2>3. CASE node \in S /\ this \in S
    <3>1. S \ N \in SUBSET t.alive /\ S \ N # {}
      BY <2>3
    <3>2. PICK n \in S \ N : t.parent[n] \notin S \ N
      BY <3>1 DEF WellLinked, NoneBelowItself
    <3> QED BY <1>0, <1>1, <3>2
  <2> QED BY <2>1, <2>2, <2>3
<1>11. NoneBehindItself(u)
  <2> SUFFICES ASSUME NEW S \in SUBSET t.alive, S # {}
               PROVE  \E n \in S : u.next[n] \notin S
    BY <1>1 DEF NoneBehindItself
  <2>1. CASE S = {node}
    BY <1>0, <1>1, <1>6, <2>1
  <2>2. CASE S # {node}
    <3>1. S \ {node} \in SUBSET t.alive /\ S \ {node} # {}
      BY <2>2
    <3>2. PICK n \in S \ {node} : t.next[n] \notin S \ {node}
      BY <3>1 DEF WellLinked, NoneBehindItself
    <3>3. n \in Nodes /\ t.next[n] \notin S
      BY <1>0, <1>3, <3>2
    <3>4. CASE n # a
      BY <1>0, <1>1, <3>2, <3>3, <3>4
    <3>5. CASE n = a /\ node \in S
      BY <1>0, <1>1, <1>2, <3>2, <3>3, <3>5
    <3>6. CASE n = a /\ node \notin S
      BY <1>0, <1>1, <3>2, <3>6
    <3> QED BY <3>4, <3>5, <3>6
  <2> QED BY <2>1, <2>2
<1> QED BY <1>1, <1>7, <1>8, <1>9, <1>10, <1>11 DEF WellLinked

(* LinkEndChild inserts between lastChild and NULL. *)
LEMMA EndChildInserted ==
    ASSUME NEW t \in Tree, NEW this \in Nodes, NEW node \in Nodes,
           NEW a \in Nodes \cup {NULL}, a = t.lastChild[this], a # node
    PROVE  Inserted(t, this, a, NULL, node, LinkEndChild(t, this, node))
<1> SUFFICES ASSUME NEW u, u = LinkEndChild(t, this, node)
             PROVE  Inserted(t, this, a, NULL, node, u)
  OBVIOUS
<1> DEFINE linked == [t EXCEPT !.parent[node] = this, !.prev[node] = a, !.next[node] = NULL,
                               !.lastChild[this] = node]
<1>0. NULL \notin Nodes
  BY TreeAssumption
<1>1. /\ linked \in Tree /\ linked.alive = t.alive
      /\ \A n \in Nodes :
             /\ linked.parent[n] = IF n = node THEN this ELSE t.parent[n]
             /\ linked.prev[n] = IF n = node THEN a ELSE t.prev[n]
             /\ linked.next[n] = IF n = node THEN NULL ELSE t.next[n]
             /\ linked.lastChild[n] = IF n = this THEN node ELSE t.lastChild[n]
             /\ linked.firstChild[n] = t.firstChild[n]
  BY DEF Tree, Pointers
<1>2. /\ a # NULL => u = [linked EXCEPT !.next[a] = node]
      /\ a = NULL => u = [linked EXCEPT !.firstChild[this] = node]
  BY DEF LinkEndChild
<1> HIDE DEF linked
<1>3. CASE a # NULL
  <2>1. /\ u \in Tree /\ u.alive = t.alive /\ u.parent = linked.parent /\ u.prev = linked.prev
        /\ u.firstChild = linked.firstChild /\ u.lastChild = linked.lastChild
        /\ \A n \in Nodes : u.next[n] = IF n = a THEN node ELSE linked.next[n]
    BY <1>1, <1>2, <1>3 DEF Tree, Pointers
  <2> QED BY <1>0, <1>1, <1>3, <2>1 DEF Inserted
<1>4. CASE a = NULL
  <2>1. /\ u \in Tree /\ u.alive = t.alive /\ u.parent = linked.parent /\ u.prev = linked.prev
        /\ u.next = linked.next /\ u.lastChild = linked.lastChild
        /\ \A n \in Nodes : u.firstChild[n] = IF n = this THEN node ELSE linked.firstChild[n]
    BY <1>1, <1>2, <1>4 DEF Tree, Pointers
  <2> QED BY <1>0, <1>1, <1>4, <2>1 DEF Inserted
<1> QED BY <1>3, <1>4

(* LinkBefore inserts between the previous sibling and beforeThis. *)
LEMMA BeforeInserted ==
    ASSUME NEW t \in Tree, NEW this \in Nodes, NEW node \in Nodes, NEW b \in Nodes,
           NEW a \in Nodes \cup {NULL}, a = t.prev[b], a # node, b # node, a # b
    PROVE  Inserted(t, this, a, b, node, LinkBefore(t, this, b, node))
<1> SUFFICES ASSUME NEW u, u = LinkBefore(t, this, b, node)
             PROVE  Inserted(t, this, a, b, node, u)
  OBVIOUS
<1> DEFINE linked == [t EXCEPT !.parent[node] = this, !.next[node] = b,
                               !.prev[node] = a, !.prev[b] = node]
<1>0. NULL \notin Nodes
  BY TreeAssumption
<1>1. /\ linked \in Tree /\ linked.alive = t.alive
      /\ \A n \in Nodes :
             /\ linked.parent[n] = IF n = node THEN this ELSE t.parent[n]
             /\ linked.prev[n] = IF n = node THEN a ELSE IF n = b THEN node ELSE t.prev[n]
             /\ linked.next[n] = IF n = node THEN b ELSE t.next[n]
             /\ linked.lastChild[n] = t.lastChild[n]
             /\ linked.firstChild[n] = t.firstChild[n]
  BY DEF Tree, Pointers
<1>2. /\ a # NULL => u = [linked EXCEPT !.next[a] = node]
      /\ a = NULL => u = [linked EXCEPT !.firstChild[this] = node]
  BY DEF LinkBefore
<1> HIDE DEF linked
<1>3. CASE a # NULL
  <2>1. /\ u \in Tree /\ u.alive = t.alive /\ u.parent = linked.parent /\ u.prev = linked.prev
        /\ u.firstChild = linked.firstChild /\ u.lastChild = linked.lastChild
        /\ \A n \in Nodes : u.next[n] = IF n = a THEN node ELSE linked.next[n]
    BY <1>1, <1>2, <1>3 DEF Tree, Pointers
  <2> QED BY <1>0, <1>1, <1>3, <2>1 DEF Inserted
<1>4. CASE a = NULL
  <2>1. /\ u \in Tree /\ u.alive = t.alive /\ u.parent = linked.parent /\ u.prev = linked.prev
        /\ u.next = linked.next /\ u.lastChild = linked.lastChild
        /\ \A n \in Nodes : u.firstChild[n] = IF n = this THEN node ELSE linked.firstChild[n]
    BY <1>1, <1>2, <1>4 DEF Tree, Pointers
  <2> QED BY <1>0, <1>1, <1>4, <2>1 DEF Inserted
<1> QED BY <1>3, <1>4

(* LinkAfter inserts between afterThis and the next sibling. *)
LEMMA AfterInserted ==
    ASSUME NEW t \in Tree, NEW this \in Nodes, NEW node \in Nodes, NEW a \in Nodes,
           NEW b \in Nodes \cup {NULL}, b = t.next[a], a # node, b # node, a # b
    PROVE  Inserted(t, this, a, b, node, LinkAfter(t, this, a, node))
<1> SUFFICES ASSUME NEW u, u = LinkAfter(t, this, a, node)
             PROVE  Inserted(t, this, a, b, node, u)
  OBVIOUS
<1> DEFINE linked == [t EXCEPT !.parent[node] = this, !.prev[node] = a,
                               !.next[node] = b, !.next[a] = node]
<1>0. NULL \notin Nodes
  BY TreeAssumption
<1>1. /\ linked \in Tree /\ linked.alive = t.alive
      /\ \A n \in Nodes :
             /\ linked.parent[n] = IF n = node THEN this ELSE t.parent[n]
             /\ linked.prev[n] = IF n = node THEN a ELSE t.prev[n]
             /\ linked.next[n] = IF n = node THEN b ELSE IF n = a THEN node ELSE t.next[n]
             /\ linked.lastChild[n] = t.lastChild[n]
             /\ linked.firstChild[n] = t.firstChild[n]
  BY DEF Tree, Pointers
<1>2. /\ b # NULL => u = [linked EXCEPT !.prev[b] = node]
      /\ b = NULL => u = [linked EXCEPT !.lastChild[this] = node]
  BY DEF LinkAfter
<1> HIDE DEF linked
<1>3. CASE b # NULL
  <2>1. /\ u \in Tree /\ u.alive = t.alive /\ u.parent = linked.parent /\ u.next = linked.next
        /\ u.firstChild = linked.firstChild /\ u.lastChild = linked.lastChild
        /\ \A n \in Nodes : u.prev[n] = IF n = b THEN node ELSE linked.prev[n]
    BY <1>1, <1>2, <1>3 DEF Tree, Pointers
  <2> QED BY <1>0, <1>1, <1>3, <2>1 DEF Inserted
<1>4. CASE b = NULL
  <2>1. /\ u \in Tree /\ u.alive = t.alive /\ u.parent = linked.parent /\ u.prev = linked.prev
        /\ u.next = linked.next /\ u.firstChild = linked.firstChild
        /\ \A n \in Nodes : u.lastChild[n] = IF n = this THEN node ELSE linked.lastChild[n]
    BY <1>1, <1>2, <1>4 DEF Tree, Pointers
  <2> QED BY <1>0, <1>1, <1>4, <2>1 DEF Inserted
<1> QED BY <1>3, <1>4

(* The assignments of ReplaceChild, node by node: old still points to its neighbours. *)
Substituted(t, this, old, node, u) ==
    /\ u \in Tree /\ u.alive = t.alive
    /\ \A n \in Nodes :
           /\ u.parent[n] = IF n = node THEN this ELSE t.parent[n]
           /\ u.prev[n] = IF n = node THEN t.prev[old]
                          ELSE IF n = t.next[old] THEN node ELSE t.prev[n]
           /\ u.next[n] = IF n = node THEN t.next[old]
                          ELSE IF n = t.prev[old] THEN node ELSE t.next[n]
           /\ u.firstChild[n] = IF t.prev[old] = NULL /\ n = this THEN node ELSE t.firstChild[n]
           /\ u.lastChild[n] = IF t.next[old] = NULL /\ n = this THEN node ELSE t.lastChild[n]

(* Substitute does what Substituted says. *)
LEMMA SubstituteFields ==
    ASSUME NEW t \in Tree, NEW this \in Nodes, NEW node \in Nodes, NEW old \in Nodes,
           t.prev[old] # node, t.next[old] # node
    PROVE  Substituted(t, this, old, node, Substitute(t, this, old, node))
<1> SUFFICES ASSUME NEW u, u = Substitute(t, this, old, node)
             PROVE  Substituted(t, this, old, node, u)
  OBVIOUS
<1> DEFINE linked == [t EXCEPT !.parent[node] = this, !.next[node] = t.next[old],
                               !.prev[node] = t.prev[old]]
           mended == IF t.next[old] # NULL
                     THEN [linked EXCEPT !.prev[t.next[old]] = node]
                     ELSE [linked EXCEPT !.lastChild[this] = node]
<1>0. /\ NULL \notin Nodes
      /\ t.prev[old] \in Nodes \cup {NULL} /\ t.next[old] \in Nodes \cup {NULL}
  BY TreeAssumption, Fields DEF Pointers
<1>1. /\ linked \in Tree /\ linked.alive = t.alive
      /\ \A n \in Nodes :
             /\ linked.parent[n] = IF n = node THEN this ELSE t.parent[n]
             /\ linked.prev[n] = IF n = node THEN t.prev[old] ELSE t.prev[n]
             /\ linked.next[n] = IF n = node THEN t.next[old] ELSE t.next[n]
             /\ linked.lastChild[n] = t.lastChild[n]
             /\ linked.firstChild[n] = t.firstChild[n]
  BY <1>0 DEF Tree, Pointers
<1> HIDE DEF linked
<1>2. /\ mended \in Tree /\ mended.alive = t.alive
      /\ mended.parent = linked.parent /\ mended.next = linked.next
      /\ mended.firstChild = linked.firstChild
  BY <1>0, <1>1 DEF Tree, Pointers
<1>3. \A n \in Nodes :
         /\ mended.prev[n] = IF n = t.next[old] THEN node ELSE linked.prev[n]
         /\ mended.lastChild[n] = IF t.next[old] = NULL /\ n = this
                                  THEN node ELSE linked.lastChild[n]
  <2>1. CASE t.next[old] # NULL
    BY <1>0, <1>1, <2>1 DEF Tree, Pointers
  <2>2. CASE t.next[old] = NULL
    BY <1>0, <1>1, <2>2 DEF Tree, Pointers
  <2> QED BY <2>1, <2>2
<1>4. /\ t.prev[old] # NULL => u = [mended EXCEPT !.next[t.prev[old]] = node]
      /\ t.prev[old] = NULL => u = [mended EXCEPT !.firstChild[this] = node]
  BY DEF Substitute, linked
<1> HIDE DEF mended
<1>5. /\ u \in Tree /\ u.alive = t.alive /\ u.parent = mended.parent
      /\ u.prev = mended.prev /\ u.lastChild = mended.lastChild
  BY <1>0, <1>2, <1>4 DEF Tree, Pointers
<1>6. \A n \in Nodes :
         /\ u.next[n] = IF n = t.prev[old] THEN node ELSE mended.next[n]
         /\ u.firstChild[n] = IF t.prev[old] = NULL /\ n = this
                              THEN node ELSE mended.firstChild[n]
  <2>1. CASE t.prev[old] # NULL
    BY <1>0, <1>2, <1>4, <2>1 DEF Tree, Pointers
  <2>2. CASE t.prev[old] = NULL
    BY <1>0, <1>2, <1>4, <2>2 DEF Tree, Pointers
  <2> QED BY <2>1, <2>2
<1> QED BY <1>1, <1>2, <1>3, <1>5, <1>6 DEF Substituted

(* Once the replaced node is deleted, it is as if it had been removed first (d), and the
   new one inserted where it was (w). *)
LEMMA ReplacedLinked ==
    ASSUME NEW t, WellLinked(t), NEW this \in t.alive, NEW old \in t.alive,
           t.parent[old] = this, NEW S, IsSubtree(t, old, S),
           NEW node, NEW N, Loose(t, node, N), this \notin N, S \cap N = {}
    PROVE  WellLinked(Delete(Substitute(t, this, old, node), S))
<1> DEFINE a == t.prev[old]
           b == t.next[old]
<1> SUFFICES ASSUME NEW u, u = Unlink(t, this, old), NEW d, d = Delete(u, S),
                    NEW v, v = Substitute(t, this, old, node), NEW w, w = Delete(v, S)
             PROVE  WellLinked(w)
  OBVIOUS
<1>0. /\ t \in Tree /\ t.alive \subseteq Nodes /\ this \in Nodes /\ old \in Nodes
      /\ node \in Nodes /\ node \in N /\ N \subseteq t.alive /\ old \in S
      /\ t.parent[node] = NULL /\ t.prev[node] = NULL /\ t.next[node] = NULL
      /\ a \in Nodes \cup {NULL} /\ b \in Nodes \cup {NULL} /\ NULL \notin Nodes
      /\ \A n \in Nodes : t.parent[n] \in N => n \in N
      /\ \A n \in N : n # node => t.parent[n] \in N
  BY Fields, TreeAssumption DEF WellLinked, IsSubtree, Loose, Pointers
<1>1. /\ \A m, n \in Nodes : t.next[m] = n <=> t.prev[n] = m
      /\ \A m, n \in Nodes : t.next[m] = n => t.parent[m] = t.parent[n] /\ t.parent[n] # NULL
  BY DEF WellLinked, NeighboursAgree
<1>2. /\ this \notin S /\ a \notin S /\ b \notin S /\ node \notin S
      /\ a # node /\ b # node /\ this # node
      /\ a # NULL => t.parent[a] = this
      /\ b # NULL => t.parent[b] = this
  BY <1>0, <1>1, Boundary
<1>3. WellLinked(d)
  BY UnlinkCutsOff, DeleteLinked
<1>4. Unlinked(t, this, old, u) /\ Substituted(t, this, old, node, v)
  BY <1>0, <1>2, UnlinkFields, SubstituteFields
<1>5. /\ d \in Tree /\ d.alive = t.alive \ S
      /\ \A n \in S \cap Nodes :
             /\ d.parent[n] = NULL /\ d.firstChild[n] = NULL /\ d.lastChild[n] = NULL
             /\ d.prev[n] = NULL /\ d.next[n] = NULL
      /\ \A n \in Nodes \ S :
             /\ d.parent[n] = t.parent[n]
             /\ d.firstChild[n] = u.firstChild[n] /\ d.lastChild[n] = u.lastChild[n]
             /\ d.prev[n] = u.prev[n] /\ d.next[n] = u.next[n]
  <2>1. u \in Tree /\ u.alive = t.alive /\ u.parent = t.parent
    BY <1>4 DEF Unlinked
  <2> QED BY <2>1, DeleteFields
<1>6. /\ w \in Tree /\ w.alive = t.alive \ S
      /\ \A n \in S \cap Nodes :
             /\ w.parent[n] = NULL /\ w.firstChild[n] = NULL /\ w.lastChild[n] = NULL
             /\ w.prev[n] = NULL /\ w.next[n] = NULL
      /\ \A n \in Nodes \ S :
             /\ w.parent[n] = v.parent[n]
             /\ w.firstChild[n] = v.firstChild[n] /\ w.lastChild[n] = v.lastChild[n]
             /\ w.prev[n] = v.prev[n] /\ w.next[n] = v.next[n]
  <2>1. v \in Tree /\ v.alive = t.alive
    BY <1>4 DEF Substituted
  <2> QED BY <2>1, DeleteFields
<1>7. \A n \in Nodes :
         /\ u.prev[n] = IF n = b THEN a ELSE t.prev[n]
         /\ u.next[n] = IF n = a THEN b ELSE t.next[n]
         /\ u.firstChild[n] = IF a = NULL /\ n = this THEN b ELSE t.firstChild[n]
         /\ u.lastChild[n] = IF b = NULL /\ n = this THEN a ELSE t.lastChild[n]
  BY <1>4 DEF Unlinked
<1>8. \A n \in Nodes :
         /\ v.parent[n] = IF n = node THEN this ELSE t.parent[n]
         /\ v.prev[n] = IF n = node THEN a ELSE IF n = b THEN node ELSE t.prev[n]
         /\ v.next[n] = IF n = node THEN b ELSE IF n = a THEN node ELSE t.next[n]
         /\ v.firstChild[n] = IF a = NULL /\ n = this THEN node ELSE t.firstChild[n]
         /\ v.lastChild[n] = IF b = NULL /\ n = this THEN node ELSE t.lastChild[n]
  BY <1>4 DEF Substituted
<1> HIDE DEF a, b
<1>9. Gap(d, this, a, b)
  BY <1>0, <1>2, <1>5, <1>7 DEF Gap
<1>10. Loose(d, node, N)
  <2>1. /\ d.parent[node] = NULL /\ d.prev[node] = NULL /\ d.next[node] = NULL
    BY <1>0, <1>2, <1>5, <1>7
  <2>2. \A n \in Nodes : d.parent[n] \in N => n \in N
    BY <1>0, <1>5
  <2>3. N \subseteq d.alive /\ \A n \in N : n # node => d.parent[n] \in N
    BY <1>0, <1>5
  <2> QED BY <1>0, <2>1, <2>2, <2>3 DEF Loose, IsSubtree
<1>11. Inserted(d, this, a, b, node, w)
  <2> SUFFICES ASSUME NEW n \in Nodes
               PROVE  /\ w.parent[n] = IF n = node THEN this ELSE d.parent[n]
                      /\ w.prev[n] = IF n = node THEN a ELSE IF n = b THEN node ELSE d.prev[n]
                      /\ w.next[n] = IF n = node THEN b ELSE IF n = a THEN node ELSE d.next[n]
                      /\ w.firstChild[n] = IF a = NULL /\ n = this THEN node ELSE d.firstChild[n]
                      /\ w.lastChild[n] = IF b = NULL /\ n = this THEN node ELSE d.lastChild[n]
    BY <1>5, <1>6 DEF Inserted
  <2>1. CASE n \in S
    BY <1>0, <1>2, <1>5, <1>6, <2>1
  <2>2. CASE n \notin S
    BY <1>0, <1>2, <1>5, <1>6, <1>7, <1>8, <2>2
  <2> QED BY <2>1, <2>2
<1> QED
  <2>1. this \in d.alive
    BY <1>2, <1>5
  <2> QED BY <1>3, <1>9, <1>10, <1>11, <2>1, InsertedLinked
-----------------------------------------------------------------------------
(* Where the copy of m is; what is outside S has none. *)
There(at, S, m) == IF m \in S THEN at[m] ELSE NULL

(* What Clone makes of each pointer, without its CHOOSE. *)
Cloned(t, x, S, at, c) ==
    /\ at \in [S -> Nodes \ t.alive] /\ \A m, n \in S : at[m] = at[n] => m = n
    /\ c \in Tree
    /\ c.alive = t.alive \cup {at[m] : m \in S}
    /\ \A n \in Nodes \ {at[m] : m \in S} :
           /\ c.parent[n] = t.parent[n]
           /\ c.firstChild[n] = t.firstChild[n] /\ c.lastChild[n] = t.lastChild[n]
           /\ c.prev[n] = t.prev[n] /\ c.next[n] = t.next[n]
    /\ \A m \in S, n \in Nodes : n = at[m] =>
           /\ c.firstChild[n] = There(at, S, t.firstChild[m])
           /\ c.lastChild[n] = There(at, S, t.lastChild[m])
           /\ m # x => /\ c.parent[n] = There(at, S, t.parent[m])
                       /\ c.prev[n] = There(at, S, t.prev[m])
                       /\ c.next[n] = There(at, S, t.next[m])
           /\ m = x => c.parent[n] = NULL /\ c.prev[n] = NULL /\ c.next[n] = NULL

(* Clone does what Cloned says: no two nodes are copied to one place. *)
LEMMA CloneFields ==
    ASSUME NEW t \in Tree, NEW x \in Nodes, NEW at \in Places(t, x), x \in Subtree(t, x)
    PROVE  Cloned(t, x, Subtree(t, x), at, Clone(t, x, at))
<1> DEFINE S == Subtree(t, x)
           New == {at[m] : m \in S}
           Old(n) == CHOOSE m \in DOMAIN at : at[m] = n
           IsNew(n) == \E m \in DOMAIN at : at[m] = n
           Copied(pointers) ==
               [n \in Nodes |-> IF IsNew(n)
                                THEN IF pointers[Old(n)] \in DOMAIN at
                                     THEN at[pointers[Old(n)]] ELSE NULL
                                ELSE pointers[n]]
           Loosed(pointers) == [Copied(pointers) EXCEPT ![at[x]] = NULL]
           c == Clone(t, x, at)
<1>0. t.alive \subseteq Nodes /\ S \subseteq t.alive
  BY Fields DEF Subtree
<1>1. /\ at \in [S -> Nodes \ t.alive] /\ DOMAIN at = S
      /\ \A m, n \in S : at[m] = at[n] => m = n
  BY DEF Places
<1> HIDE DEF S
<1>2. /\ \A m \in S : IsNew(at[m]) /\ Old(at[m]) = m
      /\ \A n \in Nodes \ New : ~IsNew(n)
      /\ New \subseteq Nodes
  BY <1>1
<1>3. \A m : There(at, S, m) \in Nodes \cup {NULL}
  BY <1>1 DEF There
<1>4. ASSUME NEW pointers \in Pointers
      PROVE  /\ Copied(pointers) \in Pointers
             /\ \A n \in Nodes \ New : Copied(pointers)[n] = pointers[n]
             /\ \A m \in S : Copied(pointers)[at[m]] = There(at, S, pointers[m])
  <2>1. \A n \in Nodes : Copied(pointers)[n] = IF IsNew(n) THEN There(at, S, pointers[Old(n)])
                                               ELSE pointers[n]
    BY <1>1 DEF There
  <2>2. Copied(pointers) = [n \in Nodes |-> Copied(pointers)[n]]
    OBVIOUS
  <2> HIDE DEF Copied, IsNew, Old
  <2>3. \A n \in Nodes : Copied(pointers)[n] \in Nodes \cup {NULL}
    BY <1>3, <2>1 DEF Pointers
  <2>4. \A m \in S : at[m] \in Nodes
    BY <1>1
  <2> QED BY <1>2, <2>1, <2>2, <2>3, <2>4 DEF Pointers
<1> HIDE DEF Copied
<1>5. ASSUME NEW pointers \in Pointers
      PROVE  /\ Loosed(pointers) \in Pointers
             /\ \A n \in Nodes \ New : Loosed(pointers)[n] = pointers[n]
             /\ \A m \in S : Loosed(pointers)[at[m]] = IF m = x THEN NULL ELSE There(at, S, pointers[m])
  BY <1>1, <1>4 DEF Pointers, S
<1>6. c = [alive |-> t.alive \cup {at[m] : m \in DOMAIN at},
           parent |-> Loosed(t.parent), prev |-> Loosed(t.prev), next |-> Loosed(t.next),
           firstChild |-> Copied(t.firstChild), lastChild |-> Copied(t.lastChild)]
  BY DEF Clone, Copied
<1> HIDE DEF Loosed, c
<1>7. c \in Tree
  <2>1. t.alive \cup {at[m] : m \in DOMAIN at} \in SUBSET Nodes
    BY <1>0, <1>1
  <2>2. /\ Loosed(t.parent) \in Pointers /\ Loosed(t.prev) \in Pointers
        /\ Loosed(t.next) \in Pointers
        /\ Copied(t.firstChild) \in Pointers /\ Copied(t.lastChild) \in Pointers
    BY <1>4, <1>5, Fields
  <2> QED BY <1>6, <2>1, <2>2 DEF Tree
<1> QED BY <1>1, <1>4, <1>5, <1>6, <1>7, Fields DEF Cloned, c, S

(* The heap is the old one, and a loose copy beside it. *)
CopyAdded(t, c, node, New) ==
    /\ WellLinked(c) /\ Loose(c, node, New)
    /\ \A n \in t.alive :
           /\ n \in c.alive /\ n \notin New
           /\ c.parent[n] = t.parent[n]
           /\ c.firstChild[n] = t.firstChild[n] /\ c.lastChild[n] = t.lastChild[n]
           /\ c.prev[n] = t.prev[n] /\ c.next[n] = t.next[n]
    /\ \A y, T : IsSubtree(t, y, T) => IsSubtree(c, y, T) /\ T \cap New = {}

(* A copy of a subtree is linked as the subtree is, and to nothing else. *)
LEMMA ClonedLinked ==
    ASSUME NEW t, WellLinked(t), NEW x \in t.alive, NEW S, IsSubtree(t, x, S),
           NEW at, NEW c, Cloned(t, x, S, at, c), NEW New, New = {at[m] : m \in S}
    PROVE  CopyAdded(t, c, at[x], New)
<1>0. /\ t \in Tree /\ t.alive \subseteq Nodes /\ NULL \notin Nodes
      /\ S \subseteq t.alive /\ x \in S
      /\ \A n \in Nodes : t.parent[n] \in S => n \in S
      /\ \A n \in S : n # x => t.parent[n] \in S
  BY Fields, TreeAssumption DEF WellLinked, IsSubtree
<1> SUFFICES ASSUME at \in [S -> Nodes \ t.alive], \A m, n \in S : at[m] = at[n] => m = n
             PROVE  CopyAdded(t, c, at[x], New)
  BY DEF Cloned
<1>1. /\ New \subseteq Nodes /\ New \cap t.alive = {} /\ NULL \notin New
      /\ \A m \in S : at[m] \in New
      /\ \A n \in New : \E m \in S : n = at[m]
  BY <1>0
<1>2. /\ c \in Tree /\ c.alive = t.alive \cup New
      /\ \A n \in Nodes \ New :
             /\ c.parent[n] = t.parent[n]
             /\ c.firstChild[n] = t.firstChild[n] /\ c.lastChild[n] = t.lastChild[n]
             /\ c.prev[n] = t.prev[n] /\ c.next[n] = t.next[n]
  BY DEF Cloned
<1>3. \A m \in S, n \in Nodes : n = at[m] =>
         /\ c.firstChild[n] = There(at, S, t.firstChild[m])
         /\ c.lastChild[n] = There(at, S, t.lastChild[m])
         /\ m # x => /\ c.parent[n] = There(at, S, t.parent[m])
                     /\ c.prev[n] = There(at, S, t.prev[m])
                     /\ c.next[n] = There(at, S, t.next[m])
         /\ m = x => c.parent[n] = NULL /\ c.prev[n] = NULL /\ c.next[n] = NULL
  BY DEF Cloned
<1>4. /\ t.parent[x] \notin S /\ t.prev[x] \notin S /\ t.next[x] \notin S
      /\ \A n \in S \ {x} : /\ t.parent[n] \in S
                            /\ t.prev[n] \in S \cup {NULL}
                            /\ t.next[n] \in S \cup {NULL}
      /\ \A n \in S : /\ t.firstChild[n] \in S \cup {NULL} /\ t.firstChild[n] # x
                     /\ t.lastChild[n] \in S \cup {NULL} /\ t.lastChild[n] # x
  BY Boundary
<1>5. \A m \in S, n \in Nodes : n = at[m] =>
          /\ n \in New
          /\ m = x => c.parent[n] = NULL /\ c.prev[n] = NULL /\ c.next[n] = NULL
          /\ m # x => /\ t.parent[m] \in S /\ c.parent[n] = at[t.parent[m]]
                      /\ t.prev[m] \in S => c.prev[n] = at[t.prev[m]]
                      /\ t.prev[m] \notin S => c.prev[n] = NULL /\ t.prev[m] = NULL
                      /\ t.next[m] \in S => c.next[n] = at[t.next[m]]
                      /\ t.next[m] \notin S => c.next[n] = NULL /\ t.next[m] = NULL
          /\ t.firstChild[m] \in S => c.firstChild[n] = at[t.firstChild[m]]
          /\ t.firstChild[m] \notin S => c.firstChild[n] = NULL /\ t.firstChild[m] = NULL
          /\ t.lastChild[m] \in S => c.lastChild[n] = at[t.lastChild[m]]
          /\ t.lastChild[m] \notin S => c.lastChild[n] = NULL /\ t.lastChild[m] = NULL
  BY <1>1, <1>3, <1>4 DEF There
<1>6. \A n \in Nodes :
         /\ n \notin t.alive => /\ t.parent[n] = NULL
                              /\ t.firstChild[n] = NULL /\ t.lastChild[n] = NULL
                              /\ t.prev[n] = NULL /\ t.next[n] = NULL
         /\ {t.parent[n], t.firstChild[n], t.lastChild[n], t.prev[n], t.next[n]}
                 \subseteq t.alive \cup {NULL}
  BY DEF WellLinked, NoneDangling
<1>7. /\ \A m, n \in Nodes : t.next[m] = n <=> t.prev[n] = m
      /\ \A m, n \in Nodes : t.next[m] = n => t.parent[m] = t.parent[n] /\ t.parent[n] # NULL
  BY DEF WellLinked, NeighboursAgree
<1>8. \A p, n \in Nodes :
         /\ t.firstChild[p] = n <=> t.parent[n] = p /\ t.prev[n] = NULL
         /\ t.lastChild[p] = n <=> t.parent[n] = p /\ t.next[n] = NULL
  BY DEF WellLinked, EndsAgree
<1>9. \A n \in New : /\ {c.parent[n], c.firstChild[n], c.lastChild[n], c.prev[n], c.next[n]}
                             \subseteq New \cup {NULL}
  BY <1>1, <1>5
<1>10. \A n \in Nodes \ New : {c.parent[n], c.firstChild[n], c.lastChild[n], c.prev[n], c.next[n]}
                               \subseteq (IF n \in t.alive THEN t.alive ELSE {}) \cup {NULL}
  BY <1>2, <1>6
<1>11. NoneDangling(c)
  BY <1>1, <1>2, <1>9, <1>10 DEF NoneDangling
<1>12. NeighboursAgree(c)
  <2> SUFFICES ASSUME NEW m \in Nodes, NEW n \in Nodes
               PROVE  /\ c.next[m] = n <=> c.prev[n] = m
                      /\ c.next[m] = n => c.parent[m] = c.parent[n] /\ c.parent[n] # NULL
    BY DEF NeighboursAgree
  <2>1. CASE m \notin New /\ n \notin New
    BY <1>2, <1>7, <2>1
  <2>2. CASE (m \in New) # (n \in New)
    BY <1>0, <1>1, <1>9, <1>10, <2>2
  <2>3. CASE m \in New /\ n \in New
    <3>1. PICK p \in S : m = at[p]
      BY <1>1, <2>3
    <3>2. PICK q \in S : n = at[q]
      BY <1>1, <2>3
    <3>3. c.next[m] = n <=> p # x /\ t.next[p] = q
      BY <1>0, <1>5, <1>4, <3>1, <3>2
    <3>4. c.prev[n] = m <=> q # x /\ t.prev[q] = p
      BY <1>0, <1>5, <1>4, <3>1, <3>2
    <3>5. t.next[p] = q /\ (p # x \/ q # x) => p # x /\ q # x /\ t.parent[p] = t.parent[q]
      BY <1>0, <1>4, <1>7
    <3>6. p # x => c.parent[m] = at[t.parent[p]] /\ t.parent[p] \in S
      BY <1>5, <1>4, <3>1
    <3>7. q # x => c.parent[n] = at[t.parent[q]] /\ t.parent[q] \in S
      BY <1>5, <1>4, <3>2
    <3> QED BY <1>0, <1>1, <1>7, <3>3, <3>4, <3>5, <3>6, <3>7
  <2> QED BY <2>1, <2>2, <2>3
<1>13. EndsAgree(c)
  <2> SUFFICES ASSUME NEW m \in Nodes, NEW n \in Nodes
               PROVE  /\ c.firstChild[m] = n <=> c.parent[n] = m /\ c.prev[n] = NULL
                      /\ c.lastChild[m] = n <=> c.parent[n] = m /\ c.next[n] = NULL
    BY DEF EndsAgree
  <2>1. CASE m \notin New /\ n \notin New
    BY <1>2, <1>8, <2>1
  <2>2. CASE (m \in New) # (n \in New)
    BY <1>0, <1>1, <1>9, <1>10, <2>2
  <2>3. CASE m \in New /\ n \in New
    <3>1. PICK p \in S : m = at[p]
      BY <1>1, <2>3
    <3>2. PICK q \in S : n = at[q]
      BY <1>1, <2>3
    <3>3. /\ c.firstChild[m] = n <=> t.firstChild[p] = q
          /\ c.lastChild[m] = n <=> t.lastChild[p] = q
      BY <1>0, <1>1, <1>5, <1>4, <3>1, <3>2
    <3>4. c.parent[n] = m <=> q # x /\ t.parent[q] = p
      BY <1>0, <1>1, <1>5, <1>4, <3>1, <3>2
    <3>5. q # x => /\ c.prev[n] = NULL <=> t.prev[q] = NULL
                   /\ c.next[n] = NULL <=> t.next[q] = NULL
      BY <1>0, <1>1, <1>5, <1>4, <3>2
    <3>6. /\ t.firstChild[p] = q <=> t.parent[q] = p /\ t.prev[q] = NULL
          /\ t.lastChild[p] = q <=> t.parent[q] = p /\ t.next[q] = NULL
      BY <1>0, <1>8
    <3> QED BY <1>4, <3>3, <3>4, <3>5, <3>6
  <2> QED BY <2>1, <2>2, <2>3
<1>14. ASSUME NEW T \in SUBSET c.alive, T # {}
       PROVE  (\E n \in T : c.parent[n] \notin T) /\ (\E n \in T : c.next[n] \notin T)
  <2>1. CASE T \cap t.alive # {}
    <3>1. T \cap t.alive \in SUBSET t.alive
      OBVIOUS
    <3>2. PICK n \in T \cap t.alive : t.parent[n] \notin T \cap t.alive
      BY <2>1, <3>1 DEF WellLinked, NoneBelowItself
    <3>3. PICK m \in T \cap t.alive : t.next[m] \notin T \cap t.alive
      BY <2>1, <3>1 DEF WellLinked, NoneBehindItself
    <3> QED BY <1>0, <1>1, <1>2, <1>6, <1>14, <3>2, <3>3
  <2>2. CASE T \cap t.alive = {}
    <3> DEFINE P == {m \in S : at[m] \in T}
    <3>1. P \in SUBSET t.alive /\ P # {}
      BY <1>0, <1>1, <1>2, <1>14, <2>2
    <3>2. PICK n \in P : t.parent[n] \notin P
      BY <3>1 DEF WellLinked, NoneBelowItself
    <3>3. PICK m \in P : t.next[m] \notin P
      BY <3>1 DEF WellLinked, NoneBehindItself
    <3>4. NULL \notin T
      BY <1>0, <1>1, <1>2
    <3> QED BY <1>5, <3>2, <3>3, <3>4
  <2> QED BY <2>1, <2>2
<1>15. WellLinked(c)
  BY <1>2, <1>11, <1>12, <1>13, <1>14 DEF WellLinked, NoneBelowItself, NoneBehindItself
<1>16. Loose(c, at[x], New)
  <2>1. c.parent[at[x]] = NULL /\ c.prev[at[x]] = NULL /\ c.next[at[x]] = NULL
    BY <1>0, <1>5
  <2>2. \A n \in Nodes : c.parent[n] \in New => n \in New
    BY <1>1, <1>10
  <2>3. \A n \in New : n # at[x] => c.parent[n] \in New
    BY <1>0, <1>1, <1>5
  <2> QED BY <1>0, <1>1, <1>2, <2>1, <2>2, <2>3 DEF Loose, IsSubtree
<1>17. ASSUME NEW y, NEW T, IsSubtree(t, y, T)
       PROVE  IsSubtree(c, y, T) /\ T \cap New = {}
  <2>1. /\ T \subseteq t.alive /\ y \in T
        /\ \A n \in Nodes : t.parent[n] \in T => n \in T
        /\ \A n \in T : n # y => t.parent[n] \in T
    BY <1>17 DEF IsSubtree
  <2>2. \A n \in Nodes : c.parent[n] \in T => n \in T
    BY <1>0, <1>1, <1>2, <1>9, <2>1
  <2> QED BY <1>0, <1>1, <1>2, <2>1, <2>2 DEF IsSubtree
<1> QED BY <1>0, <1>1, <1>2, <1>15, <1>16, <1>17 DEF CopyAdded

(* Clone adds a copy. *)
LEMMA CloneLinked ==
    ASSUME NEW t, WellLinked(t), NEW x \in t.alive, NEW at \in Places(t, x),
           NEW c, c = Clone(t, x, at)
    PROVE  \E New : CopyAdded(t, c, at[x], New)
<1> DEFINE S == Subtree(t, x)
<1>1. t \in Tree /\ x \in Nodes /\ IsSubtree(t, x, S) /\ x \in S
  BY Fields, SubtreeIs DEF WellLinked, IsSubtree
<1>2. Cloned(t, x, S, at, c)
  BY <1>1, CloneFields
<1> HIDE DEF S
<1>3. ASSUME NEW New, New = {at[m] : m \in S}
      PROVE  CopyAdded(t, c, at[x], New)
  BY <1>1, <1>2, <1>3, ClonedLinked
<1> QED BY <1>3
-----------------------------------------------------------------------------
(* A node with children has a last one, since none of them is behind itself. *)
LEMMA BothEnds ==
    ASSUME NEW t, WellLinked(t), NEW p \in Nodes, t.lastChild[p] = NULL
    PROVE  t.firstChild[p] = NULL
<1> DEFINE C == {n \in t.alive : t.parent[n] = p}
<1>1. /\ t.alive \subseteq Nodes /\ NULL \notin Nodes
      /\ \A n \in Nodes : t.firstChild[n] \in t.alive \cup {NULL}
      /\ \A n \in Nodes : t.next[n] \in t.alive \cup {NULL}
  BY Fields, TreeAssumption DEF WellLinked, NoneDangling
<1>2. \A m, n \in Nodes :
         /\ t.firstChild[m] = n <=> t.parent[n] = m /\ t.prev[n] = NULL
         /\ t.lastChild[m] = n <=> t.parent[n] = m /\ t.next[n] = NULL
  BY DEF WellLinked, EndsAgree
<1>3. \A m, n \in Nodes : t.next[m] = n => t.parent[m] = t.parent[n]
  BY DEF WellLinked, NeighboursAgree
<1>4. C # {} => \E n \in C : t.next[n] \notin C
  BY DEF WellLinked, NoneBehindItself
<1>5. C = {}
  <2> SUFFICES ASSUME C # {}
               PROVE  FALSE
    OBVIOUS
  <2>1. PICK n \in C : t.next[n] \notin C
    BY <1>4
  <2>2. t.next[n] = NULL
    BY <1>1, <1>3, <2>1
  <2> QED BY <1>1, <1>2, <2>1, <2>2
<1>6. ASSUME NEW f \in t.alive, f = t.firstChild[p]
      PROVE  FALSE
  <2>1. t.parent[f] = p
    <3>1. f \in Nodes
      BY <1>1
    <3> QED BY <1>2, <1>6, <3>1
  <2>2. f \in C
    BY <2>1
  <2> QED BY <1>5, <2>2
<1> QED BY <1>1, <1>6

(* No node is its own neighbour. *)
LEMMA NextIsOther ==
    ASSUME NEW t, WellLinked(t), NEW n \in t.alive
    PROVE  t.next[n] # n /\ t.prev[n] # n
<1>1. {n} \in SUBSET t.alive /\ {n} # {} /\ n \in Nodes
  BY Fields DEF WellLinked
<1>2. t.next[n] # n
  BY <1>1 DEF WellLinked, NoneBehindItself
<1>3. t.next[n] = n <=> t.prev[n] = n
  BY <1>1 DEF WellLinked, NeighboursAgree
<1> QED BY <1>2, <1>3

(* InsertEndChild. *)
LEMMA InsertEndChildLinked ==
    ASSUME NEW t, WellLinked(t), NEW this \in t.alive, NEW x \in t.alive, NEW at \in Places(t, x),
           NEW c, c = Clone(t, x, at), NEW node, node = at[x],
           NEW u, u = LinkEndChild(c, this, node)
    PROVE  WellLinked(u) /\ Inserted(c, this, c.lastChild[this], NULL, node, u)
<1>1. PICK New : /\ WellLinked(c) /\ Loose(c, node, New)
                 /\ this \in c.alive /\ this \notin New
  BY CloneLinked DEF CopyAdded
<1> DEFINE a == c.lastChild[this]
<1>2. /\ c \in Tree /\ this \in Nodes /\ node \in Nodes /\ c.parent[node] = NULL
      /\ a \in Nodes \cup {NULL} /\ NULL \notin Nodes
  BY <1>1, Fields, TreeAssumption DEF WellLinked, Loose, IsSubtree, Pointers
<1>3. a # NULL => c.parent[a] = this /\ c.next[a] = NULL
  BY <1>1, <1>2 DEF WellLinked, EndsAgree
<1>4. a = NULL => c.firstChild[this] = NULL
  BY <1>1, <1>2, BothEnds
<1>5. a # node
  BY <1>2, <1>3
<1>6. Inserted(c, this, a, NULL, node, u)
  BY <1>2, <1>5, EndChildInserted
<1>7. Gap(c, this, a, NULL)
  BY <1>2, <1>3, <1>4 DEF Gap
<1> QED BY <1>1, <1>6, <1>7, InsertedLinked

(* InsertBeforeChild. *)
LEMMA InsertBeforeLinked ==
    ASSUME NEW t, WellLinked(t), NEW this \in t.alive, NEW x \in t.alive, NEW at \in Places(t, x),
           NEW b \in t.alive, t.parent[b] = this,
           NEW c, c = Clone(t, x, at), NEW node, node = at[x],
           NEW u, u = LinkBefore(c, this, b, node)
    PROVE  WellLinked(u) /\ Inserted(c, this, c.prev[b], b, node, u)
<1>1. PICK New : /\ WellLinked(c) /\ Loose(c, node, New)
                 /\ this \in c.alive /\ this \notin New
                 /\ b \in c.alive /\ c.parent[b] = this
  BY CloneLinked DEF CopyAdded
<1> DEFINE a == c.prev[b]
<1>2. /\ c \in Tree /\ this \in Nodes /\ node \in Nodes /\ c.parent[node] = NULL
      /\ b \in Nodes /\ a \in Nodes \cup {NULL} /\ NULL \notin Nodes
  BY <1>1, Fields, TreeAssumption DEF WellLinked, Loose, IsSubtree, Pointers
<1>3. /\ a # NULL => c.parent[a] = this /\ c.next[a] = b
      /\ a = NULL => c.firstChild[this] = b
  BY <1>1, <1>2 DEF WellLinked, NeighboursAgree, EndsAgree
<1>4. a # node /\ b # node /\ a # b
  BY <1>1, <1>2, <1>3, NextIsOther
<1>5. Inserted(c, this, a, b, node, u)
  BY <1>2, <1>4, BeforeInserted
<1>6. Gap(c, this, a, b)
  BY <1>1, <1>2, <1>3 DEF Gap
<1> QED BY <1>1, <1>5, <1>6, InsertedLinked

(* InsertAfterChild. *)
LEMMA InsertAfterLinked ==
    ASSUME NEW t, WellLinked(t), NEW this \in t.alive, NEW x \in t.alive, NEW at \in Places(t, x),
           NEW a \in t.alive, t.parent[a] = this,
           NEW c, c = Clone(t, x, at), NEW node, node = at[x],
           NEW u, u = LinkAfter(c, this, a, node)
    PROVE  WellLinked(u) /\ Inserted(c, this, a, c.next[a], node, u)
<1>1. PICK New : /\ WellLinked(c) /\ Loose(c, node, New)
                 /\ this \in c.alive /\ this \notin New
                 /\ a \in c.alive /\ c.parent[a] = this
  BY CloneLinked DEF CopyAdded
<1> DEFINE b == c.next[a]
<1>2. /\ c \in Tree /\ this \in Nodes /\ node \in Nodes /\ c.parent[node] = NULL
      /\ a \in Nodes /\ b \in Nodes \cup {NULL} /\ NULL \notin Nodes
  BY <1>1, Fields, TreeAssumption DEF WellLinked, Loose, IsSubtree, Pointers
<1>3. /\ b # NULL => c.parent[b] = this /\ c.prev[b] = a
      /\ b = NULL => c.lastChild[this] = a
  BY <1>1, <1>2 DEF WellLinked, NeighboursAgree, EndsAgree
<1>4. a # node /\ b # node /\ a # b
  BY <1>1, <1>2, <1>3, NextIsOther
<1>5. Inserted(c, this, a, b, node, u)
  BY <1>2, <1>4, AfterInserted
<1>6. Gap(c, this, a, b)
  BY <1>1, <1>2, <1>3 DEF Gap
<1> QED BY <1>1, <1>5, <1>6, InsertedLinked

(* ReplaceChild. *)
LEMMA ReplaceLinked ==
    ASSUME NEW t, WellLinked(t), NEW this \in t.alive, NEW x \in t.alive, NEW at \in Places(t, x),
           NEW old \in t.alive, t.parent[old] = this
    PROVE  WellLinked(Delete(Substitute(Clone(t, x, at), this, old, at[x]), Subtree(t, old)))
<1> DEFINE node == at[x]
           S == Subtree(t, old)
<1> SUFFICES ASSUME NEW c, c = Clone(t, x, at)
             PROVE  WellLinked(Delete(Substitute(c, this, old, node), S))
  OBVIOUS
<1>1. IsSubtree(t, old, S)
  BY SubtreeIs
<1> HIDE DEF S
<1>2. PICK New : /\ WellLinked(c) /\ Loose(c, node, New)
                 /\ this \in c.alive /\ this \notin New
                 /\ old \in c.alive /\ c.parent[old] = this
                 /\ IsSubtree(c, old, S) /\ S \cap New = {}
  BY <1>1, CloneLinked DEF CopyAdded
<1> HIDE DEF node
<1> QED BY <1>2, ReplacedLinked
-----------------------------------------------------------------------------
(* TreeLinked is inductive: the document and le_nouveau have no neighbours yet, *)
LEMMA StartsLinked == TreeInit => TreeLinked
<1> SUFFICES ASSUME TreeInit
             PROVE  TreeLinked
  OBVIOUS
<1>1. tree \in Tree
  BY TreeAssumption DEF TreeInit, Tree, Pointers, NoPointers
<1>2. \A n \in Nodes : /\ tree.parent[n] = NULL /\ tree.firstChild[n] = NULL
                      /\ tree.lastChild[n] = NULL /\ tree.prev[n] = NULL /\ tree.next[n] = NULL
  BY DEF TreeInit, NoPointers
<1>3. NULL \notin Nodes /\ tree.alive \subseteq Nodes
  BY <1>1, Fields, TreeAssumption
<1>4. NoneDangling(tree)
  BY <1>2, <1>3 DEF NoneDangling
<1>5. NeighboursAgree(tree) /\ EndsAgree(tree)
  BY <1>2, <1>3 DEF NeighboursAgree, EndsAgree
<1>6. NoneBelowItself(tree) /\ NoneBehindItself(tree)
  BY <1>2, <1>3 DEF NoneBelowItself, NoneBehindItself
<1> QED BY <1>1, <1>4, <1>5, <1>6 DEF TreeLinked, WellLinked

(* and every operation of TiXmlNode keeps it. *)
LEMMA StaysLinked == TreeLinked /\ [TreeNext]_treeVars => TreeLinked'
<1> SUFFICES ASSUME TreeLinked, [TreeNext]_treeVars
             PROVE  TreeLinked'
  OBVIOUS
<1>0. WellLinked(tree)
  BY DEF TreeLinked
<1>1. ASSUME NEW this \in tree.alive, NEW x \in tree.alive, InsertEndChild(this, x)
      PROVE  TreeLinked'
  BY <1>0, <1>1, InsertEndChildLinked DEF InsertEndChild, TopOnly, TreeLinked
<1>2. ASSUME NEW this \in tree.alive, NEW b \in tree.alive, NEW x \in tree.alive,
             InsertBeforeChild(this, b, x)
      PROVE  TreeLinked'
  BY <1>0, <1>2, InsertBeforeLinked DEF InsertBeforeChild, TopOnly, TreeLinked
<1>3. ASSUME NEW this \in tree.alive, NEW a \in tree.alive, NEW x \in tree.alive,
             InsertAfterChild(this, a, x)
      PROVE  TreeLinked'
  BY <1>0, <1>3, InsertAfterLinked DEF InsertAfterChild, TopOnly, TreeLinked
<1>4. ASSUME NEW this \in tree.alive, NEW old \in tree.alive, NEW x \in tree.alive,
             ReplaceChild(this, old, x)
      PROVE  TreeLinked'
  BY <1>0, <1>4, ReplaceLinked DEF ReplaceChild, TopOnly, TreeLinked
<1>5. ASSUME NEW this \in tree.alive, NEW old \in tree.alive, RemoveChild(this, old)
      PROVE  TreeLinked'
  BY <1>0, <1>5, RemoveLinked DEF RemoveChild, TreeLinked
<1>6. ASSUME NEW this \in tree.alive, Clear(this)
      PROVE  TreeLinked'
  BY <1>0, <1>6, ClearLinked DEF Clear, TreeLinked
<1>7. CASE UNCHANGED treeVars
  BY <1>0, <1>7 DEF treeVars, TreeLinked
<1> QED BY <1>1, <1>2, <1>3, <1>4, <1>5, <1>6, <1>7 DEF TreeNext

(***************************************************************************)
(* TiXmlNode's pointers agree in every document that any sequence of       *)
(* InsertEndChild, InsertBeforeChild, InsertAfterChild, ReplaceChild,      *)
(* RemoveChild and Clear builds, however many nodes it has and however deep*)
(* it is: no operation leaves a pointer to a deleted node, a neighbour that*)
(* does not point back, or a node below or behind itself.                  *)
(***************************************************************************)
THEOREM TreeStaysLinked == TreeSpec => []TreeLinked
<1> QED BY StartsLinked, StaysLinked, PTL DEF TreeSpec
-----------------------------------------------------------------------------
(* A name is a sequence of what was typed and of the points that stood in the field. *)
Typed == Letters \cup {"."}
NameInv == Destination \in Seq(Typed)

(* The field holds nothing else. *)
LEMMA NameIsSequence == DestinationSpec => []NameInv
<1>1. DestinationInit => NameInv
  <2>1. <<".", ".", ".">> \in Seq(Typed)
    BY DEF Typed
  <2> QED BY <2>1 DEF DestinationInit, NameInv
<1>2. NameInv /\ [DestinationNext]_Destination => NameInv'
  <2> SUFFICES ASSUME Destination \in Seq(Typed), DestinationNext
               PROVE  Destination' \in Seq(Typed)
    BY DEF NameInv
  <2>1. ASSUME NEW c \in Letters, Destination' = Append(Destination, c)
        PROVE  Destination' \in Seq(Typed)
    <3>1. c \in Typed
      BY DEF Typed
    <3> HIDE DEF Typed
    <3> QED BY <2>1, <3>1
  <2>2. ASSUME Destination # <<>>, Destination' = SubSeq(Destination, 1, Len(Destination) - 1)
        PROVE  Destination' \in Seq(Typed)
    BY <2>2
  <2> QED BY <2>1, <2>2 DEF DestinationNext
<1> QED BY <1>1, <1>2, PTL DEF DestinationSpec

(* The points of a name are counted one by one. *)
LEMMA OnePoint ==
    ASSUME NEW S, NEW name \in Seq(S)
    PROVE  nbPoint(name) = 1 <=> \E p : Points(name) = {p}
<1>1. IsFiniteSet(1 .. Len(name))
  BY FS_Interval
<1>2. IsFiniteSet(Points(name))
  BY <1>1, FS_Subset DEF Points
<1> QED BY <1>2, FS_Singleton DEF nbPoint

(* Each of the two extensions is four characters, the first of them a point. *)
LEMMA ExtensionIs ==
    ASSUME NEW e, e \in {avi, txt}
    PROVE  /\ Len(e) = 4 /\ DOMAIN e = 1 .. 4
           /\ \A k \in 1 .. 4 : e[k] = "." <=> k = 1
<1>1. CASE e = avi
  <2>1. e[1] = "." /\ e[2] # "." /\ e[3] # "." /\ e[4] # "."
    BY <1>1 DEF avi
  <2> QED BY <1>1, <2>1 DEF avi
<1>2. CASE e = txt
  <2>1. e[1] = "." /\ e[2] # "." /\ e[3] # "." /\ e[4] # "."
    BY <1>2 DEF txt
  <2> QED BY <1>2, <2>1 DEF txt
<1> QED BY <1>1, <1>2

(* The end of a name. *)
LEMMA EndOf ==
    ASSUME NEW S, NEW name \in Seq(S), NEW p \in 1 .. Len(name) + 1
    PROVE  /\ Len(SubSeq(name, p, Len(name))) = Len(name) - p + 1
           /\ \A k \in 1 .. Len(name) - p + 1 : SubSeq(name, p, Len(name))[k] = name[p + k - 1]
  OBVIOUS

(* What is accepted is of the form that NamesAccepted states, *)
LEMMA AcceptedIsNamed ==
    ASSUME NEW S, NEW name \in Seq(S), verifierExtension(name)
    PROVE  \E n \in 1 .. Len(name) :
               /\ SubSeq(name, n + 1, Len(name)) \in {avi, txt}
               /\ \A k \in 1 .. n : name[k] # "."
<1>1. PICK p : Points(name) = {p}
  BY OnePoint DEF verifierExtension
<1>2. p \in 1 .. Len(name) /\ \A k \in 1 .. Len(name) : name[k] = "." => k = p
  BY <1>1 DEF Points
<1>3. extension(name) = SubSeq(name, p, Len(name))
  <2>1. (CHOOSE k \in Points(name) : \A j \in Points(name) : j <= k) = p
    BY <1>1, <1>2
  <2> QED BY <2>1 DEF extension
<1>4. Len(name) - p + 1 = 4
  <2>1. extension(name) \in {avi, txt}
    BY DEF verifierExtension
  <2>2. Len(SubSeq(name, p, Len(name))) = 4
    BY <1>3, <2>1, ExtensionIs
  <2>3. p \in 1 .. Len(name) + 1
    BY <1>2
  <2> QED BY <2>2, <2>3, EndOf
<1>5. p - 1 \in 1 .. Len(name) /\ (p - 1) + 1 = p
  BY <1>2, <1>4 DEF verifierExtension
<1>6. \A k \in 1 .. p - 1 : name[k] # "."
  BY <1>2
<1> QED BY <1>3, <1>5, <1>6 DEF verifierExtension

(* and the other way round. *)
LEMMA NamedIsAccepted ==
    ASSUME NEW S, NEW name \in Seq(S), NEW n \in 1 .. Len(name),
           SubSeq(name, n + 1, Len(name)) \in {avi, txt},
           \A k \in 1 .. n : name[k] # "."
    PROVE  verifierExtension(name)
<1> DEFINE e == SubSeq(name, n + 1, Len(name))
<1>1. /\ Len(e) = Len(name) - n
      /\ \A k \in 1 .. Len(name) - n : e[k] = name[n + k]
  BY EndOf, n + 1 \in 1 .. Len(name) + 1
<1>2. Len(e) = 4 /\ \A k \in 1 .. 4 : e[k] = "." <=> k = 1
  BY ExtensionIs
<1> HIDE DEF e
<1>3. Len(name) \in Nat /\ Len(name) = n + 4
  <2>1. Len(name) \in Nat
    OBVIOUS
  <2>2. Len(name) - n = 4
    BY <1>1, <1>2
  <2> QED BY <2>1, <2>2
<1>4. \A k \in 1 .. Len(name) : name[k] = "." <=> k = n + 1
  <2> TAKE k \in 1 .. Len(name)
  <2>1. CASE k <= n
    BY <2>1
  <2>2. CASE k > n
    <3>1. k - n \in 1 .. 4 /\ n + (k - n) = k /\ k - n \in 1 .. Len(name) - n
      BY <1>3, <2>2
    <3>2. e[k - n] = name[k]
      BY <1>1, <3>1
    <3> QED BY <1>2, <3>1, <3>2
  <2> QED BY <2>1, <2>2
<1>5. n + 1 \in 1 .. Len(name) /\ Len(name) > 4
  BY <1>3
<1>6. Points(name) = {n + 1}
  BY <1>4, <1>5 DEF Points
<1>7. extension(name) = e
  <2>1. (CHOOSE k \in Points(name) : \A j \in Points(name) : j <= k) = n + 1
    BY <1>5, <1>6
  <2> QED BY <2>1 DEF extension, e
<1> QED BY <1>5, <1>6, <1>7, OnePoint DEF verifierExtension, e

(***************************************************************************)
(* Whatever letters are typed, and however many, verifierExtension accepts *)
(* exactly the names that are one of the two extensions behind something   *)
(* that is not empty and has no point.                                     *)
(***************************************************************************)
THEOREM NamesAreChecked == DestinationSpec => []NamesAccepted
<1>1. NameInv => NamesAccepted
  <2> SUFFICES ASSUME NameInv PROVE NamesAccepted
    OBVIOUS
  <2> QED BY AcceptedIsNamed, NamedIsAccepted DEF NameInv, NamesAccepted
<1> QED BY <1>1, NameIsSequence, PTL
-----------------------------------------------------------------------------
(* Induction.  That < is well-founded on the naturals is a fact about sets; the two principles
   below are the ones needed of it. *)

\* A set of naturals that is not empty has a least element.
LEMMA NatMin ==
    ASSUME NEW T \in SUBSET Nat, T # {}
    PROVE  \E n \in T : \A m \in T : n <= m
<1>1. PICK n \in T : \A y \in T : ~ (<<y, n>> \in OpToRel(<, Nat))
  BY NatLessThanWellFounded, WFMin
<1>2. \A y \in T : ~ (y < n)
  BY <1>1 DEF OpToRel
<1> QED
  BY <1>2

\* A set with 0, and with n + 1 if with n, has all naturals.
LEMMA NatAll ==
    ASSUME NEW T, 0 \in T, \A n \in Nat : n \in T => n + 1 \in T
    PROVE  \A n \in Nat : n \in T
<1> SUFFICES ASSUME Nat \ T # {} PROVE FALSE
  OBVIOUS
<1>1. PICK n \in Nat \ T : \A m \in Nat \ T : n <= m
  <2>1. Nat \ T \in SUBSET Nat
    OBVIOUS
  <2> QED
    BY <2>1, NatMin
<1>2. n # 0 /\ n - 1 \in Nat /\ (n - 1) + 1 = n
  BY <1>1
<1>3. n - 1 \in T
  BY <1>1, <1>2
<1> QED
  BY <1>1, <1>2, <1>3

\* The first and the last of some places.
LEMMA EarliestIs ==
    ASSUME NEW K \in SUBSET Nat, K # {}
    PROVE  Earliest(K) \in K /\ \A j \in K : Earliest(K) <= j
<1>1. \E k \in K : \A j \in K : k <= j
  BY NatMin
<1> QED
  BY <1>1 DEF Earliest

\* The latest of some characters is one of them.
LEMMA LatestIs ==
    ASSUME NEW n \in Nat, NEW K \in SUBSET (0 .. n), K # {}
    PROVE  Latest(K) \in K /\ \A j \in K : j <= Latest(K)
<1> DEFINE T == {n - k : k \in K}
<1>1. T \in SUBSET Nat /\ T # {}
  <2>1. \A k \in K : n - k \in Nat
    OBVIOUS
  <2>2. PICK k \in K : TRUE
    OBVIOUS
  <2>3. n - k \in T
    OBVIOUS
  <2> QED
    BY <2>1, <2>3
<1>2. PICK m \in T : \A j \in T : m <= j
  <2> HIDE DEF T
  <2> QED
    BY <1>1, NatMin
<1>3. PICK k \in K : m = n - k
  BY <1>2
<1>4. \A j \in K : n - k <= n - j
  BY <1>2, <1>3
<1>5. \A j \in K : j <= k
  BY <1>3, <1>4
<1> QED
  BY <1>5 DEF Latest
-----------------------------------------------------------------------------
(* Characters and their entities. *)

\* The five entities the printer writes and the reader knows.
LEMMA EntityIs ==
    /\ DOMAIN entity = {34, 38, 39, 60, 62}
    /\ entity[38] = <<38, 97, 109, 112, 59>>
    /\ entity[60] = <<38, 108, 116, 59>>
    /\ entity[62] = <<38, 103, 116, 59>>
    /\ entity[34] = <<38, 113, 117, 111, 116, 59>>
    /\ entity[39] = <<38, 97, 112, 111, 115, 59>>
BY DEF entity, Ampersand, Less, Greater, DoubleQuote, SingleQuote

\* Each entity is "&", then something that is not "#".
LEMMA EntityShape ==
    ASSUME NEW c \in DOMAIN entity
    PROVE  /\ entity[c] \in Seq(Nat) /\ entity[c] \in Seq(1 .. 255) /\ Len(entity[c]) \in 4 .. 6
           /\ entity[c][1] = 38 /\ entity[c][2] # 35
<1>1. c \in {34, 38, 39, 60, 62}
  BY EntityIs
<1>2. CASE c = 34 BY <1>2, EntityIs
<1>3. CASE c = 38 BY <1>3, EntityIs
<1>4. CASE c = 39 BY <1>4, EntityIs
<1>5. CASE c = 60 BY <1>5, EntityIs
<1>6. CASE c = 62 BY <1>6, EntityIs
<1> QED BY <1>1, <1>2, <1>3, <1>4, <1>5, <1>6

\* No two have the same second character and the same third.
LEMMA EntitiesDiffer ==
    ASSUME NEW c \in DOMAIN entity, NEW d \in DOMAIN entity,
           entity[c][2] = entity[d][2], entity[c][3] = entity[d][3]
    PROVE  c = d
<1>1. c \in {34, 38, 39, 60, 62} /\ d \in {34, 38, 39, 60, 62}
  BY EntityIs
<1>2. /\ entity[34][2] = 113 /\ entity[38][2] = 97 /\ entity[39][2] = 97
      /\ entity[60][2] = 108 /\ entity[62][2] = 103
      /\ entity[38][3] = 109 /\ entity[39][3] = 112
  BY EntityIs
<1> QED
  BY <1>1, <1>2

\* Reading a reference ends behind it, or nowhere.
LEMMA NumericNext ==
    ASSUME NEW t \in Seq(Nat), NEW p \in 1 .. Len(t), NEW mark, NEW base
    PROVE  Numeric(t, p, mark, base).next \in {0} \cup (p + 1) .. (Len(t) + 1)
<1> DEFINE ends == From(t, p + 2, Semicolon)
<1>1. CASE ends = {}
  BY <1>1 DEF Numeric, Got
<1>2. CASE ends # {}
  <2>1. ends \in SUBSET Nat /\ ends \subseteq (p + 2) .. Len(t)
    BY DEF From
  <2>2. Earliest(ends) \in (p + 2) .. Len(t)
    <3> HIDE DEF ends
    <3> QED
      BY <1>2, <2>1, EarliestIs
  <2>3. Numeric(t, p, mark, base).next \in {0, Earliest(ends) + 1}
    BY DEF Numeric, Got
  <2> QED
    BY <2>2, <2>3
<1> QED
  BY <1>1, <1>2

\* So does reading a character.
LEMMA GetCharNext ==
    ASSUME NEW t \in Seq(Nat), NEW p \in 1 .. Len(t)
    PROVE  GetChar(t, p).next \in {0} \cup (p + 1) .. (Len(t) + 1)
<1> DEFINE named == {c \in DOMAIN entity : IsPrefix(entity[c], SubSeq(t, p, Len(t)))}
<1>1. ASSUME NEW c \in named
      PROVE  p + Len(entity[c]) \in (p + 1) .. (Len(t) + 1)
  <2>1. Len(entity[c]) \in 4 .. 6
    BY EntityShape
  <2>2. Len(entity[c]) <= Len(SubSeq(t, p, Len(t)))
    BY DEF IsPrefix
  <2>3. Len(SubSeq(t, p, Len(t))) = Len(t) - p + 1
    OBVIOUS
  <2> DEFINE n == Len(entity[c])
  <2>4. n \in 4 .. 6 /\ n <= Len(t) - p + 1
    BY <2>1, <2>2, <2>3
  <2> HIDE DEF n
  <2>5. p + n \in (p + 1) .. (Len(t) + 1)
    BY <2>4
  <2> QED
    BY <2>5 DEF n
<1>2. CASE p + 2 <= Len(t) /\ t[p + 1] = Hash
  <2>1. /\ Numeric(t, p, LetterX, 16).next \in {0} \cup (p + 1) .. (Len(t) + 1)
        /\ Numeric(t, p, Hash, 10).next \in {0} \cup (p + 1) .. (Len(t) + 1)
    BY NumericNext
  <2>2. GetEntity(t, p) \in {Numeric(t, p, LetterX, 16), Numeric(t, p, Hash, 10)}
    BY <1>2 DEF GetEntity
  <2>3. GetChar(t, p) \in {GetEntity(t, p), Got(<<t[p]>>, p + 1)}
    BY DEF GetChar
  <2>4. Got(<<t[p]>>, p + 1).next = p + 1
    BY DEF Got
  <2> QED
    BY <2>1, <2>2, <2>3, <2>4
<1>3. CASE ~(p + 2 <= Len(t) /\ t[p + 1] = Hash) /\ named # {}
  <2> DEFINE c == CHOOSE n \in named : TRUE
  <2>1. c \in named
    BY <1>3
  <2>2. GetEntity(t, p) = Got(<<c>>, p + Len(entity[c]))
    BY <1>3 DEF GetEntity
  <2> HIDE DEF c
  <2>3. GetChar(t, p).next \in {p + Len(entity[c]), p + 1}
    BY <2>2 DEF GetChar, Got
  <2> QED
    BY <1>1, <2>1, <2>3
<1>4. CASE ~(p + 2 <= Len(t) /\ t[p + 1] = Hash) /\ named = {}
  <2>1. GetEntity(t, p) = Got(<<>>, p + 1)
    BY <1>4 DEF GetEntity
  <2> QED
    BY <2>1 DEF GetChar, Got
<1> QED
  BY <1>2, <1>3, <1>4

(* ReadText is a function of positions, each given by those behind it. *)

ReadStep(t, quote, read, p) ==
    CASE p = 0 \/ p > Len(t) -> Got(<<>>, 0)
      [] p \in 1 .. Len(t) /\ t[p] = quote -> Got(<<>>, IF p < Len(t) THEN p + 1 ELSE 0)
      [] OTHER ->
           LET char == GetChar(t, p)
               rest == read[char.next]
           IN  Got(char.value \o rest.value, rest.next)

IsRead(t, quote, read) == read = [p \in 0 .. Len(t) + 1 |-> ReadStep(t, quote, read, p)]
ReadOf(t, quote) == CHOOSE read : IsRead(t, quote, read)

\* Only what is behind p, or at the NULL pointer, is looked at.
LEMMA ReadStepLocal ==
    ASSUME NEW t \in Seq(Nat), NEW quote, NEW p \in 0 .. Len(t) + 1, NEW f, NEW g,
           \A k \in {0} \cup (p + 1) .. (Len(t) + 1) : f[k] = g[k]
    PROVE  ReadStep(t, quote, f, p) = ReadStep(t, quote, g, p)
<1>1. CASE p = 0 \/ p > Len(t)
  BY <1>1 DEF ReadStep
<1>2. CASE p \in 1 .. Len(t)
  <2>1. GetChar(t, p).next \in {0} \cup (p + 1) .. (Len(t) + 1)
    BY <1>2, GetCharNext
  <2>2. f[GetChar(t, p).next] = g[GetChar(t, p).next]
    BY <2>1
  <2> QED
    BY <1>2, <2>2 DEF ReadStep
<1> QED
  BY <1>1, <1>2

\* There is such a function.
LEMMA ReadExists ==
    ASSUME NEW t \in Seq(Nat), NEW quote
    PROVE  \E read : IsRead(t, quote, read)
<1> DEFINE M == Len(t) + 1
           Step(f) == [p \in 0 .. M |-> ReadStep(t, quote, f, p)]
           Good(n, f) == \A p \in 0 .. M : p = 0 \/ p + n > M => f[p] = Step(f)[p]
           T == {n \in Nat : \E f : Good(n, f)}
<1>0. M \in Nat /\ M = Len(t) + 1
  OBVIOUS
<1>1. 0 \in T
  <2> DEFINE f == [p \in 0 .. M |-> Got(<<>>, 0)]
  <2>1. Good(0, f)
    <3>1. ASSUME NEW p \in 0 .. M, p = 0 \/ p + 0 > M PROVE p = 0
      BY <1>0, <3>1
    <3>2. Step(f)[0] = Got(<<>>, 0)
      BY <1>0 DEF ReadStep
    <3>3. f[0] = Got(<<>>, 0)
      BY <1>0
    <3> QED
      BY <3>1, <3>2, <3>3
  <2> QED
    BY <2>1
<1>2. ASSUME NEW n \in Nat, n \in T
      PROVE  n + 1 \in T
  <2>1. PICK f : Good(n, f)
    BY <1>2
  <2>2. ASSUME NEW p \in 0 .. M, p = 0 \/ p + (n + 1) > M
        PROVE  Step(f)[p] = Step(Step(f))[p]
    <3>1. CASE p = 0
      <4>1. ReadStep(t, quote, f, 0) = Got(<<>>, 0) /\ ReadStep(t, quote, Step(f), 0) = Got(<<>>, 0)
        BY DEF ReadStep
      <4> QED
        BY <3>1, <4>1, <1>0
    <3>2. CASE p # 0
      <4>1. ASSUME NEW k \in {0} \cup (p + 1) .. M PROVE f[k] = Step(f)[k]
        <5>1. k \in 0 .. M /\ (k = 0 \/ k + n > M)
          BY <1>0, <2>2, <3>2
        <5> QED
          BY <5>1, <2>1
      <4>2. ReadStep(t, quote, f, p) = ReadStep(t, quote, Step(f), p)
        <5> HIDE DEF Step
        <5> QED
          BY <4>1, <1>0, ReadStepLocal
      <4> QED
        BY <4>2
    <3> QED
      BY <3>1, <3>2
  <2>3. Good(n + 1, Step(f))
    BY <2>2
  <2> HIDE DEF Good
  <2> QED
    BY <2>3
<1>3. M + 1 \in T
  <2> HIDE DEF T
  <2> QED
    BY <1>0, <1>1, <1>2, NatAll
<1>4. PICK f : Good(M + 1, f)
  BY <1>3
<1>5. \A p \in 0 .. M : f[p] = Step(f)[p]
  BY <1>0, <1>4
<1>6. IsRead(t, quote, Step(f))
  <2>1. \A p \in 0 .. M : ReadStep(t, quote, f, p) = ReadStep(t, quote, Step(f), p)
    <3> SUFFICES ASSUME NEW p \in 0 .. M
                 PROVE  ReadStep(t, quote, f, p) = ReadStep(t, quote, Step(f), p)
      OBVIOUS
    <3>1. \A k \in {0} \cup (p + 1) .. M : f[k] = Step(f)[k]
      <4>1. {0} \cup (p + 1) .. M \subseteq 0 .. M
        BY <1>0
      <4> QED
        BY <4>1, <1>5
    <3> HIDE DEF Step
    <3> QED
      BY <3>1, <1>0, ReadStepLocal
  <2>2. Step(f) = [p \in 0 .. M |-> ReadStep(t, quote, Step(f), p)]
    <3> DEFINE g == Step(f)
    <3>1. \A p \in 0 .. M : ReadStep(t, quote, f, p) = ReadStep(t, quote, g, p)
      BY <2>1
    <3> HIDE DEF g
    <3>2. [p \in 0 .. M |-> ReadStep(t, quote, f, p)] = [p \in 0 .. M |-> ReadStep(t, quote, g, p)]
      BY <3>1
    <3> QED
      BY <3>2 DEF g
  <2> QED
    BY <2>2 DEF IsRead
<1> QED
  BY <1>6

\* ReadText is that function.
LEMMA ReadTextIs ==
    ASSUME NEW t \in Seq(Nat), NEW quote, NEW first
    PROVE  /\ ReadText(t, first, quote) = ReadOf(t, quote)[first]
           /\ \A p \in 0 .. Len(t) + 1 :
                  ReadOf(t, quote)[p] = ReadStep(t, quote, ReadOf(t, quote), p)
<1>1. IsRead(t, quote, ReadOf(t, quote))
  BY ReadExists DEF ReadOf
<1>2. ReadText(t, first, quote) = ReadOf(t, quote)[first]
  BY DEF ReadText, ReadOf, IsRead, ReadStep
<1>3. ASSUME NEW f, IsRead(t, quote, f), NEW p \in 0 .. Len(t) + 1
      PROVE  f[p] = ReadStep(t, quote, f, p)
  BY <1>3 DEF IsRead
<1> QED
  BY <1>1, <1>2, <1>3

(* What is written of a character, and where it is read. *)

\* The word w stands in t from p on.
Stands(t, p, w) == p + Len(w) <= Len(t) + 1 /\ \A k \in 1 .. Len(w) : t[p + k - 1] = w[k]

\* A character is printed as its entity, as a reference when it is a control, or as it is.
LEMMA EncodedIs ==
    ASSUME NEW c \in 1 .. 255
    PROVE  /\ Encoded(c) \in Seq(Nat) /\ Len(Encoded(c)) \in 1 .. 6
           /\ Encoded(c)[1] \notin {DoubleQuote, SingleQuote}
           /\ c \in DOMAIN entity => Encoded(c) = entity[c]
           /\ c \notin DOMAIN entity /\ c < 32 => Encoded(c) = Reference(c)
           /\ c \notin DOMAIN entity /\ c >= 32 => Encoded(c) = <<c>>
<1>1. CASE c \in DOMAIN entity
  <2>1. Encoded(c) = entity[c]
    <3>1. ~ (c < Blank)
      BY <1>1, EntityIs DEF Blank
    <3> QED
      BY <1>1, <3>1 DEF Encoded
  <2> QED
    BY <1>1, <2>1, EntityShape DEF DoubleQuote, SingleQuote
<1>2. CASE c \notin DOMAIN entity /\ c < 32
  <2>1. Encoded(c) = Reference(c)
    BY <1>2 DEF Encoded, Blank
  <2>2. c \div 16 \in 0 .. 15 /\ c % 16 \in 0 .. 15
    BY <1>2
  <2>3. HexDigit(c \div 16) \in 1 .. 255 /\ HexDigit(c % 16) \in 1 .. 255
    BY <2>2 DEF HexDigit
  <2>4. /\ Reference(c) \in Seq(Nat) /\ Len(Reference(c)) = 6
        /\ Reference(c)[1] = 38
    BY <2>3 DEF Reference, Ampersand, Hash, LetterX, Semicolon
  <2> QED
    BY <1>2, <2>1, <2>4 DEF DoubleQuote, SingleQuote
<1>3. CASE c \notin DOMAIN entity /\ c >= 32
  <2>1. Encoded(c) = <<c>>
    BY <1>3 DEF Encoded, Blank
  <2>2. c # 34 /\ c # 39
    BY <1>3, EntityIs
  <2> QED
    BY <1>3, <2>1, <2>2 DEF DoubleQuote, SingleQuote
<1> QED
  BY <1>1, <1>2, <1>3

\* A prefix of what is left.
LEMMA PrefixStands ==
    ASSUME NEW t \in Seq(Nat), NEW p \in 1 .. Len(t), NEW w \in Seq(Nat)
    PROVE  IsPrefix(w, SubSeq(t, p, Len(t))) <=> Stands(t, p, w)
<1> DEFINE u == SubSeq(t, p, Len(t))
           m == Len(w)
<1>1. u \in Seq(Nat) /\ Len(u) = Len(t) - p + 1 /\ \A k \in 1 .. Len(u) : u[k] = t[p + k - 1]
  <2>1. p \in 1 .. Len(t) + 1 /\ Len(t) \in p - 1 .. Len(t)
    OBVIOUS
  <2>2. \A k \in p .. Len(t) : t[k] \in Nat
    OBVIOUS
  <2>3. Len(t) - p + 1 = (IF p <= Len(t) THEN Len(t) - p + 1 ELSE 0) /\ p \in Int /\ Len(t) \in Int
    BY <2>1
  <2> HIDE DEF u
  <2> QED
    BY <2>2, <2>3, SubSeqProperties DEF u
<1>2. m \in Nat /\ m = Len(w) /\ (m <= Len(u) <=> p + m <= Len(t) + 1)
  BY <1>1
<1> HIDE DEF u, m
<1>3. CASE m <= Len(u)
  <2>1. /\ SubSeq(w, 1, m) \in Seq(Nat) /\ Len(SubSeq(w, 1, m)) = m
        /\ \A k \in 1 .. m : SubSeq(w, 1, m)[k] = w[k]
    <3>1. \A k \in 1 .. m : 1 + k - 1 = k
      BY <1>2
    <3> QED
      BY <1>2, <3>1, SubSeqProperties
  <2>2. /\ SubSeq(u, 1, m) \in Seq(Nat) /\ Len(SubSeq(u, 1, m)) = m
        /\ \A k \in 1 .. m : SubSeq(u, 1, m)[k] = u[k]
    <3>1. \A k \in 1 .. m : 1 + k - 1 = k
      BY <1>2
    <3> QED
      BY <1>1, <1>2, <1>3, <3>1, SubSeqProperties
  <2>3. SubSeq(w, 1, m) = SubSeq(u, 1, m) <=> \A k \in 1 .. m : w[k] = u[k]
    BY <1>2, <2>1, <2>2, SeqEqual
  <2>4. \A k \in 1 .. m : u[k] = t[p + k - 1]
    BY <1>1, <1>2, <1>3
  <2> QED
    BY <1>2, <1>3, <2>3, <2>4 DEF IsPrefix, Stands, u
<1>4. CASE ~ (m <= Len(u))
  BY <1>2, <1>4 DEF IsPrefix, Stands, u
<1> QED
  BY <1>3, <1>4

\* An entity is read as its character, and as no other one.
LEMMA EntityRead ==
    ASSUME NEW t \in Seq(Nat), NEW p \in 1 .. Len(t), NEW c \in DOMAIN entity,
           Stands(t, p, entity[c])
    PROVE  GetChar(t, p) = Got(<<c>>, p + Len(entity[c]))
<1> DEFINE named == {d \in DOMAIN entity : IsPrefix(entity[d], SubSeq(t, p, Len(t)))}
<1>1. ASSUME NEW d \in DOMAIN entity, Stands(t, p, entity[d])
      PROVE  /\ p + 2 <= Len(t) /\ t[p] = 38 /\ t[p + 1] # 35
             /\ t[p + 1] = entity[d][2] /\ t[p + 2] = entity[d][3]
  <2> DEFINE w == entity[d]
  <2>1. w \in Seq(Nat) /\ Len(w) \in 4 .. 6 /\ w[1] = 38 /\ w[2] # 35
    BY EntityShape
  <2>2. Stands(t, p, w)
    BY <1>1
  <2> HIDE DEF w
  <2> DEFINE m == Len(w)
  <2>3. m \in 4 .. 6 /\ p + m <= Len(t) + 1 /\ \A k \in 1 .. m : t[p + k - 1] = w[k]
    BY <2>1, <2>2 DEF Stands
  <2> HIDE DEF m
  <2>6. p + 3 <= Len(t) /\ 1 \in 1 .. m /\ 2 \in 1 .. m /\ 3 \in 1 .. m
    BY <2>3
  <2>4. t[p] = w[1] /\ t[p + 1] = w[2] /\ t[p + 2] = w[3]
    <3>1. p + 1 - 1 = p /\ p + 2 - 1 = p + 1 /\ p + 3 - 1 = p + 2
      OBVIOUS
    <3>2. t[p + 1 - 1] = w[1] /\ t[p + 2 - 1] = w[2] /\ t[p + 3 - 1] = w[3]
      BY <2>3, <2>6
    <3> QED
      BY <3>1, <3>2
  <2>5. p + 2 <= Len(t)
    BY <2>6
  <2> QED
    BY <2>1, <2>4, <2>5 DEF w
<1>2. c \in named
  BY EntityShape, PrefixStands
<1>3. ASSUME NEW d \in named PROVE d = c
  <2>1. Stands(t, p, entity[d])
    BY EntityShape, PrefixStands
  <2> QED
    BY <1>1, <2>1, EntitiesDiffer
<1>4. (CHOOSE d \in named : TRUE) = c
  BY <1>2, <1>3
<1>5. GetEntity(t, p) = Got(<<c>>, p + Len(entity[c]))
  <2>1. ~ (p + 2 <= Len(t) /\ t[p + 1] = Hash)
    BY <1>1 DEF Hash
  <2> QED
    BY <1>2, <1>4, <2>1 DEF GetEntity
<1> QED
  BY <1>1, <1>5 DEF GetChar, Ampersand

\* The sum of n digits, as Numeric forms it.
Ucs(d, n) ==
    LET ucs[k \in 0 .. n] == IF k = 0 THEN 0 ELSE (16 * ucs[k - 1] + d[k]) % 256
    IN  ucs[n]

\* Two hexadecimal digits are read as the number they write.
LEMMA TwoDigits ==
    ASSUME NEW c \in 0 .. 255, NEW d, d = [k \in 1 .. 2 |-> IF k = 1 THEN c \div 16 ELSE c % 16]
    PROVE  Ucs(d, 2) = c
<1> DEFINE Same(f) == f = [k \in 0 .. 2 |-> IF k = 0 THEN 0 ELSE (16 * f[k - 1] + d[k]) % 256]
           a == c \div 16
           b == c % 16
<1>1. a \in 0 .. 15 /\ b \in 0 .. 15 /\ c = 16 * a + b
  OBVIOUS
<1>2. d[1] = a /\ d[2] = b
  OBVIOUS
<1> HIDE DEF a, b
<1>3. \E f : Same(f)
  <2> DEFINE f == [k \in 0 .. 2 |-> IF k = 0 THEN 0 ELSE IF k = 1 THEN a ELSE c]
  <2>1. f[0] = 0 /\ f[1] = a /\ f[2] = c
    OBVIOUS
  <2>2. (16 * 0 + d[1]) % 256 = a /\ (16 * a + d[2]) % 256 = c
    BY <1>1, <1>2
  <2>3. Same(f)
    <3>1. \A k \in 0 .. 2 : f[k] = IF k = 0 THEN 0 ELSE (16 * f[k - 1] + d[k]) % 256
      <4> TAKE k \in 0 .. 2
      <4> HIDE DEF f
      <4>1. CASE k = 0 BY <2>1, <4>1
      <4>2. CASE k = 1
        <5>1. k - 1 = 0 /\ k # 0
          BY <4>2
        <5> QED
          BY <2>1, <2>2, <4>2, <5>1
      <4>3. CASE k = 2
        <5>1. k - 1 = 1 /\ k # 0
          BY <4>3
        <5> QED
          BY <2>1, <2>2, <4>3, <5>1
      <4> QED
        BY <4>1, <4>2, <4>3
    <3> QED
      BY <3>1
  <2> QED
    BY <2>3
<1>4. ASSUME NEW f, Same(f) PROVE f[2] = c
  <2>1. f[0] = 0 /\ f[1] = (16 * f[0] + d[1]) % 256 /\ f[2] = (16 * f[1] + d[2]) % 256
    BY <1>4
  <2>2. (16 * 0 + d[1]) % 256 = a /\ (16 * a + d[2]) % 256 = c
    BY <1>1, <1>2
  <2> QED
    BY <2>1, <2>2
<1> DEFINE ucs == CHOOSE f : Same(f)
<1>5. Same(ucs)
  BY <1>3
<1>6. ucs[2] = c
  <2> HIDE DEF ucs
  <2> QED
    BY <1>4, <1>5
<1> QED
  BY <1>6 DEF Ucs

\* The digits of a reference: none is ";" or "x".
LEMMA HexDigitIs ==
    ASSUME NEW n \in 0 .. 15
    PROVE  /\ HexDigit(n) \in 48 .. 70 /\ HexDigit(n) \notin {59, 120}
           /\ DigitValue(HexDigit(n)) = n
<1>1. CASE n < 10
  <2>1. HexDigit(n) = 48 + n /\ 48 + n \in 48 .. 57
    BY <1>1 DEF HexDigit
  <2>2. ASSUME NEW x \in 48 .. 57 PROVE DigitValue(x) = x - 48
    <3>1. x \notin 97 .. 102 /\ x \notin 65 .. 70
      OBVIOUS
    <3> QED
      BY <3>1, Zenon DEF DigitValue
  <2>3. DigitValue(48 + n) = n /\ 48 + n \in 48 .. 70 /\ 48 + n \notin {59, 120}
    <3> DEFINE x == 48 + n
    <3>1. x \in 48 .. 57 /\ x - 48 = n
      BY <2>1
    <3> HIDE DEF x
    <3>2. DigitValue(x) = n
      BY <2>2, <3>1
    <3>3. x \in 48 .. 70 /\ x \notin {59, 120}
      BY <3>1
    <3> QED
      BY <3>2, <3>3 DEF x
  <2> QED
    BY <2>1, <2>3
<1>2. CASE n >= 10
  <2>1. HexDigit(n) = 55 + n /\ 55 + n \in 65 .. 70
    BY <1>2 DEF HexDigit
  <2>2. ASSUME NEW x \in 65 .. 70 PROVE DigitValue(x) = x - 55
    BY DEF DigitValue
  <2> QED
    BY <2>1, <2>2
<1> QED
  BY <1>1, <1>2

\* A character reference is read as its character.
LEMMA ReferenceRead ==
    ASSUME NEW t \in Seq(Nat), NEW p \in 1 .. Len(t), NEW c \in 1 .. 31, Stands(t, p, Reference(c))
    PROVE  GetChar(t, p) = Got(<<c>>, p + 6)
<1> DEFINE a == c \div 16
           b == c % 16
<1>1. a \in 0 .. 15 /\ b \in 0 .. 15
  OBVIOUS
<1>2. /\ HexDigit(a) \in 48 .. 70 /\ HexDigit(b) \in 48 .. 70
      /\ HexDigit(a) \notin {59, 120} /\ HexDigit(b) \notin {59, 120}
      /\ DigitValue(HexDigit(a)) = a /\ DigitValue(HexDigit(b)) = b
  <2> HIDE DEF a, b
  <2> QED
    BY <1>1, HexDigitIs
<1>3. p + 5 <= Len(t) /\ \A k \in 1 .. 6 : t[p + k - 1] = Reference(c)[k]
  <2>1. Len(Reference(c)) = 6
    BY DEF Reference
  <2> QED
    BY <2>1 DEF Stands
<1>4. /\ t[p] = 38 /\ t[p + 1] = 35 /\ t[p + 2] = 120
      /\ t[p + 3] = HexDigit(a) /\ t[p + 4] = HexDigit(b) /\ t[p + 5] = 59
  <2>1. /\ Reference(c)[1] = 38 /\ Reference(c)[2] = 35 /\ Reference(c)[3] = 120
        /\ Reference(c)[4] = HexDigit(a) /\ Reference(c)[5] = HexDigit(b)
        /\ Reference(c)[6] = 59
    BY DEF Reference, Ampersand, Hash, LetterX, Semicolon
  <2>2. /\ p + 1 - 1 = p /\ p + 2 - 1 = p + 1 /\ p + 3 - 1 = p + 2
        /\ p + 4 - 1 = p + 3 /\ p + 5 - 1 = p + 4 /\ p + 6 - 1 = p + 5
    OBVIOUS
  <2>3. /\ t[p + 1 - 1] = Reference(c)[1] /\ t[p + 2 - 1] = Reference(c)[2]
        /\ t[p + 3 - 1] = Reference(c)[3] /\ t[p + 4 - 1] = Reference(c)[4]
        /\ t[p + 5 - 1] = Reference(c)[5] /\ t[p + 6 - 1] = Reference(c)[6]
    BY <1>3
  <2> HIDE DEF a, b
  <2> QED
    BY <2>1, <2>2, <2>3
<1> HIDE DEF a, b
<1> DEFINE ends == From(t, p + 2, Semicolon)
           marks == {k \in p .. p + 5 : t[k] = LetterX}
<1>5. Earliest(ends) = p + 5 /\ ends # {}
  <2>1. ends \in SUBSET Nat /\ p + 5 \in ends
    BY <1>3, <1>4 DEF From, Semicolon
  <2>2. \A k \in ends : p + 5 <= k
    <3>1. ASSUME NEW k \in ends, k < p + 5 PROVE FALSE
      <4>1. k \in (p + 2) .. Len(t) /\ t[k] = 59
        BY DEF From, Semicolon
      <4>2. k = p + 2 \/ k = p + 3 \/ k = p + 4
        BY <3>1, <4>1
      <4> QED
        BY <1>2, <1>4, <4>1, <4>2
    <3>2. \A k \in ends : k \in Nat
      BY <2>1
    <3> QED
      BY <3>1, <3>2
  <2> HIDE DEF ends
  <2>3. Earliest(ends) \in ends /\ \A k \in ends : Earliest(ends) <= k
    BY <2>1, EarliestIs
  <2>4. Earliest(ends) <= p + 5 /\ p + 5 <= Earliest(ends) /\ Earliest(ends) \in Nat
    BY <2>1, <2>2, <2>3
  <2> QED
    BY <2>1, <2>4
<1>6. Latest(marks) = p + 2
  <2>1. marks \in SUBSET (0 .. p + 5) /\ p + 2 \in marks
    BY <1>4 DEF LetterX
  <2>2. \A k \in marks : k <= p + 2
    <3>1. ASSUME NEW k \in marks, k > p + 2 PROVE FALSE
      <4>1. k \in p .. p + 5 /\ t[k] = 120
        BY DEF LetterX
      <4>2. k = p + 3 \/ k = p + 4 \/ k = p + 5
        BY <3>1, <4>1
      <4>3. HexDigit(a) # 120 /\ HexDigit(b) # 120
        BY <1>2
      <4> QED
        BY <1>4, <4>1, <4>2, <4>3
    <3>2. \A k \in marks : k \in Nat
      BY <2>1
    <3> QED
      BY <3>1, <3>2
  <2> HIDE DEF marks
  <2>3. Latest(marks) \in marks /\ \A k \in marks : k <= Latest(marks)
    <3>1. p + 5 \in Nat /\ marks # {}
      BY <2>1
    <3> QED
      BY <2>1, <3>1, LatestIs
  <2>4. Latest(marks) <= p + 2 /\ p + 2 <= Latest(marks)
    BY <2>1, <2>2, <2>3
  <2>5. Latest(marks) \in 0 .. p + 5
    BY <2>1, <2>3
  <2> QED
    BY <2>4, <2>5
<1> DEFINE digits == [k \in 1 .. 2 |-> DigitValue(t[p + 2 + k])]
<1>7. digits = [k \in 1 .. 2 |-> IF k = 1 THEN a ELSE b]
  <2>1. digits[1] = a /\ digits[2] = b
    <3>1. p + 2 + 1 = p + 3 /\ p + 2 + 2 = p + 4
      OBVIOUS
    <3>2. digits[1] = DigitValue(t[p + 3]) /\ digits[2] = DigitValue(t[p + 4])
      BY <3>1
    <3> QED
      BY <1>2, <1>4, <3>2
  <2> QED
    BY <2>1
<1>8. ~ \E k \in DOMAIN digits : digits[k] >= 16
  <2> HIDE DEF digits
  <2>1. ASSUME NEW k \in DOMAIN digits PROVE ~ (digits[k] >= 16)
    <3>1. k \in 1 .. 2 /\ digits[k] = IF k = 1 THEN a ELSE b
      BY <1>7
    <3> QED
      BY <1>1, <3>1
  <2> QED
    BY <2>1
<1>9. Numeric(t, p, LetterX, 16) = Got(<<c>>, p + 6)
  <2> DEFINE Marks(e) == {k \in p .. e : t[k] = LetterX}
             Digits(e, m) == [k \in 1 .. e - m - 1 |-> DigitValue(t[m + k])]
             e == Earliest(ends)
             m == Latest(Marks(e))
  <2>1. Numeric(t, p, LetterX, 16) =
            IF ends = {} \/ \E k \in DOMAIN Digits(e, m) : Digits(e, m)[k] >= 16
            THEN Got(<<>>, 0) ELSE Got(<<Ucs(Digits(e, m), e - m - 1)>>, e + 1)
    BY Zenon DEF Numeric, Ucs
  <2>2. Marks(p + 5) = marks
    OBVIOUS
  <2>3. Digits(p + 5, p + 2) = digits
    <3>1. p + 5 - (p + 2) - 1 = 2
      OBVIOUS
    <3> QED
      BY <3>1
  <2>4. Ucs(digits, 2) = c
    <3>1. digits = [k \in 1 .. 2 |-> IF k = 1 THEN c \div 16 ELSE c % 16] /\ c \in 0 .. 255
      BY <1>7 DEF a, b
    <3> HIDE DEF digits
    <3> QED
      BY <3>1, TwoDigits
  <2> HIDE DEF Marks, Digits, ends, digits, marks
  <2>5. e = p + 5 /\ m = p + 2
    BY <1>5, <1>6, <2>2
  <2>6. e - m - 1 = 2 /\ e + 1 = p + 6
    BY <2>5
  <2> HIDE DEF e, m
  <2> QED
    BY <1>5, <1>8, <2>1, <2>3, <2>4, <2>5, <2>6
<1>10. p + 2 <= Len(t)
  BY <1>3
<1> QED
  BY <1>4, <1>9, <1>10 DEF GetChar, GetEntity, Ampersand, Hash, LetterX

\* What was written of a character is read as this character.
LEMMA CharacterRead ==
    ASSUME NEW t \in Seq(Nat), NEW p \in 1 .. Len(t), NEW c \in 1 .. 255, Stands(t, p, Encoded(c))
    PROVE  /\ t[p] \notin {DoubleQuote, SingleQuote}
           /\ GetChar(t, p) = Got(<<c>>, p + Len(Encoded(c)))
<1>1. t[p] = Encoded(c)[1]
  <2> DEFINE w == Encoded(c)
             m == Len(w)
  <2>1. m \in 1 .. 6
    BY EncodedIs
  <2>2. \A k \in 1 .. m : t[p + k - 1] = w[k]
    BY DEF Stands
  <2> HIDE DEF w, m
  <2>3. t[p + 1 - 1] = w[1] /\ p + 1 - 1 = p
    BY <2>1, <2>2
  <2> QED
    BY <2>3 DEF w
<1>2. t[p] \notin {DoubleQuote, SingleQuote}
  BY <1>1, EncodedIs
<1>3. CASE c \in DOMAIN entity
  <2>1. Encoded(c) = entity[c]
    BY <1>3, EncodedIs
  <2>2. Stands(t, p, entity[c])
    BY <2>1
  <2>3. GetChar(t, p) = Got(<<c>>, p + Len(entity[c]))
    BY <1>3, <2>2, EntityRead
  <2> QED
    BY <1>2, <2>1, <2>3
<1>4. CASE c \notin DOMAIN entity /\ c < 32
  <2>1. Encoded(c) = Reference(c)
    BY <1>4, EncodedIs
  <2>3. Len(Reference(c)) = 6
    BY DEF Reference
  <2>4. c \in 1 .. 31
    BY <1>4
  <2>2. GetChar(t, p) = Got(<<c>>, p + 6)
    BY <2>1, <2>4, ReferenceRead
  <2> QED
    BY <1>2, <2>1, <2>2, <2>3
<1>5. CASE c \notin DOMAIN entity /\ c >= 32
  <2>1. Encoded(c) = <<c>> /\ Len(<<c>>) = 1
    BY <1>5, EncodedIs
  <2>2. t[p] = c /\ c # Ampersand
    BY <1>1, <1>5, <2>1, EntityIs DEF Ampersand
  <2>3. GetChar(t, p) = Got(<<c>>, p + 1)
    BY <2>2 DEF GetChar
  <2> QED
    BY <1>2, <2>1, <2>3
<1> QED
  BY <1>3, <1>4, <1>5
-----------------------------------------------------------------------------
\* A string without character references of its own is written character by character.
LEMMA EncodeStringIs ==
    ASSUME NEW s \in Seq(1 .. 255), \A i \in DOMAIN s : ~ BeginsReference(s, i)
    PROVE  \E enc : /\ EncodeString(s) = enc[1]
                    /\ enc[Len(s) + 1] = <<>>
                    /\ \A i \in 1 .. Len(s) : enc[i] = Encoded(s[i]) \o enc[i + 1]
                    /\ \A i \in 1 .. Len(s) + 1 : enc[i] \in Seq(Nat)
<1> DEFINE n == Len(s)
           Body(e, i) ==
               IF i > Len(s) THEN <<>>
               ELSE IF BeginsReference(s, i)
                    THEN LET j == Earliest(From(s, i, Semicolon) \cup {Len(s)})
                         IN  SubSeq(s, i, j - 1) \o e[j]
                    ELSE Encoded(s[i]) \o e[i + 1]
           Same(e) == e = [i \in 1 .. Len(s) + 1 |-> Body(e, i)]
           enc == CHOOSE e : Same(e)
           Step(e) == [i \in 1 .. n + 1 |-> IF i > n THEN <<>> ELSE Encoded(s[i]) \o e[i + 1]]
           Good(k, e) == \A i \in 1 .. n + 1 : i + k > n + 1 => e[i] = Step(e)[i]
           T == {k \in Nat : \E e : Good(k, e)}
<1>0. n \in Nat /\ n = Len(s) /\ DOMAIN s = 1 .. n
  OBVIOUS
<1>1. 0 \in T
  <2>1. Good(0, <<>>)
    BY <1>0
  <2> QED
    BY <2>1
<1>2. ASSUME NEW k \in Nat, k \in T
      PROVE  k + 1 \in T
  <2>1. PICK e : Good(k, e)
    BY <1>2
  <2>2. ASSUME NEW i \in 1 .. n + 1, i + (k + 1) > n + 1
        PROVE  Step(e)[i] = Step(Step(e))[i]
    <3>1. CASE i > n
      BY <3>1
    <3>2. CASE ~ (i > n)
      <4>1. i + 1 \in 1 .. n + 1 /\ i + 1 + k > n + 1
        BY <1>0, <2>2, <3>2
      <4>2. e[i + 1] = Step(e)[i + 1]
        BY <2>1, <4>1
      <4>3. Step(e)[i] = Encoded(s[i]) \o e[i + 1]
        BY <3>2
      <4>4. Step(Step(e))[i] = Encoded(s[i]) \o Step(e)[i + 1]
        <5> DEFINE g == Step(e)
        <5> HIDE DEF g
        <5>1. Step(g)[i] = Encoded(s[i]) \o g[i + 1]
          BY <3>2
        <5> QED
          BY <5>1 DEF g
      <4> QED
        BY <4>2, <4>3, <4>4
    <3> QED
      BY <3>1, <3>2
  <2>3. Good(k + 1, Step(e))
    BY <2>2
  <2> HIDE DEF Good
  <2> QED
    BY <2>3
<1>3. n + 1 \in T
  <2> HIDE DEF T
  <2> QED
    BY <1>0, <1>1, <1>2, NatAll
<1>4. PICK e : Good(n + 1, e)
  BY <1>3
<1> DEFINE f == Step(e)
<1>5. \A i \in 1 .. n + 1 : f[i] = Step(f)[i]
  <2>1. \A i \in 1 .. n + 1 : e[i] = f[i]
    BY <1>0, <1>4
  <2>2. \A i \in 1 .. n : Step(f)[i] = Encoded(s[i]) \o f[i + 1] /\ f[i] = Encoded(s[i]) \o e[i + 1]
    <3> DEFINE g == f
    <3>1. \A i \in 1 .. n : ~ (i > n) /\ i \in 1 .. n + 1
      BY <1>0
    <3>2. \A i \in 1 .. n : f[i] = Encoded(s[i]) \o e[i + 1]
      BY <3>1
    <3> HIDE DEF g
    <3>3. \A i \in 1 .. n : Step(g)[i] = Encoded(s[i]) \o g[i + 1]
      BY <3>1
    <3> QED
      BY <3>2, <3>3 DEF g
  <2>3. Step(f)[n + 1] = <<>> /\ f[n + 1] = <<>>
    BY <1>0
  <2> HIDE DEF Step, f
  <2>4. \A i \in 1 .. n : f[i] = Step(f)[i]
    <3> TAKE i \in 1 .. n
    <3>1. i + 1 \in 1 .. n + 1
      BY <1>0
    <3> QED
      BY <2>1, <2>2, <3>1
  <2>5. \A i \in 1 .. n + 1 : i \in 1 .. n \/ i = n + 1
    BY <1>0
  <2> QED
    BY <2>3, <2>4, <2>5
<1>6. Same(f)
  <2>1. \A i \in 1 .. n + 1 : Step(f)[i] = Body(f, i)
    <3> DEFINE g == f
    <3> HIDE DEF g
    <3>1. \A i \in 1 .. n + 1 : Step(g)[i] = Body(g, i)
      <4> TAKE i \in 1 .. n + 1
      <4>1. i > n \/ i \in DOMAIN s
        BY <1>0
      <4> QED
        BY <4>1
    <3> QED
      BY <3>1 DEF g
  <2>2. f = [i \in 1 .. n + 1 |-> f[i]]
    OBVIOUS
  <2>3. \A i \in 1 .. n + 1 : f[i] = Body(f, i)
    BY <1>5, <2>1
  <2> HIDE DEF f, Body
  <2>4. [i \in 1 .. n + 1 |-> f[i]] = [i \in 1 .. n + 1 |-> Body(f, i)]
    BY <2>3
  <2> QED
    BY <2>2, <2>4
<1>7. Same(enc)
  <2> HIDE DEF Same
  <2> QED
    BY <1>6
<1>8. EncodeString(s) = enc[1]
  BY DEF EncodeString
<1>9. enc[n + 1] = <<>> /\ \A i \in 1 .. n : enc[i] = Encoded(s[i]) \o enc[i + 1]
  <2> HIDE DEF enc
  <2>1. \A i \in 1 .. n + 1 : enc[i] = Body(enc, i)
    <3> HIDE DEF Body
    <3> QED
      BY <1>7
  <2>2. Body(enc, n + 1) = <<>>
    BY <1>0
  <2>3. \A i \in 1 .. n : Body(enc, i) = Encoded(s[i]) \o enc[i + 1]
    <3> TAKE i \in 1 .. n
    <3>1. ~ (i > Len(s)) /\ ~ BeginsReference(s, i)
      BY <1>0
    <3> QED
      BY <3>1
  <2> HIDE DEF Body
  <2> QED
    BY <1>0, <2>1, <2>2, <2>3
<1>10. \A i \in 1 .. n + 1 : enc[i] \in Seq(Nat)
  <2> HIDE DEF enc
  <2> DEFINE U == {k \in Nat : k <= n => enc[n + 1 - k] \in Seq(Nat)}
  <2>1. 0 \in U
    <3>1. n + 1 - 0 = n + 1
      BY <1>0
    <3>2. enc[n + 1] \in Seq(Nat)
      BY <1>9
    <3> QED
      BY <3>1, <3>2
  <2>2. ASSUME NEW k \in Nat, k \in U, k + 1 <= n
        PROVE  enc[n + 1 - (k + 1)] \in Seq(Nat)
    <3> DEFINE i == n + 1 - (k + 1)
    <3>1. i \in 1 .. n /\ i + 1 = n + 1 - k /\ k <= n
      BY <1>0, <2>2
    <3>2. enc[i + 1] \in Seq(Nat)
      BY <2>2, <3>1
    <3> HIDE DEF i
    <3>3. s[i] \in 1 .. 255
      <4>1. i \in 1 .. Len(s)
        BY <1>0, <3>1
      <4> QED
        BY <4>1, ElementOfSeq
    <3>4. Encoded(s[i]) \in Seq(Nat)
      BY <3>3, EncodedIs
    <3>5. enc[i] = Encoded(s[i]) \o enc[i + 1]
      BY <1>9, <3>1
    <3> QED
      BY <3>2, <3>4, <3>5, ConcatProperties DEF i
  <2>3. \A k \in Nat : k \in U => k + 1 \in U
    <3> TAKE k \in Nat
    <3>1. k + 1 \in Nat
      OBVIOUS
    <3> QED
      BY <2>2, <3>1
  <2>4. \A k \in Nat : k \in U
    <3> HIDE DEF U
    <3> QED
      BY <2>1, <2>3, NatAll
  <2> TAKE i \in 1 .. n + 1
  <2>5. n + 1 - i \in Nat /\ n + 1 - i <= n /\ n + 1 - (n + 1 - i) = i
    BY <1>0
  <2> QED
    BY <2>4, <2>5
<1> HIDE DEF enc
<1> QED
  BY <1>8, <1>9, <1>10

\* The word w stands in t where a word beginning with w does; the rest stands behind it.
LEMMA StandsBoth ==
    ASSUME NEW t \in Seq(Nat), NEW p \in 1 .. Len(t), NEW v \in Seq(Nat), NEW w \in Seq(Nat)
    PROVE  Stands(t, p, v \o w) => Stands(t, p, v) /\ Stands(t, p + Len(v), w)
<1> SUFFICES ASSUME Stands(t, p, v \o w)
             PROVE  Stands(t, p, v) /\ Stands(t, p + Len(v), w)
  OBVIOUS
<1> DEFINE m == Len(v)
           n == Len(w)
           u == v \o w
<1>1. m \in Nat /\ n \in Nat /\ m = Len(v) /\ n = Len(w)
  OBVIOUS
<1>2. Len(u) = m + n /\ \A k \in 1 .. m + n : u[k] = IF k <= m THEN v[k] ELSE w[k - m]
  BY ConcatProperties
<1>3. p + Len(u) <= Len(t) + 1 /\ \A k \in 1 .. Len(u) : t[p + k - 1] = u[k]
  BY DEF Stands
<1> HIDE DEF m, n, u
<1>4. p + (m + n) <= Len(t) + 1 /\ \A k \in 1 .. m + n : t[p + k - 1] = u[k]
  BY <1>2, <1>3
<1>5. Stands(t, p, v)
  <2>1. p + m <= Len(t) + 1
    BY <1>1, <1>4
  <2>2. \A k \in 1 .. m : t[p + k - 1] = v[k]
    <3> TAKE k \in 1 .. m
    <3>1. k \in 1 .. m + n /\ k <= m
      BY <1>1
    <3>2. t[p + k - 1] = u[k]
      BY <1>4, <3>1
    <3>3. u[k] = v[k]
      BY <1>2, <3>1
    <3> QED
      BY <3>2, <3>3
  <2> QED
    BY <1>1, <2>1, <2>2 DEF Stands
<1>6. Stands(t, p + m, w)
  <2>1. p + m + n <= Len(t) + 1
    BY <1>1, <1>4
  <2>2. \A k \in 1 .. n : t[p + m + k - 1] = w[k]
    <3> TAKE k \in 1 .. n
    <3>1. m + k \in 1 .. m + n /\ ~ (m + k <= m) /\ m + k - m = k /\ p + (m + k) - 1 = p + m + k - 1
      BY <1>1
    <3>2. t[p + (m + k) - 1] = u[m + k]
      BY <1>4, <3>1
    <3> DEFINE j == m + k
    <3>3. j \in 1 .. m + n /\ ~ (j <= m) /\ j - m = k
      BY <1>1
    <3>5. t[p + m + k - 1] = u[j]
      BY <3>1, <3>2
    <3> HIDE DEF j
    <3>4. u[j] = w[k]
      BY <1>2, <3>3
    <3> QED
      BY <3>4, <3>5
  <2> QED
    BY <1>1, <2>1, <2>2 DEF Stands
<1> QED
  BY <1>5, <1>6 DEF m

\* A value behind its opening quote, with its closing quote and something after it, is read
\* as the string it was written from.
LEMMA StringRead ==
    ASSUME NEW s \in Seq(1 .. 255), \A i \in DOMAIN s : ~ BeginsReference(s, i),
           NEW q \in {DoubleQuote, SingleQuote}, NEW t \in Seq(Nat),
           Len(t) = Len(EncodeString(s)) + 3, Stands(t, 2, EncodeString(s)), t[Len(t) - 1] = q
    PROVE  ReadText(t, 2, q) = Got(s, Len(t))
<1> DEFINE n == Len(s)
           read == ReadOf(t, q)
           N == Len(t)
<1>0. n \in Nat /\ n = Len(s) /\ DOMAIN s = 1 .. n /\ N \in Nat /\ N = Len(t)
  OBVIOUS
<1>1. PICK enc : /\ EncodeString(s) = enc[1]
                 /\ enc[n + 1] = <<>>
                 /\ \A i \in 1 .. n : enc[i] = Encoded(s[i]) \o enc[i + 1]
                 /\ \A i \in 1 .. n + 1 : enc[i] \in Seq(Nat)
  BY EncodeStringIs
<1>2. ReadText(t, 2, q) = read[2] /\ \A p \in 0 .. N + 1 : read[p] = ReadStep(t, q, read, p)
  BY ReadTextIs
<1> HIDE DEF read, n, N
<1> DEFINE Lies(i, p) == Stands(t, p, enc[i]) /\ p + Len(enc[i]) = N - 1
           Right(i) == \A p \in 1 .. N : Lies(i, p) => read[p] = Got(SubSeq(s, i, n), N)
           T == {k \in Nat : k <= n => Right(n + 1 - k)}
<1>3. t[N - 1] = q /\ Lies(1, 2) /\ 2 \in 1 .. N
  <2>1. enc[1] \in Seq(Nat) /\ Len(enc[1]) \in Nat
    <3>1. 1 \in 1 .. n + 1
      BY <1>0
    <3> QED
      BY <1>1, <3>1, LenProperties
  <2>2. N = Len(enc[1]) + 3 /\ Stands(t, 2, enc[1]) /\ t[N - 1] = q
    BY <1>0, <1>1, <2>1
  <2>3. 2 + Len(enc[1]) = N - 1 /\ 2 \in 1 .. N
    BY <1>0, <2>1, <2>2
  <2> QED
    BY <2>2, <2>3
<1>4. 0 \in T
  <2>1. ASSUME NEW p \in 1 .. N, Lies(n + 1, p)
        PROVE  read[p] = Got(SubSeq(s, n + 1, n), N)
    <3>1. enc[n + 1] = <<>> /\ Len(<<>>) = 0
      BY <1>1
    <3>2. p = N - 1
      BY <1>0, <2>1, <3>1
    <3>3. p \in 1 .. Len(t) /\ t[p] = q /\ p < Len(t) /\ p \in 0 .. N + 1 /\ p + 1 = N /\ p # 0 /\ ~(p > Len(t))
      BY <1>0, <1>3, <3>2
    <3>4. ReadStep(t, q, read, p) = Got(<<>>, N)
      BY <3>3 DEF ReadStep
    <3>5. SubSeq(s, n + 1, n) = <<>>
      BY <1>0, SubSeqEmpty
    <3> QED
      BY <1>2, <3>3, <3>4, <3>5
  <2>2. n + 1 - 0 = n + 1
    BY <1>0
  <2> HIDE DEF Lies
  <2> QED
    BY <2>1, <2>2
<1>5. ASSUME NEW k \in Nat, k \in T, k + 1 <= n
      PROVE  Right(n + 1 - (k + 1))
  <2> DEFINE i == n + 1 - (k + 1)
  <2>1. i \in 1 .. n /\ i + 1 = n + 1 - k /\ k <= n /\ i + 1 \in 1 .. n + 1
    BY <1>0, <1>5
  <2>2. Right(i + 1)
    BY <1>5, <2>1
  <2> HIDE DEF i
  <2> SUFFICES ASSUME NEW p \in 1 .. N, Lies(i, p)
               PROVE  read[p] = Got(SubSeq(s, i, n), N)
    BY DEF i
  <2> DEFINE c == s[i]
             m == Len(Encoded(c))
  <2>3. c \in 1 .. 255
    <3>1. i \in 1 .. Len(s)
      BY <1>0, <2>1
    <3> QED
      BY <3>1, ElementOfSeq
  <2>4. Encoded(c) \in Seq(Nat) /\ m \in 1 .. 6
    <3> HIDE DEF c
    <3> QED
      BY <2>3, EncodedIs
  <2>5. enc[i] = Encoded(c) \o enc[i + 1] /\ enc[i + 1] \in Seq(Nat) /\ enc[i] \in Seq(Nat)
    <3>1. enc[i] = Encoded(s[i]) \o enc[i + 1]
      BY <1>1, <2>1
    <3>2. i \in 1 .. n + 1 /\ i + 1 \in 1 .. n + 1
      BY <1>0, <2>1
    <3> QED
      BY <1>1, <3>1, <3>2
  <2> HIDE DEF c
  <2> DEFINE r == Len(enc[i + 1])
  <2>6. r \in Nat /\ Len(enc[i]) = m + r
    BY <2>4, <2>5, ConcatProperties, LenProperties
  <2>7. Stands(t, p, Encoded(c)) /\ Stands(t, p + m, enc[i + 1])
    <3>1. Stands(t, p, Encoded(c) \o enc[i + 1])
      BY <2>5
    <3>2. p \in 1 .. Len(t)
      BY <1>0
    <3> QED
      BY <2>4, <2>5, <3>1, <3>2, StandsBoth
  <2> HIDE DEF m, r
  <2>8. p + m \in 1 .. N /\ p + m + r = N - 1
    BY <1>0, <2>4, <2>6
  <2>9. Lies(i + 1, p + m)
    BY <2>7, <2>8 DEF r
  <2>10. read[p + m] = Got(SubSeq(s, i + 1, n), N)
    <3> HIDE DEF Lies
    <3> QED
      BY <2>2, <2>8, <2>9
  <2>11. t[p] # q /\ GetChar(t, p) = Got(<<c>>, p + m)
    <3>1. p \in 1 .. Len(t)
      BY <1>0
    <3> QED
      BY <2>3, <2>7, <3>1, CharacterRead DEF m
  <2>12. ReadStep(t, q, read, p) = Got(<<c>> \o SubSeq(s, i + 1, n), N)
    <3>1. ~(p = 0) /\ ~(p > Len(t)) /\ p \in 1 .. Len(t)
      BY <1>0
    <3>2. /\ GetChar(t, p).value = <<c>> /\ GetChar(t, p).next = p + m
          /\ read[p + m].value = SubSeq(s, i + 1, n) /\ read[p + m].next = N
      <4>1. \A v, w : Got(v, w).value = v /\ Got(v, w).next = w
        BY DEF Got
      <4>2. Got(<<c>>, p + m).value = <<c>> /\ Got(<<c>>, p + m).next = p + m
        BY <4>1
      <4>3. /\ Got(SubSeq(s, i + 1, n), N).value = SubSeq(s, i + 1, n)
            /\ Got(SubSeq(s, i + 1, n), N).next = N
        BY <4>1
      <4> QED
        BY <2>10, <2>11, <4>2, <4>3, Zenon
    <3> QED
      BY <2>11, <3>1, <3>2 DEF ReadStep
  <2>13. <<c>> \o SubSeq(s, i + 1, n) = SubSeq(s, i, n)
    <3> DEFINE v == SubSeq(s, i + 1, n)
               w == SubSeq(s, i, n)
    <3>1. \A j \in 1 .. n : s[j] \in 1 .. 255
      BY <1>0, ElementOfSeq
    <3>2. /\ v \in Seq(1 .. 255) /\ Len(v) = n - i
          /\ \A j \in 1 .. n - i : v[j] = s[i + j]
      <4>1. \A j \in i + 1 .. n : s[j] \in 1 .. 255
        BY <1>0, <2>1, <3>1
      <4> DEFINE a == i + 1
      <4>2. /\ a \in Int /\ n \in Int /\ (IF a <= n THEN n - a + 1 ELSE 0) = n - i
            /\ n - a + 1 = n - i /\ \A j \in 1 .. n - i : a + j - 1 = i + j
        BY <1>0, <2>1
      <4>3. \A j \in a .. n : s[j] \in 1 .. 255
        BY <4>1
      <4>4. v = SubSeq(s, a, n)
        OBVIOUS
      <4> HIDE DEF a, v
      <4> QED
        BY <4>2, <4>3, <4>4, SubSeqProperties
    <3>3. /\ w \in Seq(1 .. 255) /\ Len(w) = n - i + 1
          /\ \A j \in 1 .. n - i + 1 : w[j] = s[i + j - 1]
      <4>1. \A j \in i .. n : s[j] \in 1 .. 255
        BY <1>0, <2>1, <3>1
      <4>2. i \in Int /\ n \in Int /\ (IF i <= n THEN n - i + 1 ELSE 0) = n - i + 1
        BY <1>0, <2>1
      <4> QED
        BY <4>1, <4>2, SubSeqProperties
    <3>4. <<c>> \in Seq(1 .. 255) /\ Len(<<c>>) = 1 /\ <<c>>[1] = c
      BY <2>3
    <3> HIDE DEF v, w
    <3>5. /\ <<c>> \o v \in Seq(1 .. 255) /\ Len(<<c>> \o v) = n - i + 1
          /\ \A j \in 1 .. n - i + 1 : (<<c>> \o v)[j] = IF j <= 1 THEN <<c>>[j] ELSE v[j - 1]
      <4>1. 1 + (n - i) = n - i + 1
        BY <1>0, <2>1
      <4> QED
        BY <3>2, <3>4, <4>1, ConcatProperties
    <3>6. \A j \in 1 .. n - i + 1 : (<<c>> \o v)[j] = w[j]
      <4> TAKE j \in 1 .. n - i + 1
      <4>1. CASE j = 1
        <5>1. i + 1 - 1 = i /\ j <= 1
          BY <2>1, <4>1
        <5> QED
          BY <3>3, <3>4, <3>5, <4>1, <5>1 DEF c
      <4>2. CASE j # 1
        <5>1. j - 1 \in 1 .. n - i /\ i + (j - 1) = i + j - 1 /\ ~(j <= 1)
          BY <1>0, <2>1, <4>2
        <5>2. (<<c>> \o v)[j] = v[j - 1] /\ v[j - 1] = s[i + (j - 1)] /\ w[j] = s[i + j - 1]
          BY <3>2, <3>3, <3>5, <5>1
        <5> QED
          BY <5>1, <5>2
      <4> QED
        BY <4>1, <4>2
    <3>7. <<c>> \o v = w
      BY <3>3, <3>5, <3>6, SeqEqual
    <3> QED
      BY <3>7 DEF v, w
  <2>14. p \in 0 .. N + 1
    BY <1>0
  <2> QED
    BY <1>2, <2>12, <2>13, <2>14
<1>6. \A k \in Nat : k \in T => k + 1 \in T
  <2> HIDE DEF Right
  <2> TAKE k \in Nat
  <2>1. k + 1 \in Nat
    OBVIOUS
  <2> QED
    BY <1>5, <2>1
<1>7. \A k \in Nat : k \in T
  <2> HIDE DEF T
  <2> QED
    BY <1>4, <1>6, NatAll
<1>8. Right(1)
  <2>1. n \in Nat /\ n <= n /\ n + 1 - n = 1
    BY <1>0
  <2> HIDE DEF Right
  <2> QED
    BY <1>7, <2>1
<1>9. SubSeq(s, 1, n) = s
  <2>1. \A j \in 1 .. n : s[j] \in 1 .. 255
    BY <1>0, ElementOfSeq
  <2>2. /\ SubSeq(s, 1, n) \in Seq(1 .. 255) /\ Len(SubSeq(s, 1, n)) = n
        /\ \A j \in 1 .. n : SubSeq(s, 1, n)[j] = s[j]
    <3>1. 1 \in Int /\ n \in Int /\ (IF 1 <= n THEN n - 1 + 1 ELSE 0) = n
          /\ n - 1 + 1 = n /\ \A j \in 1 .. n : 1 + j - 1 = j
      BY <1>0
    <3> QED
      BY <2>1, <3>1, SubSeqProperties
  <2> QED
    BY <1>0, <2>2, SeqEqual
<1>10. read[2] = Got(SubSeq(s, 1, n), N)
  <2> HIDE DEF Lies
  <2> QED
    BY <1>3, <1>8
<1> QED
  BY <1>2, <1>9, <1>10 DEF N

\* TinyXML gives back every value: what is true of each string the runs try.
LEMMA ValueReturns ==
    ASSUME NEW s \in Seq(1 .. 255), \A i \in DOMAIN s : ~ BeginsReference(s, i)
    PROVE  ParseValue(Append(PrintValue(s), Blank)) = Got(s, Len(PrintValue(s)) + 1)
<1> DEFINE q == QuoteFor(s)
           e == EncodeString(s)
           t == Append(PrintValue(s), Blank)
           m == Len(e)
<1>1. q \in {DoubleQuote, SingleQuote} /\ q \in Nat /\ Blank \in Nat
  BY DEF QuoteFor, DoubleQuote, SingleQuote, Blank
<1>2. e \in Seq(Nat) /\ m \in Nat
  <2>1. PICK enc : e = enc[1] /\ \A i \in 1 .. Len(s) + 1 : enc[i] \in Seq(Nat)
    BY EncodeStringIs
  <2>2. 1 \in 1 .. Len(s) + 1
    OBVIOUS
  <2> QED
    BY <2>1, <2>2
<1>3. PrintValue(s) = <<q>> \o e \o <<q>>
  BY DEF PrintValue
<1> HIDE DEF q, e
<1>4. /\ <<q>> \o e \in Seq(Nat) /\ Len(<<q>> \o e) = m + 1
      /\ \A k \in 1 .. m + 1 : (<<q>> \o e)[k] = IF k <= 1 THEN <<q>>[k] ELSE e[k - 1]
  <2>1. <<q>> \in Seq(Nat) /\ Len(<<q>>) = 1 /\ 1 + Len(e) = m + 1
    BY <1>1, <1>2
  <2> HIDE DEF m
  <2> QED
    BY <1>2, <2>1, ConcatProperties
<1> DEFINE u == <<q>> \o e
<1>5. /\ u \o <<q>> \in Seq(Nat) /\ Len(u \o <<q>>) = m + 2
      /\ \A k \in 1 .. m + 2 : (u \o <<q>>)[k] = IF k <= m + 1 THEN u[k] ELSE <<q>>[k - (m + 1)]
  <2>1. u \in Seq(Nat) /\ <<q>> \in Seq(Nat) /\ Len(u) = m + 1 /\ Len(u) + Len(<<q>>) = m + 2
    BY <1>1, <1>2, <1>4
  <2> HIDE DEF m, u
  <2> QED
    BY <2>1, ConcatProperties
<1>6. /\ t \in Seq(Nat) /\ Len(t) = m + 3
      /\ \A k \in 1 .. m + 2 : t[k] = (u \o <<q>>)[k]
  <2> DEFINE w == u \o <<q>>
  <2>1. t = Append(w, Blank) /\ w \in Seq(Nat) /\ Len(w) = m + 2
    BY <1>3, <1>5
  <2> HIDE DEF w, t, m, u
  <2>2. t \in Seq(Nat) /\ Len(t) = Len(w) + 1 /\ \A k \in 1 .. Len(w) : t[k] = w[k]
    BY <1>1, <2>1, AppendProperties
  <2> QED
    BY <1>2, <2>1, <2>2 DEF w
<1> HIDE DEF u, m
<1>7. t[1] = q
  <2>1. 1 \in 1 .. m + 2 /\ 1 \in 1 .. m + 1 /\ 1 <= m + 1 /\ 1 <= 1 /\ <<q>>[1] = q
    BY <1>2
  <2> HIDE DEF t
  <2> QED
    BY <1>4, <1>5, <1>6, <2>1 DEF u
<1>8. t[m + 2] = q
  <2>1. m + 2 \in 1 .. m + 2 /\ ~ (m + 2 <= m + 1) /\ m + 2 - (m + 1) = 1 /\ <<q>>[1] = q
    BY <1>2
  <2> HIDE DEF t
  <2> QED
    BY <1>5, <1>6, <2>1
<1>9. Stands(t, 2, e)
  <2> HIDE DEF t
  <2>1. \A k \in 1 .. m : t[2 + k - 1] = e[k]
    <3> TAKE k \in 1 .. m
    <3>1. /\ k + 1 \in 1 .. m + 2 /\ k + 1 \in 1 .. m + 1 /\ k + 1 <= m + 1 /\ ~ (k + 1 <= 1)
          /\ k + 1 - 1 = k /\ 2 + k - 1 = k + 1
      BY <1>2
    <3>2. t[k + 1] = (u \o <<q>>)[k + 1] /\ (u \o <<q>>)[k + 1] = u[k + 1]
      BY <1>5, <1>6, <3>1
    <3>3. u[k + 1] = e[k + 1 - 1]
      BY <1>4, <3>1 DEF u
    <3> QED
      BY <3>1, <3>2, <3>3
  <2>2. 2 + m <= Len(t) + 1
    BY <1>2, <1>6
  <2> QED
    BY <2>1, <2>2 DEF Stands, m
<1>10. Len(t) = Len(e) + 3 /\ t[Len(t) - 1] = q
  <2>1. Len(t) - 1 = m + 2
    BY <1>2, <1>6
  <2> HIDE DEF t
  <2> QED
    BY <1>6, <1>8, <2>1 DEF m
<1>11. ReadText(t, 2, q) = Got(s, Len(t))
  <2> HIDE DEF t
  <2> QED
    BY <1>1, <1>6, <1>9, <1>10, StringRead DEF e
<1>12. Len(t) = Len(PrintValue(s)) + 1
  <2>1. Len(PrintValue(s)) = m + 2
    BY <1>3, <1>5 DEF u
  <2> HIDE DEF t
  <2> QED
    BY <1>2, <1>6, <2>1
<1> HIDE DEF t
<1>13. ParseValue(t) = Got(s, Len(PrintValue(s)) + 1)
  BY <1>7, <1>11, <1>12 DEF ParseValue
<1> QED
  BY <1>13 DEF t

\* A value is a sequence of Characters.
TextInv == text \in Seq(Characters)

\* Only characters are typed.
LEMMA TextIsString == Spec => []TextInv
<1>1. Init => TextInv
  BY DEF Init, TextInv
<1>2. TextInv /\ [Next]_xmlVars => TextInv'
  <2> SUFFICES ASSUME TextInv, [Next]_xmlVars PROVE TextInv'
    OBVIOUS
  <2>1. CASE TypeCharacter
    BY <2>1 DEF TypeCharacter, TextInv
  <2>2. CASE UNCHANGED text
    BY <2>2 DEF TextInv
  <2> QED
    BY <2>1, <2>2 DEF Next, TypeName, AddElement, ChangeTree, ChangeAttributes, xmlVars
<1> QED
  BY <1>1, <1>2, PTL DEF Spec

\* A value is read back as it was typed, whatever its characters and its length: what
\* PutString writes in an attribute, ReadText and GetChar give back (no text that looks like a
\* reference is in it, as the property says).
THEOREM ValuesAreReturned == Spec => []ValuesReturn
<1>1. TextInv => ValuesReturn
  <2> SUFFICES ASSUME TextInv, \A i \in DOMAIN text : ~ BeginsReference(text, i)
               PROVE  ParseValue(Append(PrintValue(text), Blank))
                          = Got(text, Len(PrintValue(text)) + 1)
    BY DEF ValuesReturn
  <2>1. text \in Seq(1 .. 255)
    <3>1. Characters \subseteq 1 .. 255
      BY CharactersAssumption
    <3>2. text \in Seq(Characters)
      BY DEF TextInv
    <3> QED
      BY <3>1, <3>2, SeqMonotonic
  <2> QED
    BY <2>1, ValueReturns
<1> QED
  BY <1>1, TextIsString, PTL
-----------------------------------------------------------------------------
CellType == [name : Names \cup {""}, value : Values \cup {""},
             next : Ring \cup {NoCell}, prev : Ring \cup {NoCell}]
Rings == [Ring -> CellType]

\* The n linked cells lie in p between the sentinel and the sentinel, ...
IsRing(s, p, n) ==
    /\ s \in Rings /\ n \in Nat
    /\ p \in [0 .. n + 1 -> Ring] /\ p[0] = sentinel /\ p[n + 1] = sentinel
    /\ \A k \in 1 .. n : p[k] \in Cells
    /\ \A i, j \in 0 .. n : p[i] = p[j] => i = j
    /\ \A k \in 0 .. n : s[p[k]].next = p[k + 1] /\ s[p[k + 1]].prev = p[k]
    /\ \A c \in Cells : s[c].next = NoCell \/ \E k \in 1 .. n : p[k] = c
\* ... and have names, no two the same.
IsNamed(s, p, n) ==
    /\ \A k \in 1 .. n : s[p[k]].name \in Names
    /\ \A i, j \in 1 .. n : s[p[i]].name = s[p[j]].name => i = j

\* The fields of a cell.
LEMMA CellFields ==
    ASSUME NEW s \in Rings, NEW x \in Ring
    PROVE  /\ s[x] \in CellType
           /\ s[x].name \in Names \cup {""} /\ s[x].value \in Values \cup {""}
           /\ s[x].next \in Ring \cup {NoCell} /\ s[x].prev \in Ring \cup {NoCell}
BY DEF Rings, CellType

\* A cell has something else in one field.
NextSet(s, c, v, u) == u = [s EXCEPT ![c].next = v]
PrevSet(s, c, v, u) == u = [s EXCEPT ![c].prev = v]
NameSet(s, c, v, u) == u = [s EXCEPT ![c].name = v]
ValueSet(s, c, v, u) == u = [s EXCEPT ![c].value = v]

\* A cell gets another successor and keeps the rest.
LEMMA NextIsSet ==
    ASSUME NEW s \in Rings, NEW c \in Ring, NEW v \in Ring \cup {NoCell}, NEW u, NextSet(s, c, v, u)
    PROVE  /\ u \in Rings /\ \A x \in Ring : x # c => u[x] = s[x]
           /\ u[c].next = v /\ u[c].name = s[c].name /\ u[c].value = s[c].value /\ u[c].prev = s[c].prev
<1> DEFINE L == Ring \cup {NoCell}
           A == Names \cup {""}
           B == Values \cup {""}
<1>1. Rings = [Ring -> [name : A, value : B, next : L, prev : L]] /\ v \in L
  BY DEF Rings, CellType
<1> HIDE DEF A, B, L
<1> QED
  BY <1>1 DEF NextSet

\* A cell gets another predecessor and keeps the rest.
LEMMA PrevIsSet ==
    ASSUME NEW s \in Rings, NEW c \in Ring, NEW v \in Ring \cup {NoCell}, NEW u, PrevSet(s, c, v, u)
    PROVE  /\ u \in Rings /\ \A x \in Ring : x # c => u[x] = s[x]
           /\ u[c].prev = v /\ u[c].name = s[c].name /\ u[c].value = s[c].value /\ u[c].next = s[c].next
<1> DEFINE L == Ring \cup {NoCell}
           A == Names \cup {""}
           B == Values \cup {""}
<1>1. Rings = [Ring -> [name : A, value : B, next : L, prev : L]] /\ v \in L
  BY DEF Rings, CellType
<1> HIDE DEF A, B, L
<1> QED
  BY <1>1 DEF PrevSet

\* A cell gets its name and keeps the rest.
LEMMA NameIsSet ==
    ASSUME NEW s \in Rings, NEW c \in Ring, NEW v \in Names, NEW u, NameSet(s, c, v, u)
    PROVE  /\ u \in Rings /\ \A x \in Ring : x # c => u[x] = s[x]
           /\ u[c].name = v /\ u[c].value = s[c].value /\ u[c].next = s[c].next /\ u[c].prev = s[c].prev
<1> DEFINE L == Ring \cup {NoCell}
           A == Names \cup {""}
           B == Values \cup {""}
<1>1. Rings = [Ring -> [name : A, value : B, next : L, prev : L]] /\ v \in A
  BY DEF Rings, CellType
<1> HIDE DEF A, B, L
<1> QED
  BY <1>1 DEF NameSet

\* A cell gets a value and keeps the rest.
LEMMA ValueIsSet ==
    ASSUME NEW s \in Rings, NEW c \in Ring, NEW v \in Values, NEW u, ValueSet(s, c, v, u)
    PROVE  /\ u \in Rings /\ \A x \in Ring : x # c => u[x] = s[x]
           /\ u[c].value = v /\ u[c].name = s[c].name /\ u[c].next = s[c].next /\ u[c].prev = s[c].prev
<1> DEFINE L == Ring \cup {NoCell}
           A == Names \cup {""}
           B == Values \cup {""}
<1>1. Rings = [Ring -> [name : A, value : B, next : L, prev : L]] /\ v \in B
  BY DEF Rings, CellType
<1> HIDE DEF A, B, L
<1> QED
  BY <1>1 DEF ValueSet

\* The sentinel is no cell of an attribute.
LEMMA RingIs ==
    /\ sentinel \in Ring /\ Cells \subseteq Ring /\ sentinel \notin Cells /\ NoCell \notin Ring
    /\ "" \notin Names
BY AttributesAssumption DEF Ring

\* A cell with a name and a value is put behind the last one.
Added(s, c, name, value, u) == u = [Add(s, c) EXCEPT ![c].name = name, ![c].value = value]

\* TiXmlAttributeSet::Add writes the new cell and two of its neighbours' pointers.
LEMMA AddFields ==
    ASSUME NEW s \in Rings, NEW c \in Cells, NEW name \in Names, NEW value \in Values,
           NEW last \in Ring, last = s[sentinel].prev, last # c,
           NEW new, Added(s, c, name, value, new)
    PROVE  /\ new \in Rings
           /\ new[c].name = name /\ new[c].value = value /\ new[c].next = sentinel
           /\ new[c].prev = last
           /\ \A x \in Ring \ {c} :
                  /\ new[x].name = s[x].name /\ new[x].value = s[x].value
                  /\ new[x].next = IF x = last THEN c ELSE s[x].next
                  /\ new[x].prev = IF x = sentinel THEN c ELSE s[x].prev
<1> DEFINE u1 == [s EXCEPT ![c].next = sentinel]
           u2 == [u1 EXCEPT ![c].prev = last]
           u3 == [u2 EXCEPT ![last].next = c]
           u4 == [u3 EXCEPT ![sentinel].prev = c]
           u5 == [u4 EXCEPT ![c].name = name]
           u == [u5 EXCEPT ![c].value = value]
<1>1. new = u
  BY DEF Add, Added
<1>2. c \in Ring /\ c # sentinel /\ sentinel \in Ring /\ last \in Ring /\ last # c
  BY RingIs
<1>a3. NextSet(s, c, sentinel, u1)
  BY DEF NextSet
<1>a4. PrevSet(u1, c, last, u2)
  BY DEF PrevSet
<1>a5. NextSet(u2, last, c, u3)
  BY DEF NextSet
<1>a6. PrevSet(u3, sentinel, c, u4)
  BY DEF PrevSet
<1>a7. NameSet(u4, c, name, u5)
  BY DEF NameSet
<1>a8. ValueSet(u5, c, value, u)
  BY DEF ValueSet
<1> HIDE DEF u1, u2, u3, u4, u5, u
<1>3. /\ u1 \in Rings /\ \A x \in Ring : x # c => u1[x] = s[x]
      /\ u1[c].next = sentinel /\ u1[c].prev = s[c].prev /\ u1[c].name = s[c].name /\ u1[c].value = s[c].value
  BY <1>2, <1>a3, NextIsSet
<1>4. /\ u2 \in Rings /\ \A x \in Ring : x # c => u2[x] = u1[x]
      /\ u2[c].prev = last /\ u2[c].next = u1[c].next /\ u2[c].name = u1[c].name /\ u2[c].value = u1[c].value
  BY <1>2, <1>3, <1>a4, PrevIsSet
<1>5. /\ u3 \in Rings /\ \A x \in Ring : x # last => u3[x] = u2[x]
      /\ u3[last].next = c /\ u3[last].prev = u2[last].prev /\ u3[last].name = u2[last].name
      /\ u3[last].value = u2[last].value
  BY <1>2, <1>4, <1>a5, NextIsSet
<1>6. /\ u4 \in Rings /\ \A x \in Ring : x # sentinel => u4[x] = u3[x]
      /\ u4[sentinel].prev = c /\ u4[sentinel].next = u3[sentinel].next
      /\ u4[sentinel].name = u3[sentinel].name /\ u4[sentinel].value = u3[sentinel].value
  BY <1>2, <1>5, <1>a6, PrevIsSet
<1>7. /\ u5 \in Rings /\ \A x \in Ring : x # c => u5[x] = u4[x]
      /\ u5[c].name = name /\ u5[c].next = u4[c].next /\ u5[c].prev = u4[c].prev /\ u5[c].value = u4[c].value
  BY <1>2, <1>6, <1>a7, NameIsSet
<1>8. /\ u \in Rings /\ \A x \in Ring : x # c => u[x] = u5[x]
      /\ u[c].value = value /\ u[c].next = u5[c].next /\ u[c].prev = u5[c].prev /\ u[c].name = u5[c].name
  BY <1>2, <1>7, <1>a8, ValueIsSet
<1>9. u[c].name = name /\ u[c].value = value /\ u[c].next = sentinel /\ u[c].prev = last
  BY <1>2, <1>3, <1>4, <1>5, <1>6, <1>7, <1>8
<1>10. ASSUME NEW x \in Ring \ {c}
       PROVE  /\ u[x].name = s[x].name /\ u[x].value = s[x].value
              /\ u[x].next = IF x = last THEN c ELSE s[x].next
              /\ u[x].prev = IF x = sentinel THEN c ELSE s[x].prev
  <2>1. u[x] = u4[x] /\ u2[x] = s[x]
    BY <1>3, <1>4, <1>7, <1>8
  <2>2. u3[x].name = u2[x].name /\ u3[x].value = u2[x].value /\ u3[x].prev = u2[x].prev
        /\ u3[x].next = IF x = last THEN c ELSE u2[x].next
    BY <1>5
  <2>3. u4[x].name = u3[x].name /\ u4[x].value = u3[x].value /\ u4[x].next = u3[x].next
        /\ u4[x].prev = IF x = sentinel THEN c ELSE u3[x].prev
    BY <1>6
  <2> QED
    BY <2>1, <2>2, <2>3
<1> QED
  BY <1>1, <1>8, <1>9, <1>10

\* A cell is taken out of the ring.
LEMMA DetachFields ==
    ASSUME NEW s \in Rings, NEW c \in Cells, s[c].prev \in Ring, s[c].next \in Ring,
           s[c].prev # c, s[c].next # c, NEW new, new = Detach(s, c)
    PROVE  /\ new \in Rings /\ new[c].next = NoCell
           /\ \A x \in Ring \ {c} :
                  /\ new[x].name = s[x].name /\ new[x].value = s[x].value
                  /\ new[x].next = IF x = s[c].prev THEN s[c].next ELSE s[x].next
                  /\ new[x].prev = IF x = s[c].next THEN s[c].prev ELSE s[x].prev
<1> DEFINE before == s[c].prev
           after == s[c].next
           u1 == [s EXCEPT ![before].next = after]
           u2 == [u1 EXCEPT ![after].prev = before]
           u == [u2 EXCEPT ![c] = FreeCell]
<1>1. new = u
  BY DEF Detach
<1>2. c \in Ring /\ before \in Ring /\ after \in Ring /\ before # c /\ after # c
  BY RingIs
<1> HIDE DEF before, after
<1>a. NextSet(s, before, after, u1) /\ PrevSet(u1, after, before, u2)
  BY DEF NextSet, PrevSet
<1> HIDE DEF u1, u2
<1>3. /\ u1 \in Rings /\ \A x \in Ring : x # before => u1[x] = s[x]
      /\ u1[before].next = after /\ u1[before].prev = s[before].prev
      /\ u1[before].name = s[before].name /\ u1[before].value = s[before].value
  BY <1>2, <1>a, NextIsSet
<1>4. /\ u2 \in Rings /\ \A x \in Ring : x # after => u2[x] = u1[x]
      /\ u2[after].prev = before /\ u2[after].next = u1[after].next
      /\ u2[after].name = u1[after].name /\ u2[after].value = u1[after].value
  BY <1>2, <1>3, <1>a, PrevIsSet
<1>5. u \in Rings /\ u[c] = FreeCell /\ \A x \in Ring : x # c => u[x] = u2[x]
  <2>1. FreeCell \in CellType
    BY DEF FreeCell, CellType
  <2> HIDE DEF FreeCell
  <2> QED
    BY <1>2, <1>4, <2>1 DEF Rings
<1> HIDE DEF u
<1>6. ASSUME NEW x \in Ring \ {c}
      PROVE  /\ u[x].name = s[x].name /\ u[x].value = s[x].value
             /\ u[x].next = IF x = before THEN after ELSE s[x].next
             /\ u[x].prev = IF x = after THEN before ELSE s[x].prev
  <2>1. u[x] = u2[x]
    BY <1>5
  <2>2. u1[x].name = s[x].name /\ u1[x].value = s[x].value /\ u1[x].prev = s[x].prev
        /\ u1[x].next = IF x = before THEN after ELSE s[x].next
    BY <1>3
  <2>3. u2[x].name = u1[x].name /\ u2[x].value = u1[x].value /\ u2[x].next = u1[x].next
        /\ u2[x].prev = IF x = after THEN before ELSE u1[x].prev
    BY <1>4
  <2> QED
    BY <2>1, <2>2, <2>3
<1>7. u[c].next = NoCell
  <2>1. FreeCell.next = NoCell
    BY DEF FreeCell
  <2> QED
    BY <1>5, <2>1
<1> QED
  BY <1>1, <1>5, <1>6, <1>7 DEF before, after

\* The linked cells fit.
LEMMA RingFits ==
    ASSUME NEW s, NEW p, NEW n, IsRing(s, p, n)
    PROVE  n <= Cardinality(Cells) /\ Cardinality(Cells) \in Nat /\ n \in Nat
<1>1. n \in Nat /\ \A k \in 1 .. n : p[k] \in Cells
  BY DEF IsRing
<1>2. IsFiniteSet(Cells)
  BY AttributesAssumption
<1> DEFINE f == [k \in 1 .. n |-> p[k]]
<1>3. \A i, j \in 1 .. n : p[i] = p[j] => i = j
  BY <1>1 DEF IsRing
<1>4. f \in Injection(1 .. n, Cells)
  BY <1>1, <1>3 DEF Injection, IsInjective
<1>5. Cardinality(1 .. n) <= Cardinality(Cells)
  <2> HIDE DEF f
  <2> QED
    BY <1>2, <1>4, FS_Injection
<1>6. Cardinality(1 .. n) = n
  BY <1>1, FS_Interval
<1>7. Cardinality(Cells) \in Nat
  BY <1>2, FS_CardinalityType
<1> QED
  BY <1>1, <1>5, <1>6, <1>7

\* The walk from the sentinel meets the cells of the ring in their order.
LEMMA WalkIs ==
    ASSUME NEW s, NEW p, NEW n, IsRing(s, p, n)
    PROVE  Walk(s) = [k \in 1 .. n |-> p[k]]
<1> DEFINE N == Cardinality(Cells)
           Same(f) == f = [k \in 0 .. N |->
                            IF k = 0 THEN s[sentinel].next
                            ELSE IF f[k - 1] \in Cells THEN s[f[k - 1]].next ELSE f[k - 1]]
           walk == CHOOSE f : Same(f)
           h == [k \in 0 .. N |-> IF k <= n THEN p[k + 1] ELSE sentinel]
           met == {k \in 0 .. N : walk[k] \in Cells}
<1>1. n <= N /\ N \in Nat /\ n \in Nat
  BY RingFits
<1> HIDE DEF N
<1>2. /\ p[0] = sentinel /\ p[n + 1] = sentinel /\ sentinel \notin Cells
      /\ \A k \in 1 .. n : p[k] \in Cells
      /\ \A k \in 0 .. n : s[p[k]].next = p[k + 1]
  BY RingIs DEF IsRing
<1>3. ASSUME NEW k \in 0 .. N
      PROVE  h[k] = IF k = 0 THEN s[sentinel].next
                    ELSE IF h[k - 1] \in Cells THEN s[h[k - 1]].next ELSE h[k - 1]
  <2>1. CASE k = 0
    BY <1>1, <1>2, <2>1
  <2>2. CASE k # 0 /\ k <= n
    <3>1. h[k - 1] = p[k] /\ p[k] \in Cells /\ h[k] = p[k + 1]
      BY <1>1, <1>2, <2>2
    <3>2. s[p[k]].next = p[k + 1]
      BY <1>1, <1>2, <2>2
    <3> QED
      BY <2>2, <3>1, <3>2
  <2>3. CASE k # 0 /\ ~ (k <= n)
    <3>1. h[k - 1] = sentinel
      <4>1. CASE k - 1 <= n
        <5>1. k - 1 = n /\ k - 1 \in 0 .. N
          BY <1>1, <2>3, <4>1
        <5> QED
          BY <1>1, <1>2, <5>1
      <4>2. CASE ~ (k - 1 <= n)
        BY <1>1, <2>3, <4>2
      <4> QED
        BY <4>1, <4>2
    <3>2. h[k] = sentinel
      BY <2>3
    <3> HIDE DEF h
    <3> QED
      BY <1>2, <2>3, <3>1, <3>2
  <2> QED
    BY <2>1, <2>2, <2>3
<1>4. Same(h)
  <2> DEFINE g == [k \in 0 .. N |->
                      IF k = 0 THEN s[sentinel].next
                      ELSE IF h[k - 1] \in Cells THEN s[h[k - 1]].next ELSE h[k - 1]]
  <2>1. \A k \in 0 .. N : h[k] = g[k]
    BY <1>3
  <2>2. h = [k \in 0 .. N |-> h[k]] /\ g = [k \in 0 .. N |-> g[k]]
    OBVIOUS
  <2> HIDE DEF h, g
  <2>3. h = g
    BY <2>1, <2>2
  <2> QED
    BY <2>3 DEF g
<1>5. Same(walk)
  <2> HIDE DEF h, Is
  <2> QED
    BY <1>4
<1>6. walk = [k \in 0 .. N |-> walk[k]]
      /\ \A k \in 0 .. N : walk[k] = IF k = 0 THEN s[sentinel].next
                           ELSE IF walk[k - 1] \in Cells THEN s[walk[k - 1]].next ELSE walk[k - 1]
  <2> HIDE DEF walk
  <2> QED
    BY <1>5
<1> HIDE DEF walk, Is
<1>7. \A k \in 0 .. N : walk[k] = h[k]
  <2> DEFINE T == {k \in Nat : k <= N => walk[k] = h[k]}
  <2>1. 0 \in T
    <3>1. 0 \in 0 .. N
      BY <1>1
    <3> HIDE DEF h
    <3>2. walk[0] = h[0]
      BY <1>3, <1>6, <3>1
    <3> QED
      BY <3>2
  <2>2. ASSUME NEW k \in Nat, k \in T PROVE k + 1 \in T
    <3> SUFFICES ASSUME k + 1 <= N PROVE walk[k + 1] = h[k + 1]
      OBVIOUS
    <3> DEFINE i == k + 1
    <3>1. i \in 0 .. N /\ i # 0 /\ i - 1 = k /\ k \in 0 .. N
      BY <1>1
    <3>2. walk[k] = h[k]
      BY <2>2, <3>1
    <3> HIDE DEF i, h
    <3>3. walk[i] = h[i]
      BY <1>3, <1>6, <3>1, <3>2
    <3> QED
      BY <3>3 DEF i
  <2> HIDE DEF T
  <2>3. \A k \in Nat : k \in T
    BY <2>1, <2>2, NatAll
  <2>4. \A k \in 0 .. N : k \in Nat /\ k <= N
    BY <1>1
  <2> HIDE DEF h
  <2> QED
    BY <2>3, <2>4 DEF T
<1>8. met = 0 .. n - 1
  <2>1. \A k \in 0 .. N : walk[k] \in Cells <=> k < n
    <3> TAKE k \in 0 .. N
    <3>1. walk[k] = IF k <= n THEN p[k + 1] ELSE sentinel
      BY <1>7
    <3>2. CASE k < n
      BY <1>1, <1>2, <3>1, <3>2
    <3>3. CASE k = n
      BY <1>1, <1>2, <3>1, <3>3
    <3>4. CASE k > n
      BY <1>1, <1>2, <3>1, <3>4
    <3> QED
      BY <1>1, <3>2, <3>3, <3>4
  <2> QED
    BY <1>1, <2>1
<1>9. Cardinality(met) = n
  <2>1. Cardinality(0 .. n - 1) = n
    BY <1>1, FS_Interval
  <2> QED
    BY <1>8, <2>1
<1>10. \A k \in 1 .. n : walk[k - 1] = p[k]
  <2> TAKE k \in 1 .. n
  <2>1. k - 1 \in 0 .. N /\ k - 1 <= n /\ (k - 1) + 1 = k
    BY <1>1
  <2> QED
    BY <1>7, <2>1
<1>11. Walk(s) = [k \in 1 .. Cardinality(met) |-> walk[k - 1]]
  BY Zenon DEF Walk, met, walk, Is, N
<1> QED
  BY <1>9, <1>10, <1>11

\* A function on 1 .. n is a sequence.
LEMMA Enumerated ==
    ASSUME NEW S, NEW n \in Nat, NEW g \in [1 .. n -> S]
    PROVE  g \in Seq(S) /\ Len(g) = n
BY LenProperties

\* What SubSeq gives.
LEMMA SubSeqIs ==
    ASSUME NEW S, NEW s \in Seq(S), NEW i \in 1 .. Len(s) + 1, NEW j \in i - 1 .. Len(s)
    PROVE  /\ SubSeq(s, i, j) \in Seq(S) /\ Len(SubSeq(s, i, j)) = j - i + 1
           /\ \A k \in 1 .. j - i + 1 : SubSeq(s, i, j)[k] = s[i + k - 1]
<1> DEFINE n == Len(s)
<1>1. n \in Nat
  BY LenProperties
<1>2. i \in Int /\ j \in Int /\ i \in 1 .. n + 1 /\ j \in i - 1 .. n
  BY <1>1
<1>3. \A k \in i .. j : s[k] \in S
  <2> TAKE k \in i .. j
  <2> HIDE DEF n
  <2>1. k \in 1 .. n
    BY <1>1, <1>2
  <2> QED
    BY <2>1, ElementOfSeq DEF n
<1>4. /\ SubSeq(s, i, j) \in Seq(S)
      /\ Len(SubSeq(s, i, j)) = IF i <= j THEN j - i + 1 ELSE 0
      /\ \A k \in 1 .. j - i + 1 : SubSeq(s, i, j)[k] = s[i + k - 1]
  BY <1>2, <1>3, SubSeqProperties
<1>5. (IF i <= j THEN j - i + 1 ELSE 0) = j - i + 1
  <2> HIDE DEF n
  <2> QED
    BY <1>1, <1>2
<1> QED
  BY <1>4, <1>5

\* What InsertAt gives.
LEMMA InsertAtIs ==
    ASSUME NEW S, NEW s \in Seq(S), NEW k \in 1 .. Len(s) + 1, NEW e \in S
    PROVE  /\ InsertAt(s, k, e) \in Seq(S) /\ Len(InsertAt(s, k, e)) = Len(s) + 1
           /\ \A i \in 1 .. Len(s) + 1 :
                  InsertAt(s, k, e)[i] = IF i < k THEN s[i] ELSE IF i = k THEN e ELSE s[i - 1]
<1> DEFINE n == Len(s)
           a == SubSeq(s, 1, k - 1)
           b == <<e>>
           c == SubSeq(s, k, n)
           ab == a \o b
           abc == ab \o c
<1>1. n \in Nat /\ k \in 1 .. n + 1
  BY LenProperties
<1>2. a \in Seq(S) /\ Len(a) = k - 1 /\ \A i \in 1 .. k - 1 : a[i] = s[i]
  <2>1. 1 \in 1 .. n + 1 /\ k - 1 \in 1 - 1 .. n /\ (k - 1) - 1 + 1 = k - 1
    <3> HIDE DEF n
    <3> QED
      BY <1>1
  <2>2. a \in Seq(S) /\ Len(a) = (k - 1) - 1 + 1 /\ \A i \in 1 .. (k - 1) - 1 + 1 : a[i] = s[1 + i - 1]
    BY <2>1, SubSeqIs
  <2>3. \A i \in 1 .. k - 1 : 1 + i - 1 = i
    OBVIOUS
  <2> HIDE DEF a
  <2> QED
    BY <2>1, <2>2, <2>3
<1>3. c \in Seq(S) /\ Len(c) = n - k + 1 /\ \A i \in 1 .. n - k + 1 : c[i] = s[k + i - 1]
  <2>1. n \in k - 1 .. n
    <3> HIDE DEF n
    <3> QED
      BY <1>1
  <2> QED
    BY <1>1, <2>1, SubSeqIs
<1>4. b \in Seq(S) /\ Len(b) = 1 /\ b[1] = e
  OBVIOUS
<1> HIDE DEF a, b, c
<1>5. ab \in Seq(S) /\ Len(ab) = Len(a) + Len(b)
      /\ \A i \in 1 .. Len(a) + Len(b) : ab[i] = IF i <= Len(a) THEN a[i] ELSE b[i - Len(a)]
  BY <1>2, <1>4, ConcatProperties
<1> HIDE DEF ab
<1>6. abc \in Seq(S) /\ Len(abc) = Len(ab) + Len(c)
      /\ \A i \in 1 .. Len(ab) + Len(c) : abc[i] = IF i <= Len(ab) THEN ab[i] ELSE c[i - Len(ab)]
  <2>1. ab \in Seq(S) /\ c \in Seq(S)
    BY <1>3, <1>5
  <2> QED
    BY <2>1, ConcatProperties
<1> HIDE DEF abc, n
<1>7. Len(a) = k - 1 /\ Len(ab) = k /\ Len(abc) = n + 1
  BY <1>1, <1>2, <1>3, <1>4, <1>5, <1>6
<1>8. ASSUME NEW i \in 1 .. n + 1 PROVE abc[i] = IF i < k THEN s[i] ELSE IF i = k THEN e ELSE s[i - 1]
  <2>1. CASE i < k
    <3>1. abc[i] = ab[i]
      BY <1>1, <1>3, <1>6, <1>7, <2>1
    <3>2. ab[i] = a[i]
      BY <1>1, <1>4, <1>5, <1>7, <2>1
    <3>3. a[i] = s[i]
      BY <1>1, <1>2, <2>1
    <3> QED
      BY <2>1, <3>1, <3>2, <3>3
  <2>2. CASE i = k
    <3>1. abc[k] = ab[k]
      BY <1>1, <1>3, <1>6, <1>7, <2>2
    <3>2. ab[k] = b[1]
      BY <1>1, <1>4, <1>5, <1>7, <2>2
    <3> QED
      BY <1>1, <1>4, <2>2, <3>1, <3>2
  <2>3. CASE i > k
    <3> DEFINE j == i - k
    <3>1. abc[i] = c[j]
      <4> DEFINE l == Len(ab)
                 r == Len(c)
      <4>1. l = k /\ r = n - k + 1
        BY <1>3, <1>7
      <4> HIDE DEF l, r
      <4>2. i \in 1 .. l + r /\ ~ (i <= l) /\ i - l = j
        BY <1>1, <2>3, <4>1
      <4>3. \A h \in 1 .. l + r : abc[h] = IF h <= l THEN ab[h] ELSE c[h - l]
        BY <1>6 DEF l, r
      <4> HIDE DEF j
      <4> QED
        BY <4>2, <4>3
    <3>2. j \in 1 .. n - k + 1 /\ k + j - 1 = i - 1
      BY <1>1, <2>3
    <3> HIDE DEF j
    <3>3. c[j] = s[i - 1]
      BY <1>3, <3>2
    <3> QED
      BY <1>1, <2>3, <3>1, <3>3
  <2> QED
    BY <1>1, <2>1, <2>2, <2>3
<1>9. InsertAt(s, k, e) = abc
  BY DEF InsertAt, a, b, c, ab, abc, n
<1> QED
  BY <1>6, <1>7, <1>8, <1>9 DEF n

\* What RemoveAt gives.
LEMMA RemoveAtIs ==
    ASSUME NEW S, NEW s \in Seq(S), NEW k \in 1 .. Len(s)
    PROVE  /\ RemoveAt(s, k) \in Seq(S) /\ Len(RemoveAt(s, k)) = Len(s) - 1
           /\ \A i \in 1 .. Len(s) - 1 : RemoveAt(s, k)[i] = IF i < k THEN s[i] ELSE s[i + 1]
<1> DEFINE n == Len(s)
           a == SubSeq(s, 1, k - 1)
           c == SubSeq(s, k + 1, n)
           ac == a \o c
<1>1. n \in Nat /\ k \in 1 .. n
  BY LenProperties
<1>2. a \in Seq(S) /\ Len(a) = k - 1 /\ \A i \in 1 .. k - 1 : a[i] = s[i]
  <2>1. 1 \in 1 .. n + 1 /\ k - 1 \in 1 - 1 .. n /\ (k - 1) - 1 + 1 = k - 1
    <3> HIDE DEF n
    <3> QED
      BY <1>1
  <2>2. a \in Seq(S) /\ Len(a) = (k - 1) - 1 + 1 /\ \A i \in 1 .. (k - 1) - 1 + 1 : a[i] = s[1 + i - 1]
    BY <2>1, SubSeqIs
  <2>3. \A i \in 1 .. k - 1 : 1 + i - 1 = i
    OBVIOUS
  <2> HIDE DEF a
  <2> QED
    BY <2>1, <2>2, <2>3
<1>3. c \in Seq(S) /\ Len(c) = n - k /\ \A i \in 1 .. n - k : c[i] = s[k + i]
  <2> DEFINE m == k + 1
  <2>1. m \in 1 .. n + 1 /\ n \in m - 1 .. n /\ n - m + 1 = n - k /\ \A i \in 1 .. n - k : m + i - 1 = k + i
    <3> HIDE DEF n
    <3> QED
      BY <1>1
  <2> HIDE DEF m
  <2>2. LET d == SubSeq(s, m, n) IN d \in Seq(S) /\ Len(d) = n - m + 1 /\ \A i \in 1 .. n - m + 1 : d[i] = s[m + i - 1]
    BY <2>1, SubSeqIs
  <2>3. c = SubSeq(s, m, n)
    BY DEF m
  <2> HIDE DEF c, n
  <2> QED
    BY <2>1, <2>2, <2>3
<1> HIDE DEF a, c
<1>6. ac \in Seq(S) /\ Len(ac) = Len(a) + Len(c)
      /\ \A i \in 1 .. Len(a) + Len(c) : ac[i] = IF i <= Len(a) THEN a[i] ELSE c[i - Len(a)]
  BY <1>2, <1>3, ConcatProperties
<1> HIDE DEF ac, n
<1>7. Len(a) = k - 1 /\ Len(c) = n - k /\ Len(ac) = n - 1
  BY <1>1, <1>2, <1>3, <1>6
<1>8. ASSUME NEW i \in 1 .. n - 1 PROVE ac[i] = IF i < k THEN s[i] ELSE s[i + 1]
  <2>1. CASE i < k
    <3>1. ac[i] = a[i]
      BY <1>1, <1>6, <1>7, <2>1
    <3>2. a[i] = s[i]
      BY <1>1, <1>2, <2>1
    <3> QED
      BY <2>1, <3>1, <3>2
  <2>2. CASE ~ (i < k)
    <3> DEFINE j == i - (k - 1)
    <3>1. ac[i] = c[j]
      BY <1>1, <1>6, <1>7, <2>2
    <3>2. j \in 1 .. n - k /\ k + j = i + 1
      BY <1>1, <2>2
    <3> HIDE DEF j
    <3>3. c[j] = s[i + 1]
      BY <1>3, <3>2
    <3> QED
      BY <2>2, <3>1, <3>3
  <2> QED
    BY <2>1, <2>2
<1>9. RemoveAt(s, k) = ac
  BY DEF RemoveAt, a, c, ac, n
<1> QED
  BY <1>6, <1>7, <1>8, <1>9 DEF n

\* What it is to be a ring, one fact at a time.
LEMMA RingParts ==
    ASSUME NEW s, NEW p, NEW n, IsRing(s, p, n)
    PROVE  /\ s \in Rings /\ n \in Nat
           /\ \A k \in 0 .. n + 1 : p[k] \in Ring
           /\ p[0] = sentinel /\ p[n + 1] = sentinel
           /\ \A k \in 1 .. n : p[k] \in Cells /\ p[k] \in Ring /\ p[k] # sentinel
           /\ \A i, j \in 0 .. n : p[i] = p[j] => i = j
           /\ \A k \in 0 .. n : s[p[k]].next = p[k + 1] /\ s[p[k + 1]].prev = p[k]
           /\ \A c \in Cells : s[c].next = NoCell \/ \E k \in 1 .. n : p[k] = c
<1>1. \A k \in 1 .. n : p[k] \in Cells
  BY DEF IsRing
<1>2. \A c \in Cells : c \in Ring /\ c # sentinel
  BY RingIs
<1>3. n \in Nat /\ p \in [0 .. n + 1 -> Ring]
  BY DEF IsRing
<1>4. \A k \in 0 .. n + 1 : p[k] \in Ring
  BY <1>3
<1> QED
  BY <1>1, <1>2, <1>3, <1>4 DEF IsRing

\* Two places of the ring, but for the sentinel's second, hold different cells.
LEMMA RingPlaces ==
    ASSUME NEW s, NEW p, NEW n, IsRing(s, p, n)
    PROVE  \A i, j \in 1 .. n + 1 : p[i] = p[j] => i = j
<1>1. n \in Nat /\ p[n + 1] = sentinel
      /\ \A k \in 1 .. n : p[k] # sentinel
      /\ \A i, j \in 0 .. n : p[i] = p[j] => i = j
  BY RingParts
<1> SUFFICES ASSUME NEW i \in 1 .. n + 1, NEW j \in 1 .. n + 1, p[i] = p[j] PROVE i = j
  OBVIOUS
<1>2. CASE i = n + 1 \/ j = n + 1
  <2>1. \A k \in 1 .. n + 1 : k # n + 1 => k \in 1 .. n
    BY <1>1
  <2> QED
    BY <1>1, <1>2, <2>1
<1>3. CASE i # n + 1 /\ j # n + 1
  <2>1. i \in 0 .. n /\ j \in 0 .. n
    BY <1>1, <1>3
  <2> QED
    BY <1>1, <2>1
<1> QED
  BY <1>2, <1>3

\* What Find returns.
LEMMA FindIs ==
    ASSUME NEW s, NEW p, NEW n, IsRing(s, p, n), NEW name
    PROVE  \/ Find(s, name) = NoCell /\ \A k \in 1 .. n : s[p[k]].name # name
           \/ \E k \in 1 .. n : Find(s, name) = p[k] /\ p[k] # NoCell /\ s[p[k]].name = name
<1> DEFINE W == Walk(s)
           K == {k \in DOMAIN W : s[W[k]].name = name}
           least == CHOOSE k \in K : \A j \in K : k <= j
<1>1. n \in Nat /\ \A k \in 1 .. n : p[k] \in Cells
  BY RingParts
<1>2. W = [k \in 1 .. n |-> p[k]]
  BY WalkIs
<1>3. Find(s, name) = IF K = {} THEN NoCell ELSE W[least]
  BY DEF Find
<1> HIDE DEF W
<1>4. K = {k \in 1 .. n : s[p[k]].name = name}
  BY <1>2
<1>5. CASE K = {}
  BY <1>3, <1>4, <1>5
<1>6. CASE K # {}
  <2>1. K \in SUBSET Nat
    BY <1>1, <1>4
  <2> HIDE DEF K
  <2>2. \E k \in K : \A j \in K : k <= j
    BY <1>6, <2>1, NatMin
  <2>3. least \in K
    BY <2>2
  <2> HIDE DEF least
  <2>4. least \in 1 .. n /\ s[p[least]].name = name /\ W[least] = p[least]
    BY <1>2, <1>4, <2>3
  <2>5. p[least] # NoCell
    BY <1>1, <2>4, RingIs
  <2> QED
    BY <1>3, <1>6, <2>4, <2>5
<1> QED
  BY <1>5, <1>6

\* What Print writes: every attribute, since none has an empty name.
Shown(s, p, n) == [k \in 1 .. n |-> [name |-> s[p[k]].name, value |-> s[p[k]].value]]

\* The list of the attributes of a ring: First and Next meet the entries Shown names.
LEMMA ListedIs ==
    ASSUME NEW s, NEW p, NEW n, IsRing(s, p, n), IsNamed(s, p, n)
    PROVE  Listed(s) = Shown(s, p, n)
<1> DEFINE cells == Walk(s)
           none == ""
           stops == {k \in DOMAIN cells : k > 1 /\ s[cells[k]].name = none /\ s[cells[k]].value = none}
           shown == IF stops = {} THEN Len(cells)
                    ELSE (CHOOSE k \in stops : \A j \in stops : k <= j) - 1
<1>1. n \in Nat /\ \A k \in 1 .. n : p[k] \in Cells
  BY RingParts
<1>2. cells = [k \in 1 .. n |-> p[k]]
  BY WalkIs
<1>3. Listed(s) = [k \in 1 .. shown |-> [name |-> s[cells[k]].name, value |-> s[cells[k]].value]]
  BY Zenon DEF Listed, shown, stops, cells, none
<1>4. \A k \in 1 .. n : s[p[k]].name # none
  BY RingIs DEF IsNamed
<1> HIDE DEF cells, none
<1>5. stops = {}
  BY <1>2, <1>4
<1>6. Len(cells) = n
  <2>1. cells \in [1 .. n -> Cells]
    BY <1>1, <1>2
  <2> QED
    BY <1>1, <2>1, Enumerated
<1>7. shown = n
  BY <1>5, <1>6
<1> HIDE DEF shown
<1>8. \A k \in 1 .. n : cells[k] = p[k]
  BY <1>2
<1> QED
  BY <1>3, <1>7, <1>8 DEF Shown
-----------------------------------------------------------------------------
\* SetValue.
LEMMA RingKeeps ==
    ASSUME NEW s, NEW p, NEW n, IsRing(s, p, n), IsNamed(s, p, n),
           NEW k \in 1 .. n, NEW value \in Values, NEW u, ValueSet(s, p[k], value, u)
    PROVE  /\ IsRing(u, p, n) /\ IsNamed(u, p, n)
           /\ \A i \in 1 .. n : /\ u[p[i]].name = s[p[i]].name
                                /\ u[p[i]].value = IF i = k THEN value ELSE s[p[i]].value
<1>1. /\ s \in Rings /\ n \in Nat
      /\ \A i \in 0 .. n + 1 : p[i] \in Ring
      /\ \A i \in 1 .. n : p[i] \in Cells /\ p[i] \in Ring /\ p[i] # sentinel
      /\ \A i, j \in 0 .. n : p[i] = p[j] => i = j
      /\ \A i \in 0 .. n : s[p[i]].next = p[i + 1] /\ s[p[i + 1]].prev = p[i]
      /\ \A c \in Cells : s[c].next = NoCell \/ \E i \in 1 .. n : p[i] = c
  BY RingParts
<1> DEFINE c == p[k]
<1>2. c \in Ring
  BY <1>1
<1> HIDE DEF c
<1>3. /\ u \in Rings /\ \A x \in Ring : x # c => u[x] = s[x]
      /\ u[c].value = value /\ u[c].name = s[c].name /\ u[c].next = s[c].next /\ u[c].prev = s[c].prev
  BY <1>1, <1>2, ValueIsSet DEF c
<1>4. \A x \in Ring : u[x].name = s[x].name /\ u[x].next = s[x].next /\ u[x].prev = s[x].prev
  BY <1>3
<1>5. \A i \in 1 .. n : i \in 0 .. n /\ i \in 0 .. n + 1
  BY <1>1
<1>6. \A i \in 0 .. n : i \in 0 .. n + 1 /\ i + 1 \in 0 .. n + 1
  BY <1>1
<1>7. \A i \in 0 .. n : u[p[i]].next = p[i + 1] /\ u[p[i + 1]].prev = p[i]
  BY <1>1, <1>4, <1>6
<1>8. \A x \in Cells : u[x].next = NoCell \/ \E i \in 1 .. n : p[i] = x
  BY <1>1, <1>4, RingIs
<1>9. IsRing(u, p, n)
  BY <1>1, <1>3, <1>7, <1>8 DEF IsRing
<1>10. \A i \in 1 .. n : u[p[i]].name = s[p[i]].name
  BY <1>1, <1>4
<1>11. IsNamed(u, p, n)
  BY <1>10 DEF IsNamed
<1>12. \A i \in 1 .. n : u[p[i]].value = IF i = k THEN value ELSE s[p[i]].value
  <2> TAKE i \in 1 .. n
  <2>1. CASE i = k
    BY <1>3, <2>1 DEF c
  <2>2. CASE i # k
    <3>1. p[i] # c
      BY <1>1, <1>5, <2>2 DEF c
    <3> QED
      BY <1>1, <1>3, <2>2, <3>1
  <2> QED
    BY <2>1, <2>2
<1> QED
  BY <1>9, <1>10, <1>11, <1>12

\* A new attribute.
LEMMA RingGrows ==
    ASSUME NEW s, NEW p, NEW n, IsRing(s, p, n), IsNamed(s, p, n),
           NEW c \in Cells, s[c].next = NoCell, NEW name \in Names, NEW value \in Values,
           \A k \in 1 .. n : s[p[k]].name # name,
           NEW u, Added(s, c, name, value, u)
    PROVE  \E q : /\ IsRing(u, q, n + 1) /\ IsNamed(u, q, n + 1)
                  /\ \A i \in 1 .. n : u[q[i]].name = s[p[i]].name /\ u[q[i]].value = s[p[i]].value
                  /\ u[q[n + 1]].name = name /\ u[q[n + 1]].value = value
<1> DEFINE last == p[n]
           q == [k \in 0 .. n + 2 |-> IF k <= n THEN p[k] ELSE IF k = n + 1 THEN c ELSE sentinel]
<1>1. /\ s \in Rings /\ n \in Nat
      /\ \A i \in 0 .. n + 1 : p[i] \in Ring
      /\ p[0] = sentinel /\ p[n + 1] = sentinel
      /\ \A i \in 1 .. n : p[i] \in Cells /\ p[i] \in Ring /\ p[i] # sentinel
      /\ \A i, j \in 0 .. n : p[i] = p[j] => i = j
      /\ \A i \in 0 .. n : s[p[i]].next = p[i + 1] /\ s[p[i + 1]].prev = p[i]
      /\ \A x \in Cells : s[x].next = NoCell \/ \E i \in 1 .. n : p[i] = x
  BY RingParts
<1>2. c \in Ring /\ c # sentinel /\ sentinel \in Ring /\ NoCell \notin Ring
  BY RingIs
<1>3. \A k \in 0 .. n : p[k] # c /\ p[k] \in Ring /\ p[k + 1] \in Ring
  <2> TAKE k \in 0 .. n
  <2>1. k \in 0 .. n + 1 /\ k + 1 \in 0 .. n + 1
    BY <1>1
  <2>2. s[p[k]].next \in Ring
    BY <1>1, <2>1
  <2> QED
    BY <1>1, <1>2, <2>1, <2>2
<1>4. last = s[sentinel].prev /\ last \in Ring /\ last # c /\ n \in 0 .. n
  BY <1>1, <1>3
<1>5. /\ u \in Rings
      /\ u[c].name = name /\ u[c].value = value /\ u[c].next = sentinel /\ u[c].prev = last
      /\ \A x \in Ring \ {c} :
             /\ u[x].name = s[x].name /\ u[x].value = s[x].value
             /\ u[x].next = IF x = last THEN c ELSE s[x].next
             /\ u[x].prev = IF x = sentinel THEN c ELSE s[x].prev
  BY <1>1, <1>4, AddFields
<1>6. /\ \A k \in 0 .. n : q[k] = p[k]
      /\ q[n + 1] = c /\ q[n + 2] = sentinel /\ (n + 1) + 1 = n + 2
      /\ q \in [0 .. (n + 1) + 1 -> Ring] /\ q[0] = sentinel
  <2>1. \A k \in 0 .. n : k \in 0 .. n + 2
    BY <1>1
  <2>2. \A k \in 0 .. n + 2 : q[k] \in Ring
    <3> TAKE k \in 0 .. n + 2
    <3>1. CASE k <= n
      BY <1>3, <3>1
    <3>2. CASE ~ (k <= n)
      BY <1>2, <3>2
    <3> QED
      BY <3>1, <3>2
  <2>3. 0 \in 0 .. n /\ n + 1 \in 0 .. n + 2 /\ n + 2 \in 0 .. n + 2 /\ ~ (n + 1 <= n) /\ ~ (n + 2 <= n)
        /\ n + 2 # n + 1 /\ (n + 1) + 1 = n + 2
    BY <1>1
  <2>4. \A k \in 0 .. n : q[k] = p[k]
    BY <2>1
  <2>5. q[n + 1] = c /\ q[n + 2] = sentinel
    BY <2>3
  <2>6. q \in [0 .. n + 2 -> Ring]
    <3>1. q = [k \in 0 .. n + 2 |-> q[k]]
      OBVIOUS
    <3> HIDE DEF q
    <3> QED
      BY <2>2, <3>1
  <2> HIDE DEF q
  <2> QED
    BY <1>1, <2>3, <2>4, <2>5, <2>6
<1> HIDE DEF q, last
<1>7. \A k \in 1 .. n + 1 : q[k] \in Cells
  <2> TAKE k \in 1 .. n + 1
  <2>1. CASE k \in 1 .. n
    <3>1. k \in 0 .. n
      BY <1>1, <2>1
    <3> QED
      BY <1>1, <1>6, <2>1, <3>1
  <2>2. CASE k = n + 1
    BY <1>6, <2>2
  <2> QED
    BY <1>1, <2>1, <2>2
<1>8. \A i, j \in 0 .. n + 1 : q[i] = q[j] => i = j
  <2> SUFFICES ASSUME NEW i \in 0 .. n + 1, NEW j \in 0 .. n + 1, q[i] = q[j] PROVE i = j
    OBVIOUS
  <2>1. \A k \in 0 .. n + 1 : k = n + 1 \/ k \in 0 .. n
    BY <1>1
  <2> QED
    BY <1>1, <1>3, <1>6, <2>1
<1>9. \A k \in 0 .. n + 1 : u[q[k]].next = q[k + 1] /\ u[q[k + 1]].prev = q[k]
  <2> TAKE k \in 0 .. n + 1
  <2>1. CASE k = n + 1
    <3>1. q[k] = c /\ q[k + 1] = sentinel
      BY <1>1, <1>6, <2>1
    <3>2. u[c].next = sentinel /\ u[sentinel].prev = c
      BY <1>2, <1>5
    <3> QED
      BY <3>1, <3>2
  <2>2. CASE k = n
    <3>1. q[k] = last /\ q[k + 1] = c
      BY <1>4, <1>6, <2>2 DEF last
    <3>2. u[last].next = c /\ u[c].prev = last
      BY <1>4, <1>5
    <3> QED
      BY <3>1, <3>2
  <2>3. CASE k < n
    <3>1. k \in 0 .. n /\ k + 1 \in 0 .. n /\ k # n /\ n \in 0 .. n /\ k + 1 \in 1 .. n
      BY <1>1, <2>3
    <3>2. q[k] = p[k] /\ q[k + 1] = p[k + 1]
      BY <1>6, <3>1
    <3>3. p[k] # last /\ p[k + 1] # sentinel
      BY <1>1, <3>1 DEF last
    <3>4. p[k] \in Ring \ {c} /\ p[k + 1] \in Ring \ {c}
      BY <1>3, <3>1
    <3>5. u[p[k]].next = s[p[k]].next /\ u[p[k + 1]].prev = s[p[k + 1]].prev
      BY <1>5, <3>3, <3>4
    <3> QED
      BY <1>1, <3>1, <3>2, <3>5
  <2> QED
    BY <1>1, <2>1, <2>2, <2>3
<1>10. \A x \in Cells : u[x].next = NoCell \/ \E k \in 1 .. n + 1 : q[k] = x
  <2> TAKE x \in Cells
  <2>1. CASE x = c
    <3>1. n + 1 \in 1 .. n + 1
      BY <1>1
    <3> QED
      BY <1>6, <2>1, <3>1
  <2>2. CASE x # c /\ \E k \in 1 .. n : p[k] = x
    <3>1. PICK k \in 1 .. n : p[k] = x
      BY <2>2
    <3>2. k \in 0 .. n /\ k \in 1 .. n + 1
      BY <1>1
    <3> QED
      BY <1>6, <3>1, <3>2
  <2>3. CASE x # c /\ ~ \E k \in 1 .. n : p[k] = x
    <3>1. x \in Ring \ {c} /\ s[x].next = NoCell /\ x # sentinel
      BY <1>1, <2>3, RingIs
    <3>2. x # last
      <4>1. s[last].next \in Ring
        BY <1>1, <1>3, <1>4 DEF last
      <4> QED
        BY <1>2, <3>1, <4>1
    <3> QED
      BY <1>5, <3>1, <3>2
  <2> QED
    BY <2>1, <2>2, <2>3
<1>11. IsRing(u, q, n + 1)
  <2>1. n + 1 \in Nat
    BY <1>1
  <2> QED
    BY <1>5, <1>6, <1>7, <1>8, <1>9, <1>10, <2>1 DEF IsRing
<1>12. /\ \A i \in 1 .. n : u[q[i]].name = s[p[i]].name /\ u[q[i]].value = s[p[i]].value
       /\ u[q[n + 1]].name = name /\ u[q[n + 1]].value = value
  <2>1. \A i \in 1 .. n : i \in 0 .. n
    OBVIOUS
  <2>2. \A i \in 1 .. n : q[i] = p[i] /\ p[i] \in Ring \ {c}
    BY <1>3, <1>6, <2>1
  <2>3. \A i \in 1 .. n : u[p[i]].name = s[p[i]].name /\ u[p[i]].value = s[p[i]].value
    BY <1>5, <2>2
  <2>4. q[n + 1] = c
    BY <1>6
  <2> QED
    BY <1>5, <2>2, <2>3, <2>4
<1>13. IsNamed(u, q, n + 1)
  <2>1. \A i \in 1 .. n + 1 : i = n + 1 \/ i \in 1 .. n
    BY <1>1
  <2>2. \A i \in 1 .. n : s[p[i]].name \in Names
    BY DEF IsNamed
  <2>3. \A i, j \in 1 .. n : s[p[i]].name = s[p[j]].name => i = j
    BY DEF IsNamed
  <2>4. \A i \in 1 .. n + 1 : u[q[i]].name \in Names
    BY <1>12, <2>1, <2>2
  <2>5. \A i, j \in 1 .. n + 1 : u[q[i]].name = u[q[j]].name => i = j
    BY <1>12, <2>1, <2>3
  <2> QED
    BY <2>4, <2>5 DEF IsNamed
<1> QED
  BY <1>11, <1>12, <1>13

\* The place before the removal of what is at i after it.
Was(k, i) == IF i < k THEN i ELSE i + 1

\* RemoveAttribute.
LEMMA RingShrinks ==
    ASSUME NEW s, NEW p, NEW n, IsRing(s, p, n), IsNamed(s, p, n),
           NEW k \in 1 .. n, NEW u, u = Detach(s, p[k])
    PROVE  \E q : /\ IsRing(u, q, n - 1) /\ IsNamed(u, q, n - 1)
                  /\ \A i \in 1 .. n - 1 : /\ u[q[i]].name = s[p[Was(k, i)]].name
                                           /\ u[q[i]].value = s[p[Was(k, i)]].value
<1> DEFINE c == p[k]
           before == p[k - 1]
           after == p[k + 1]
           q == [i \in 0 .. n |-> p[Was(k, i)]]
<1>1. /\ s \in Rings /\ n \in Nat
      /\ \A i \in 0 .. n + 1 : p[i] \in Ring
      /\ p[0] = sentinel /\ p[n + 1] = sentinel
      /\ \A i \in 1 .. n : p[i] \in Cells /\ p[i] \in Ring /\ p[i] # sentinel
      /\ \A i, j \in 0 .. n : p[i] = p[j] => i = j
      /\ \A i \in 0 .. n : s[p[i]].next = p[i + 1] /\ s[p[i + 1]].prev = p[i]
      /\ \A x \in Cells : s[x].next = NoCell \/ \E i \in 1 .. n : p[i] = x
  BY RingParts
<1>2. \A i, j \in 1 .. n + 1 : p[i] = p[j] => i = j
  BY RingPlaces
<1>3. k \in 0 .. n /\ k \in Nat /\ k - 1 \in 0 .. n /\ (k - 1) + 1 = k /\ k + 1 \in 0 .. n + 1
      /\ k + 1 \in 1 .. n + 1 /\ k - 1 \in 0 .. n + 1 /\ k # 0
  BY <1>1
<1>4. c \in Cells /\ c \in Ring /\ c # sentinel
  BY <1>1
<1>5. \A x \in 0 .. n + 1 : x # k => p[x] # c
  <2> TAKE x \in 0 .. n + 1
  <2>1. CASE x = n + 1
    BY <1>1, <1>4, <2>1
  <2>2. CASE x # n + 1
    <3>1. x \in 0 .. n
      BY <1>1, <2>2
    <3> QED
      BY <1>1, <1>3, <3>1
  <2> QED
    BY <2>1, <2>2
<1>6. s[c].prev = before /\ s[c].next = after /\ before \in Ring /\ after \in Ring
      /\ before # c /\ after # c
  <2>1. s[p[k - 1]].next = p[(k - 1) + 1] /\ s[p[(k - 1) + 1]].prev = p[k - 1]
    BY <1>1, <1>3
  <2>2. k - 1 # k /\ k + 1 # k
    BY <1>3
  <2> QED
    BY <1>1, <1>3, <1>5, <2>1, <2>2
<1> HIDE DEF c, before, after
<1>7. /\ u \in Rings /\ u[c].next = NoCell
      /\ \A x \in Ring \ {c} :
             /\ u[x].name = s[x].name /\ u[x].value = s[x].value
             /\ u[x].next = IF x = before THEN after ELSE s[x].next
             /\ u[x].prev = IF x = after THEN before ELSE s[x].prev
  <2>1. u = Detach(s, c)
    BY DEF c
  <2> QED
    BY <1>1, <1>4, <1>6, <2>1, DetachFields
<1>8. /\ \A i \in 0 .. n : Was(k, i) \in 0 .. n + 1 /\ Was(k, i) # k
      /\ \A i \in 0 .. n - 1 : Was(k, i) \in 0 .. n
      /\ \A i \in 1 .. n - 1 : Was(k, i) \in 1 .. n
      /\ \A i, j \in 0 .. n : Was(k, i) = Was(k, j) => i = j
      /\ Was(k, 0) = 0 /\ Was(k, n) = n + 1
  BY <1>1, <1>3 DEF Was
<1>9. \A i \in 0 .. n : q[i] = p[Was(k, i)] /\ q[i] \in Ring
  BY <1>1, <1>8
<1>10. q \in [0 .. n -> Ring] /\ n - 1 \in Int /\ (n - 1) + 1 = n
  <2>1. q = [i \in 0 .. n |-> q[i]]
    OBVIOUS
  <2>2. n - 1 \in Int /\ (n - 1) + 1 = n
    BY <1>1
  <2> HIDE DEF q
  <2> QED
    BY <1>9, <2>1, <2>2
<1>11. n - 1 \in Nat /\ 0 \in 0 .. n /\ n \in 0 .. n /\ n \in 1 .. n + 1
  BY <1>1, <1>3
<1> HIDE DEF q
<1>12. q[0] = sentinel /\ q[(n - 1) + 1] = sentinel
  BY <1>1, <1>8, <1>9, <1>10, <1>11
<1>13. \A i \in 0 .. n - 1 : i \in 0 .. n /\ i + 1 \in 0 .. n
  BY <1>1
<1>14. \A i \in 1 .. n - 1 : i \in 0 .. n /\ q[i] = p[Was(k, i)] /\ q[i] \in Cells /\ q[i] \in Ring \ {c}
  <2> TAKE i \in 1 .. n - 1
  <2>1. i \in 0 .. n
    BY <1>1
  <2>2. q[i] = p[Was(k, i)] /\ Was(k, i) \in 1 .. n /\ Was(k, i) \in 0 .. n + 1 /\ Was(k, i) # k
    BY <1>8, <1>9, <2>1
  <2> QED
    BY <1>1, <1>5, <2>1, <2>2
<1>15. \A i, j \in 0 .. n - 1 : q[i] = q[j] => i = j
  BY <1>1, <1>8, <1>9, <1>13
<1>16. \A i \in 0 .. n - 1 : u[q[i]].next = q[i + 1] /\ u[q[i + 1]].prev = q[i]
  <2> TAKE i \in 0 .. n - 1
  <2>0. q[i] = p[Was(k, i)] /\ q[i + 1] = p[Was(k, i + 1)] /\ i \in Nat /\ i + 1 <= n
    BY <1>1, <1>9, <1>13
  <2>1. CASE i + 1 < k
    <3>1. /\ q[i] = p[i] /\ q[i + 1] = p[i + 1]
          /\ i \in 0 .. n /\ i # k - 1 /\ i + 1 \in 1 .. n + 1 /\ i + 1 # k + 1
          /\ i \in 0 .. n + 1 /\ i + 1 \in 0 .. n + 1 /\ i # k /\ i + 1 # k
      BY <1>1, <1>3, <2>0, <2>1 DEF Was
    <3>2. p[i] # before /\ p[i + 1] # after
      BY <1>1, <1>2, <1>3, <3>1 DEF before, after
    <3>3. p[i] \in Ring \ {c} /\ p[i + 1] \in Ring \ {c}
      BY <1>1, <1>5, <3>1
    <3>4. u[p[i]].next = s[p[i]].next /\ u[p[i + 1]].prev = s[p[i + 1]].prev
      BY <1>7, <3>2, <3>3
    <3> QED
      BY <1>1, <3>1, <3>4
  <2>2. CASE i + 1 = k
    <3>1. q[i] = before /\ q[i + 1] = after
      <4>1. Was(k, i) = k - 1 /\ Was(k, i + 1) = k + 1
        BY <1>3, <2>0, <2>2 DEF Was
      <4> QED
        BY <2>0, <4>1 DEF before, after
    <3> QED
      BY <1>6, <1>7, <3>1
  <2>3. CASE i + 1 > k
    <3> DEFINE j == i + 1
    <3>1. Was(k, i) = j /\ Was(k, i + 1) = j + 1
      BY <1>3, <2>0, <2>3 DEF Was
    <3>2. /\ j \in 0 .. n /\ j # k - 1 /\ j + 1 \in 1 .. n + 1 /\ j + 1 # k + 1
          /\ j \in 0 .. n + 1 /\ j + 1 \in 0 .. n + 1 /\ j # k /\ j + 1 # k
      BY <1>1, <1>3, <2>0, <2>3
    <3> HIDE DEF j
    <3>3. p[j] # before /\ p[j + 1] # after
      BY <1>1, <1>2, <1>3, <3>2 DEF before, after
    <3>4. p[j] \in Ring \ {c} /\ p[j + 1] \in Ring \ {c}
      BY <1>1, <1>5, <3>2
    <3>5. u[p[j]].next = s[p[j]].next /\ u[p[j + 1]].prev = s[p[j + 1]].prev
      BY <1>7, <3>3, <3>4
    <3>6. u[p[j]].next = p[j + 1] /\ u[p[j + 1]].prev = p[j]
      BY <1>1, <3>2, <3>5
    <3> QED
      BY <2>0, <3>1, <3>6
  <2> QED
    BY <1>3, <2>0, <2>1, <2>2, <2>3
<1>17. \A x \in Cells : u[x].next = NoCell \/ \E i \in 1 .. n - 1 : q[i] = x
  <2> TAKE x \in Cells
  <2>1. CASE x = c
    BY <1>7, <2>1
  <2>2. CASE x # c /\ \E i \in 1 .. n : p[i] = x
    <3>1. PICK j \in 1 .. n : p[j] = x
      BY <2>2
    <3>2. j # k
      BY <2>2, <3>1 DEF c
    <3> DEFINE i == IF j < k THEN j ELSE j - 1
    <3>3. i \in 1 .. n - 1 /\ Was(k, i) = j
      BY <1>1, <1>3, <3>2 DEF Was
    <3> HIDE DEF i
    <3> QED
      BY <1>14, <3>1, <3>3
  <2>3. CASE x # c /\ ~ \E i \in 1 .. n : p[i] = x
    <3>1. x \in Ring \ {c} /\ s[x].next = NoCell
      BY <1>1, <2>3, RingIs
    <3>2. x # before
      <4>1. s[p[k - 1]].next = p[(k - 1) + 1]
        BY <1>1, <1>3
      <4>2. s[before].next = c
        BY <1>3, <4>1 DEF before, c
      <4> QED
        BY <1>4, <3>1, <4>2, RingIs
    <3> QED
      BY <1>7, <3>1, <3>2
  <2> QED
    BY <2>1, <2>2, <2>3
<1>18. IsRing(u, q, n - 1)
  <2>1. \A i \in 1 .. n - 1 : q[i] \in Cells
    BY <1>14
  <2>2. q \in [0 .. (n - 1) + 1 -> Ring]
    BY <1>10
  <2> QED
    BY <1>7, <1>11, <1>12, <1>15, <1>16, <1>17, <2>1, <2>2 DEF IsRing
<1>19. \A i \in 1 .. n - 1 : /\ u[q[i]].name = s[p[Was(k, i)]].name
                             /\ u[q[i]].value = s[p[Was(k, i)]].value
  BY <1>7, <1>14
<1>20. IsNamed(u, q, n - 1)
  <2>1. \A i \in 1 .. n : s[p[i]].name \in Names
    BY DEF IsNamed
  <2>2. \A i, j \in 1 .. n : s[p[i]].name = s[p[j]].name => i = j
    BY DEF IsNamed
  <2>3. \A i \in 1 .. n - 1 : Was(k, i) \in 1 .. n /\ u[q[i]].name = s[p[Was(k, i)]].name
    BY <1>8, <1>19
  <2>4. \A i, j \in 1 .. n - 1 : Was(k, i) = Was(k, j) => i = j
    BY <1>8, <1>14
  <2> QED
    BY <2>1, <2>2, <2>3, <2>4 DEF IsNamed
<1> QED
  BY <1>18, <1>19, <1>20

Entries == [name : Names \cup {""}, value : Values \cup {""}]
Entry(name, value) == [name |-> name, value |-> value]

\* The fields of an entry.
LEMMA EntryIs ==
    ASSUME NEW a \in Names \cup {""}, NEW v \in Values \cup {""}
    PROVE  Entry(a, v) \in Entries /\ Entry(a, v).name = a /\ Entry(a, v).value = v
BY DEF Entry, Entries

\* An entry with another value.
LEMMA EntryWith ==
    ASSUME NEW a, NEW v, NEW w
    PROVE  [Entry(a, v) EXCEPT !.value = w] = Entry(a, w)
BY DEF Entry

\* Two sequences with the same places and the same elements.
LEMMA SameSequence ==
    ASSUME NEW S, NEW s \in Seq(S), NEW t \in Seq(S), NEW n, Len(s) = n, Len(t) = n,
           \A k \in 1 .. n : s[k] = t[k]
    PROVE  s = t
<1>1. \A k \in 1 .. Len(s) : s[k] = t[k]
  OBVIOUS
<1> QED
  BY <1>1, SeqEqual

\* The entries of a ring, in its order.
LEMMA ShownIs ==
    ASSUME NEW s, NEW p, NEW n, IsRing(s, p, n)
    PROVE  /\ Shown(s, p, n) \in Seq(Entries) /\ Len(Shown(s, p, n)) = n
           /\ \A k \in 1 .. n : /\ Shown(s, p, n)[k] = Entry(s[p[k]].name, s[p[k]].value)
                                /\ Entry(s[p[k]].name, s[p[k]].value) \in Entries
                                /\ Shown(s, p, n)[k].name = s[p[k]].name
<1>1. s \in Rings /\ n \in Nat /\ \A k \in 1 .. n : p[k] \in Ring
  BY RingParts
<1>2. ASSUME NEW k \in 1 .. n
      PROVE  /\ Entry(s[p[k]].name, s[p[k]].value) \in Entries
             /\ Entry(s[p[k]].name, s[p[k]].value).name = s[p[k]].name
  <2> DEFINE x == p[k]
  <2>1. x \in Ring
    BY <1>1
  <2> HIDE DEF x
  <2>2. s[x].name \in Names \cup {""} /\ s[x].value \in Values \cup {""}
    BY <1>1, <2>1, CellFields
  <2>3. Entry(s[x].name, s[x].value) \in Entries /\ Entry(s[x].name, s[x].value).name = s[x].name
    BY <2>2, EntryIs
  <2> QED
    BY <2>3 DEF x
<1>3. Shown(s, p, n) = [k \in 1 .. n |-> Entry(s[p[k]].name, s[p[k]].value)]
  BY DEF Shown, Entry
<1>4. Shown(s, p, n) \in [1 .. n -> Entries]
  BY <1>2, <1>3
<1>5. Shown(s, p, n) \in Seq(Entries) /\ Len(Shown(s, p, n)) = n
  BY <1>1, <1>4, Enumerated
<1> QED
  BY <1>2, <1>3, <1>5

\* A ring with a cell more shows an entry more, the last.
LEMMA ShownGrows ==
    ASSUME NEW s, NEW p, NEW n, IsRing(s, p, n), NEW u, NEW q, IsRing(u, q, n + 1),
           NEW name \in Names, NEW value \in Values,
           \A i \in 1 .. n : u[q[i]].name = s[p[i]].name /\ u[q[i]].value = s[p[i]].value,
           u[q[n + 1]].name = name, u[q[n + 1]].value = value
    PROVE  Shown(u, q, n + 1) = Append(Shown(s, p, n), Entry(name, value))
<1> DEFINE old == Shown(s, p, n)
           new == Shown(u, q, n + 1)
           e == Entry(name, value)
           grown == Append(old, e)
           m == n + 1
<1>1. /\ old \in Seq(Entries) /\ Len(old) = n
      /\ \A k \in 1 .. n : old[k] = Entry(s[p[k]].name, s[p[k]].value)
  BY ShownIs
<1>2. IsRing(u, q, m)
  OBVIOUS
<1>3. n \in Nat
  BY RingParts
<1>4. m \in 1 .. m /\ \A k \in 1 .. m : k = m \/ k \in 1 .. n
  BY <1>3
<1>5. e \in Entries
  BY EntryIs
<1>6. u[q[m]].name = name /\ u[q[m]].value = value
  OBVIOUS
<1>7. new = Shown(u, q, m)
  OBVIOUS
<1>8. Len(old) + 1 = m
  BY <1>1
<1> HIDE DEF old, new, e, grown, m
<1>9. /\ new \in Seq(Entries) /\ Len(new) = m
      /\ \A k \in 1 .. m : new[k] = Entry(u[q[k]].name, u[q[k]].value)
  BY <1>2, <1>7, ShownIs
<1>10. /\ grown \in Seq(Entries) /\ Len(grown) = m
       /\ grown[m] = e /\ \A k \in 1 .. n : grown[k] = old[k]
  <2>1. /\ grown \in Seq(Entries) /\ Len(grown) = Len(old) + 1
        /\ \A i \in 1 .. Len(old) : grown[i] = old[i]
        /\ grown[Len(old) + 1] = e
    BY <1>1, <1>5, AppendProperties DEF grown
  <2> QED
    BY <1>1, <1>8, <2>1
<1>11. \A k \in 1 .. m : new[k] = grown[k]
  <2> TAKE k \in 1 .. m
  <2>1. CASE k = m
    BY <1>4, <1>6, <1>9, <1>10, <2>1 DEF e
  <2>2. CASE k \in 1 .. n
    BY <1>1, <1>9, <1>10, <2>2
  <2> QED
    BY <1>4, <2>1, <2>2
<1>12. new = grown
  BY <1>9, <1>10, <1>11, SameSequence
<1> QED
  BY <1>12 DEF new, grown, old, e, m

\* A ring without its k-th cell shows its entries without the k-th.
LEMMA ShownShrinks ==
    ASSUME NEW s, NEW p, NEW n, IsRing(s, p, n), NEW u, NEW q, IsRing(u, q, n - 1),
           NEW k \in 1 .. n,
           \A i \in 1 .. n - 1 : /\ u[q[i]].name = s[p[Was(k, i)]].name
                                 /\ u[q[i]].value = s[p[Was(k, i)]].value
    PROVE  Shown(u, q, n - 1) = RemoveAt(Shown(s, p, n), k)
<1> DEFINE old == Shown(s, p, n)
           new == Shown(u, q, n - 1)
           less == RemoveAt(old, k)
           m == n - 1
<1>1. /\ old \in Seq(Entries) /\ Len(old) = n
      /\ \A i \in 1 .. n : old[i] = Entry(s[p[i]].name, s[p[i]].value)
  BY ShownIs
<1>2. IsRing(u, q, m) /\ new = Shown(u, q, m)
  OBVIOUS
<1>3. n \in Nat /\ m = n - 1
  BY RingParts
<1>4. \A i \in 1 .. m : u[q[i]].name = s[p[Was(k, i)]].name /\ u[q[i]].value = s[p[Was(k, i)]].value
  OBVIOUS
<1> HIDE DEF old, new, less, m
<1>5. /\ new \in Seq(Entries) /\ Len(new) = m
      /\ \A i \in 1 .. m : new[i] = Entry(u[q[i]].name, u[q[i]].value)
  BY <1>2, ShownIs
<1>6. /\ less \in Seq(Entries) /\ Len(less) = m
      /\ \A i \in 1 .. m : less[i] = IF i < k THEN old[i] ELSE old[i + 1]
  <2>1. k \in 1 .. Len(old)
    BY <1>1
  <2>2. /\ less \in Seq(Entries) /\ Len(less) = Len(old) - 1
        /\ \A i \in 1 .. Len(old) - 1 : less[i] = IF i < k THEN old[i] ELSE old[i + 1]
    BY <1>1, <2>1, RemoveAtIs DEF less
  <2> QED
    BY <1>1, <1>3, <2>2
<1>7. \A i \in 1 .. m : new[i] = less[i]
  <2> TAKE i \in 1 .. m
  <2>1. Was(k, i) \in 1 .. n /\ less[i] = old[Was(k, i)]
    BY <1>3, <1>6 DEF Was
  <2> QED
    BY <1>1, <1>4, <1>5, <2>1
<1>8. new = less
  BY <1>5, <1>6, <1>7, SameSequence
<1> QED
  BY <1>8 DEF new, less, old, m

\* A ring whose k-th cell has another value shows another k-th value.
LEMMA ShownKeeps ==
    ASSUME NEW s, NEW p, NEW n, IsRing(s, p, n), NEW u, IsRing(u, p, n),
           NEW k \in 1 .. n, NEW value \in Values,
           \A i \in 1 .. n : /\ u[p[i]].name = s[p[i]].name
                             /\ u[p[i]].value = IF i = k THEN value ELSE s[p[i]].value
    PROVE  Shown(u, p, n) = [Shown(s, p, n) EXCEPT ![k].value = value]
<1> DEFINE old == Shown(s, p, n)
           new == Shown(u, p, n)
           a == s[p[k]].name
<1>1. /\ old \in Seq(Entries) /\ Len(old) = n
      /\ \A i \in 1 .. n : old[i] = Entry(s[p[i]].name, s[p[i]].value)
  BY ShownIs
<1>2. /\ new \in Seq(Entries) /\ Len(new) = n
      /\ \A i \in 1 .. n : new[i] = Entry(u[p[i]].name, u[p[i]].value)
  BY ShownIs
<1> HIDE DEF old, new, a
<1>3. /\ old = [i \in 1 .. n |-> old[i]] /\ new = [i \in 1 .. n |-> new[i]]
  BY <1>1, <1>2
<1>4. [old[k] EXCEPT !.value = value] = Entry(a, value)
  BY <1>1, EntryWith DEF a
<1>5. new[k] = Entry(a, value)
  BY <1>2 DEF a
<1>6. \A i \in 1 .. n : i # k => new[i] = old[i]
  BY <1>1, <1>2
<1>7. [old EXCEPT ![k].value = value] = [old EXCEPT ![k] = Entry(a, value)]
  BY <1>4
<1>8. [old EXCEPT ![k] = Entry(a, value)] = new
  <2> DEFINE e == Entry(a, value)
  <2> HIDE DEF e
  <2>1. [old EXCEPT ![k] = e] = [i \in 1 .. n |-> IF i = k THEN e ELSE old[i]]
    BY <1>3
  <2>2. \A i \in 1 .. n : new[i] = IF i = k THEN e ELSE old[i]
    BY <1>5, <1>6 DEF e
  <2> QED
    BY <1>3, <2>1, <2>2 DEF e
<1> QED
  BY <1>7, <1>8 DEF new, old

\* What AttributesKeepOrder says of two lists.
Ordered(old, new) ==
    \E name \in Names :
        LET K == {k \in DOMAIN old : old[k].name = name} IN
        \/ /\ K = {}
           /\ \E value \in Values : new = Append(old, [name |-> name, value |-> value])
        \/ \E k \in K : \/ K = {k} /\ new = RemoveAt(old, k)
                        \/ \E value \in Values : new = [old EXCEPT ![k].value = value]

Valued(old, k, value, new) == new = [old EXCEPT ![k].value = value]

\* What has to be shown of a change for it to keep the order.
LEMMA OrderedBy ==
    ASSUME NEW old, NEW new, NEW name \in Names, NEW K, K = {k \in DOMAIN old : old[k].name = name},
           \/ K = {} /\ \E value \in Values : new = Append(old, Entry(name, value))
           \/ \E k \in K : \/ K = {k} /\ new = RemoveAt(old, k)
                           \/ \E value \in Values : Valued(old, k, value, new)
    PROVE  Ordered(old, new)
<1>1. CASE K = {} /\ \E value \in Values : new = Append(old, Entry(name, value))
  BY Zenon, <1>1 DEF Ordered, Entry
<1>2. CASE \E k \in K : K = {k} /\ new = RemoveAt(old, k)
  BY Zenon, <1>2 DEF Ordered
<1>3. CASE \E k \in K : \E value \in Values : Valued(old, k, value, new)
  BY Zenon, <1>3 DEF Ordered, Valued
<1> QED
  BY <1>1, <1>2, <1>3

\* The entries with a name are those of the cells with it.
LEMMA Holders ==
    ASSUME NEW s, NEW p, NEW n, IsRing(s, p, n), NEW name, NEW old, old = Shown(s, p, n),
           NEW K, K = {k \in DOMAIN old : old[k].name = name}
    PROVE  \A k : k \in K <=> k \in 1 .. n /\ s[p[k]].name = name
<1>1. /\ old \in Seq(Entries) /\ Len(old) = n
      /\ \A k \in 1 .. n : old[k].name = s[p[k]].name
  BY ShownIs
<1>2. DOMAIN old = 1 .. n
  BY <1>1
<1> QED
  BY <1>1, <1>2

\* An entry added at the end, when no other has its name, keeps the order.
LEMMA AppendOrdered ==
    ASSUME NEW s, NEW p, NEW n, IsRing(s, p, n), NEW old, old = Shown(s, p, n), NEW new,
           NEW name \in Names, \A k \in 1 .. n : s[p[k]].name # name,
           NEW value \in Values, new = Append(old, Entry(name, value))
    PROVE  Ordered(old, new)
<1> DEFINE K == {k \in DOMAIN old : old[k].name = name}
<1>1. /\ old \in Seq(Entries) /\ Len(old) = n
      /\ \A k \in 1 .. n : old[k].name = s[p[k]].name
  BY ShownIs
<1>2. DOMAIN old = 1 .. n
  BY <1>1
<1>3. K = {}
  BY <1>1, <1>2
<1>4. K = {k \in DOMAIN old : old[k].name = name}
  OBVIOUS
<1> HIDE DEF K
<1> QED
  BY <1>3, <1>4, OrderedBy

\* An entry taken out, the only one with its name, keeps the order.
LEMMA RemoveOrdered ==
    ASSUME NEW s, NEW p, NEW n, IsRing(s, p, n), IsNamed(s, p, n), NEW old, old = Shown(s, p, n),
           NEW new, NEW name \in Names, NEW k \in 1 .. n, s[p[k]].name = name, new = RemoveAt(old, k)
    PROVE  Ordered(old, new)
<1> DEFINE K == {i \in DOMAIN old : old[i].name = name}
<1>2. K = {i \in DOMAIN old : old[i].name = name}
  OBVIOUS
<1> HIDE DEF K
<1>1. \A i : i \in K <=> i \in 1 .. n /\ s[p[i]].name = name
  BY <1>2, Holders
<1>3. \A i, j \in 1 .. n : s[p[i]].name = s[p[j]].name => i = j
  BY DEF IsNamed
<1> HIDE DEF K
<1>4. K = {k} /\ k \in K
  BY <1>1, <1>3
<1> QED
  BY <1>2, <1>4, OrderedBy

\* Another value for the entry with a name keeps the order.
LEMMA SetOrdered ==
    ASSUME NEW s, NEW p, NEW n, IsRing(s, p, n), NEW old, old = Shown(s, p, n), NEW new,
           NEW name \in Names, NEW k \in 1 .. n, s[p[k]].name = name,
           NEW value \in Values, Valued(old, k, value, new)
    PROVE  Ordered(old, new)
<1> DEFINE K == {i \in DOMAIN old : old[i].name = name}
<1>2. K = {i \in DOMAIN old : old[i].name = name}
  OBVIOUS
<1> HIDE DEF K
<1>1. \A i : i \in K <=> i \in 1 .. n /\ s[p[i]].name = name
  BY <1>2, Holders
<1> HIDE DEF K
<1>3. k \in K
  BY <1>1
<1> QED
  BY <1>2, <1>3, OrderedBy
-----------------------------------------------------------------------------
AreAttributes(s) == \E n : \E p : IsRing(s, p, n) /\ IsNamed(s, p, n)
RingInv == AreAttributes(attributeSet)

\* Add: the ring stays one, with the new attribute behind the others.
LEMMA RingAppends ==
    ASSUME NEW s, NEW p, NEW n, IsRing(s, p, n), IsNamed(s, p, n), NEW name \in Names, NEW value \in Values,
           \A k \in 1 .. n : s[p[k]].name # name, NEW c \in Cells \ Linked(s),
           NEW u, Added(s, c, name, value, u)
    PROVE  AreAttributes(u) /\ Ordered(Listed(s), Listed(u))
<1>1. c \in Cells /\ s[c].next = NoCell
  BY DEF Linked
<1>2. PICK q : /\ IsRing(u, q, n + 1) /\ IsNamed(u, q, n + 1)
               /\ \A i \in 1 .. n : u[q[i]].name = s[p[i]].name /\ u[q[i]].value = s[p[i]].value
               /\ u[q[n + 1]].name = name /\ u[q[n + 1]].value = value
  BY <1>1, RingGrows
<1>3. AreAttributes(u)
  BY <1>2 DEF AreAttributes
<1>4. Listed(s) = Shown(s, p, n) /\ Listed(u) = Shown(u, q, n + 1)
  BY <1>2, ListedIs
<1>5. Shown(u, q, n + 1) = Append(Shown(s, p, n), Entry(name, value))
  BY <1>2, ShownGrows
<1>6. Ordered(Listed(s), Listed(u))
  BY <1>4, <1>5, AppendOrdered
<1> QED
  BY <1>3, <1>6

\* Remove: the ring closes over the cell.
LEMMA RingRemoves ==
    ASSUME NEW s, NEW p, NEW n, IsRing(s, p, n), IsNamed(s, p, n), NEW name \in Names,
           NEW k \in 1 .. n, s[p[k]].name = name, NEW u, u = Detach(s, p[k])
    PROVE  AreAttributes(u) /\ Ordered(Listed(s), Listed(u))
<1>1. PICK q : /\ IsRing(u, q, n - 1) /\ IsNamed(u, q, n - 1)
               /\ \A i \in 1 .. n - 1 : /\ u[q[i]].name = s[p[Was(k, i)]].name
                                        /\ u[q[i]].value = s[p[Was(k, i)]].value
  BY RingShrinks
<1>2. AreAttributes(u)
  BY <1>1 DEF AreAttributes
<1>3. Listed(s) = Shown(s, p, n) /\ Listed(u) = Shown(u, q, n - 1)
  BY <1>1, ListedIs
<1>4. Shown(u, q, n - 1) = RemoveAt(Shown(s, p, n), k)
  BY <1>1, ShownShrinks
<1>5. Ordered(Listed(s), Listed(u))
  BY <1>3, <1>4, RemoveOrdered
<1> QED
  BY <1>2, <1>5

\* SetValue: the ring is as it was.
LEMMA RingSets ==
    ASSUME NEW s, NEW p, NEW n, IsRing(s, p, n), IsNamed(s, p, n), NEW name \in Names,
           NEW k \in 1 .. n, s[p[k]].name = name, NEW value \in Values, NEW u, ValueSet(s, p[k], value, u)
    PROVE  AreAttributes(u) /\ Ordered(Listed(s), Listed(u))
<1>1. /\ IsRing(u, p, n) /\ IsNamed(u, p, n)
      /\ \A i \in 1 .. n : /\ u[p[i]].name = s[p[i]].name
                           /\ u[p[i]].value = IF i = k THEN value ELSE s[p[i]].value
  BY RingKeeps
<1>2. AreAttributes(u)
  BY <1>1 DEF AreAttributes
<1>3. Listed(s) = Shown(s, p, n) /\ Listed(u) = Shown(u, p, n)
  BY <1>1, ListedIs
<1>4. Valued(Shown(s, p, n), k, value, Shown(u, p, n))
  BY <1>1, ShownKeeps DEF Valued
<1>5. Ordered(Listed(s), Listed(u))
  BY <1>3, <1>4, SetOrdered
<1> QED
  BY <1>2, <1>5
-----------------------------------------------------------------------------
\* The set of attributes starts as a ring of the sentinel alone.
LEMMA RingStarts == AttributesInit => RingInv
<1> SUFFICES ASSUME AttributesInit PROVE RingInv
  OBVIOUS
<1> DEFINE s == attributeSet
           p == [k \in 0 .. 1 |-> sentinel]
           none == ""
<1>1. s = [c \in Ring |-> IF c = sentinel THEN Sentinel ELSE FreeCell]
  BY DEF AttributesInit
<1>2. Sentinel \in CellType /\ FreeCell \in CellType
  BY RingIs DEF Sentinel, FreeCell, CellType
<1>3. s \in Rings
  BY <1>1, <1>2 DEF Rings
<1>4. Sentinel.next = sentinel /\ Sentinel.prev = sentinel /\ FreeCell.next = NoCell
  BY DEF Sentinel, FreeCell
<1>5. s[sentinel] = Sentinel /\ \A c \in Cells : s[c] = FreeCell
  BY <1>1, RingIs
<1> HIDE DEF s
<1>6. p \in [0 .. 0 + 1 -> Ring] /\ p[0] = sentinel /\ p[0 + 1] = sentinel
  <2>1. 0 .. 0 + 1 = 0 .. 1 /\ 0 \in 0 .. 1 /\ 0 + 1 \in 0 .. 1
    OBVIOUS
  <2>2. p \in [0 .. 1 -> Ring] /\ \A k \in 0 .. 1 : p[k] = sentinel
    BY RingIs
  <2> HIDE DEF p
  <2> QED
    BY <2>1, <2>2
<1> HIDE DEF p
<1>7. \A k \in 0 .. 0 : k = 0
  OBVIOUS
<1>8. \A k \in 1 .. 0 : FALSE
  OBVIOUS
<1>9. \A k \in 0 .. 0 : s[p[k]].next = p[k + 1] /\ s[p[k + 1]].prev = p[k]
  BY <1>4, <1>5, <1>6, <1>7
<1>10. \A c \in Cells : s[c].next = NoCell
  BY <1>4, <1>5
<1>11. \A k \in 1 .. 0 : p[k] \in Cells
  BY <1>8
<1>12. \A i, j \in 0 .. 0 : p[i] = p[j] => i = j
  BY <1>7
<1>13. IsRing(s, p, 0)
  BY <1>3, <1>6, <1>9, <1>10, <1>11, <1>12 DEF IsRing
<1>14. IsNamed(s, p, 0)
  BY <1>8 DEF IsNamed
<1> QED
  BY <1>13, <1>14 DEF RingInv, AreAttributes, s

\* Every change of the attributes keeps the ring, and the order of what it shows.
LEMMA RingStays ==
    ASSUME RingInv, AttributesNext
    PROVE  RingInv' /\ Ordered(Listed(attributeSet), Listed(attributeSet'))
<1> DEFINE s == attributeSet
           u == attributeSet'
<1>1. PICK n : \E p : IsRing(s, p, n) /\ IsNamed(s, p, n)
  BY DEF RingInv, AreAttributes
<1>2. PICK p : IsRing(s, p, n) /\ IsNamed(s, p, n)
  BY <1>1
<1> SUFFICES AreAttributes(u) /\ Ordered(Listed(s), Listed(u))
  BY DEF RingInv
<1>3. PICK name \in Names : RemoveAttribute(name) \/ \E value \in Values : SetAttribute(name, value)
  BY DEF AttributesNext
<1>4. \/ Find(s, name) = NoCell /\ \A k \in 1 .. n : s[p[k]].name # name
      \/ \E k \in 1 .. n : Find(s, name) = p[k] /\ p[k] # NoCell /\ s[p[k]].name = name
  BY <1>2, FindIs
<1>5. CASE RemoveAttribute(name)
  <2>1. Find(s, name) # NoCell /\ u = Detach(s, Find(s, name))
    BY <1>5 DEF RemoveAttribute
  <2>2. PICK k \in 1 .. n : Find(s, name) = p[k] /\ s[p[k]].name = name
    BY <1>4, <2>1
  <2>3. u = Detach(s, p[k])
    BY <2>1, <2>2
  <2> HIDE DEF s, u
  <2> QED
    BY <1>2, <2>2, <2>3, RingRemoves
<1>6. ASSUME NEW value \in Values, SetAttribute(name, value)
      PROVE  AreAttributes(u) /\ Ordered(Listed(s), Listed(u))
  <2>1. CASE Find(s, name) # NoCell
    <3>1. PICK k \in 1 .. n : Find(s, name) = p[k] /\ s[p[k]].name = name
      BY <1>4, <2>1
    <3>2. u = [s EXCEPT ![Find(s, name)].value = value]
      BY Zenon, <1>6, <2>1 DEF SetAttribute
    <3>3. ValueSet(s, p[k], value, u)
      BY <3>1, <3>2 DEF ValueSet
    <3> HIDE DEF s, u
    <3> QED
      BY <1>2, <3>1, <3>3, RingSets
  <2>2. CASE Find(s, name) = NoCell
    <3>1. \E c \in Cells \ Linked(s) : u = [Add(s, c) EXCEPT ![c].name = name, ![c].value = value]
      BY Zenon, <1>6, <2>2 DEF SetAttribute
    <3>2. PICK c \in Cells \ Linked(s) : Added(s, c, name, value, u)
      BY Zenon, <3>1 DEF Added
    <3>3. \A k \in 1 .. n : s[p[k]].name # name
      BY <1>4, <2>2
    <3> HIDE DEF s, u
    <3> QED
      BY <1>2, <3>2, <3>3, RingAppends
  <2> QED
    BY <2>1, <2>2
<1> QED
  BY <1>3, <1>5, <1>6

\* SetAttribute and RemoveAttribute keep the order of the other attributes, with any number of
\* cells: a new name goes to the end, an old one keeps its place and gets the value, and the one
\* removed leaves the others as they are, however the cells were linked and freed before.
THEOREM AttributesAreOrdered == Spec => AttributesKeepOrder
<1>1. Init => RingInv
  BY RingStarts DEF Init
<1>2. RingInv /\ [Next]_xmlVars => RingInv'
  <2> SUFFICES ASSUME RingInv, [Next]_xmlVars PROVE RingInv'
    OBVIOUS
  <2>1. AttributesNext \/ attributeSet' = attributeSet
    BY DEF Next, xmlVars, TypeCharacter, TypeName, AddElement, ChangeTree, ChangeAttributes
  <2>2. CASE AttributesNext
    BY <2>2, RingStays
  <2>3. CASE attributeSet' = attributeSet
    BY <2>3 DEF RingInv
  <2> QED
    BY <2>1, <2>2, <2>3
<1>3. RingInv /\ [Next]_xmlVars =>
          [LET old == Listed(attributeSet)
               new == Listed(attributeSet)'
           IN  \E name \in Names :
                   LET K == {k \in DOMAIN old : old[k].name = name} IN
                   \/ /\ K = {}
                      /\ \E value \in Values : new = Append(old, [name |-> name, value |-> value])
                   \/ \E k \in K : \/ K = {k} /\ new = RemoveAt(old, k)
                                   \/ \E value \in Values : new = [old EXCEPT ![k].value = value]
          ]_attributeSet
  <2> SUFFICES ASSUME RingInv, [Next]_xmlVars, attributeSet' # attributeSet
               PROVE  LET old == Listed(attributeSet)
                          new == Listed(attributeSet)'
                      IN  \E name \in Names :
                              LET K == {k \in DOMAIN old : old[k].name = name} IN
                              \/ /\ K = {}
                                 /\ \E value \in Values :
                                        new = Append(old, [name |-> name, value |-> value])
                              \/ \E k \in K : \/ K = {k} /\ new = RemoveAt(old, k)
                                              \/ \E value \in Values : new = [old EXCEPT ![k].value = value]
    BY Zenon
  <2>1. AttributesNext
    BY DEF Next, xmlVars, TypeCharacter, TypeName, AddElement, ChangeTree, ChangeAttributes
  <2>2. Ordered(Listed(attributeSet), Listed(attributeSet'))
    BY <2>1, RingStays
  <2> QED
    BY Zenon, <2>2 DEF Ordered
<1> QED
  BY <1>1, <1>2, <1>3, PTL DEF Spec, AttributesKeepOrder
-----------------------------------------------------------------------------
\* What is at i, or nothing.
OrNull(f, i) == IF i \in 1 .. Len(f) THEN f[i] ELSE NULL

\* The children of p are those in f, in this order.
IsKids(t, p, f) ==
    /\ f \in Seq(Nodes)
    /\ \A i, j \in 1 .. Len(f) : f[i] = f[j] => i = j
    /\ \A c \in Nodes : t.parent[c] = p <=> \E i \in 1 .. Len(f) : f[i] = c
    /\ t.firstChild[p] = OrNull(f, 1)
    /\ \A i \in 1 .. Len(f) : t.next[f[i]] = OrNull(f, i + 1)
AllKids(t, F) == F \in [Nodes -> Seq(Nodes)] /\ \A p \in Nodes : IsKids(t, p, F[p])

\* What it is to be the children of a node, one fact at a time.
LEMMA KidsParts ==
    ASSUME NEW t, NEW p, NEW f, IsKids(t, p, f), NEW n, n = Len(f)
    PROVE  /\ f \in Seq(Nodes) /\ n \in Nat
           /\ \A i \in 1 .. n : f[i] \in Nodes /\ f[i] # NULL /\ t.parent[f[i]] = p
           /\ \A i, j \in 1 .. n : f[i] = f[j] => i = j
           /\ \A c \in Nodes : t.parent[c] = p => \E i \in 1 .. n : f[i] = c
           /\ n > 0 => t.firstChild[p] = f[1]
           /\ n = 0 => t.firstChild[p] = NULL
           /\ \A i \in 1 .. n : t.next[f[i]] = IF i = n THEN NULL ELSE f[i + 1]
<1>1. f \in Seq(Nodes) /\ n \in Nat
  BY LenProperties DEF IsKids
<1>2. \A i \in 1 .. n : f[i] \in Nodes
  BY <1>1, ElementOfSeq
<1>3. /\ \A i, j \in 1 .. n : f[i] = f[j] => i = j
      /\ \A c \in Nodes : t.parent[c] = p <=> \E i \in 1 .. n : f[i] = c
      /\ t.firstChild[p] = OrNull(f, 1)
      /\ \A i \in 1 .. n : t.next[f[i]] = OrNull(f, i + 1)
  BY DEF IsKids
<1>4. n > 0 => OrNull(f, 1) = f[1]
  BY <1>1 DEF OrNull
<1>5. n = 0 => OrNull(f, 1) = NULL
  BY <1>1 DEF OrNull
<1>6. \A i \in 1 .. n : OrNull(f, i + 1) = IF i = n THEN NULL ELSE f[i + 1]
  BY <1>1 DEF OrNull
<1>7. NULL \notin Nodes
  BY TreeAssumption
<1> QED
  BY <1>1, <1>2, <1>3, <1>4, <1>5, <1>6, <1>7

\* Facts that make a sequence of nodes the children of one.
LEMMA KidsFrom ==
    ASSUME NEW t, NEW p, NEW f \in Seq(Nodes), NEW n, n = Len(f),
           \A i \in 1 .. n : t.parent[f[i]] = p,
           \A i, j \in 1 .. n : f[i] = f[j] => i = j,
           \A c \in Nodes : t.parent[c] = p => \E i \in 1 .. n : f[i] = c,
           n > 0 => t.firstChild[p] = f[1], n = 0 => t.firstChild[p] = NULL,
           \A i \in 1 .. n : t.next[f[i]] = IF i = n THEN NULL ELSE f[i + 1]
    PROVE  IsKids(t, p, f)
<1>1. n \in Nat
  BY LenProperties
<1>4. n > 0 => OrNull(f, 1) = f[1]
  BY <1>1 DEF OrNull
<1>5. n = 0 => OrNull(f, 1) = NULL
  BY <1>1 DEF OrNull
<1>6. \A i \in 1 .. n : OrNull(f, i + 1) = IF i = n THEN NULL ELSE f[i + 1]
  BY <1>1 DEF OrNull
<1>7. n > 0 \/ n = 0
  BY <1>1
<1>8. t.firstChild[p] = OrNull(f, 1)
  BY <1>4, <1>5, <1>7
<1>9. \A i \in 1 .. n : t.next[f[i]] = OrNull(f, i + 1)
  BY <1>6
<1>11. \A c \in Nodes : t.parent[c] = p <=> \E i \in 1 .. n : f[i] = c
  OBVIOUS
<1> QED
  BY <1>8, <1>9, <1>11 DEF IsKids

\* A node has no more children than there are nodes.
LEMMA KidsFit ==
    ASSUME NEW t, NEW p, NEW f, IsKids(t, p, f)
    PROVE  Len(f) <= Cardinality(Nodes) /\ Cardinality(Nodes) \in Nat /\ Len(f) \in Nat
<1> DEFINE n == Len(f)
           g == [i \in 1 .. n |-> f[i]]
<1>1. n \in Nat /\ (\A i \in 1 .. n : f[i] \in Nodes) /\ \A i, j \in 1 .. n : f[i] = f[j] => i = j
  BY KidsParts
<1>2. IsFiniteSet(Nodes)
  BY TreeAssumption
<1> HIDE DEF n
<1>3. g \in Injection(1 .. n, Nodes)
  BY <1>1 DEF Injection, IsInjective
<1>4. Cardinality(1 .. n) <= Cardinality(Nodes)
  <2> HIDE DEF g
  <2> QED
    BY <1>2, <1>3, FS_Injection
<1>5. Cardinality(1 .. n) = n
  BY <1>1, FS_Interval
<1>6. Cardinality(Nodes) \in Nat
  BY <1>2, FS_CardinalityType
<1> QED
  BY <1>1, <1>4, <1>5, <1>6 DEF n

\* FirstChild and NextSibling meet the children in their order.
LEMMA ChildrenAre ==
    ASSUME NEW t, NEW p, NEW f, IsKids(t, p, f)
    PROVE  ChildrenOf(t, p) = f
<1> DEFINE N == Cardinality(Nodes)
           n == Len(f)
           Same(g) == g = [k \in 0 .. N |->
                            IF k = 0 THEN t.firstChild[p]
                            ELSE IF g[k - 1] = NULL THEN NULL ELSE t.next[g[k - 1]]]
           chain == CHOOSE g : Same(g)
           h == [k \in 0 .. N |-> IF k < n THEN f[k + 1] ELSE NULL]
           met == {k \in 0 .. N : chain[k] # NULL}
<1>1. n <= N /\ N \in Nat /\ n \in Nat
  BY KidsFit
<1>2. /\ f \in Seq(Nodes)
      /\ \A i \in 1 .. n : f[i] # NULL
      /\ n > 0 => t.firstChild[p] = f[1]
      /\ n = 0 => t.firstChild[p] = NULL
      /\ \A i \in 1 .. n : t.next[f[i]] = IF i = n THEN NULL ELSE f[i + 1]
  BY KidsParts
<1>a. f = [k \in 1 .. n |-> f[k]]
  BY <1>2
<1> HIDE DEF N, n
<1>3. ASSUME NEW k \in 0 .. N
      PROVE  h[k] = IF k = 0 THEN t.firstChild[p]
                    ELSE IF h[k - 1] = NULL THEN NULL ELSE t.next[h[k - 1]]
  <2>1. CASE k = 0
    BY <1>1, <1>2, <2>1
  <2>2. CASE k # 0 /\ k <= n
    <3>1. h[k - 1] = f[k] /\ f[k] # NULL /\ k \in 1 .. n
      BY <1>1, <1>2, <2>2
    <3>2. t.next[f[k]] = IF k = n THEN NULL ELSE f[k + 1]
      BY <1>2, <3>1
    <3>3. h[k] = IF k = n THEN NULL ELSE f[k + 1]
      BY <1>1, <2>2
    <3> HIDE DEF h
    <3> QED
      BY <2>2, <3>1, <3>2, <3>3
  <2>3. CASE k # 0 /\ ~ (k <= n)
    <3>1. h[k - 1] = NULL /\ h[k] = NULL
      BY <1>1, <2>3
    <3> HIDE DEF h
    <3> QED
      BY <2>3, <3>1
  <2> QED
    BY <2>1, <2>2, <2>3
<1>4. Same(h)
  <2> DEFINE g == [k \in 0 .. N |->
                      IF k = 0 THEN t.firstChild[p]
                      ELSE IF h[k - 1] = NULL THEN NULL ELSE t.next[h[k - 1]]]
  <2>1. \A k \in 0 .. N : h[k] = g[k]
    BY <1>3
  <2>2. h = [k \in 0 .. N |-> h[k]] /\ g = [k \in 0 .. N |-> g[k]]
    OBVIOUS
  <2> HIDE DEF h, g
  <2>3. h = g
    BY <2>1, <2>2
  <2> QED
    BY <2>3 DEF g
<1>5. Same(chain)
  <2> HIDE DEF h, Same
  <2> QED
    BY <1>4
<1>6. \A k \in 0 .. N : chain[k] = IF k = 0 THEN t.firstChild[p]
                           ELSE IF chain[k - 1] = NULL THEN NULL ELSE t.next[chain[k - 1]]
  <2> HIDE DEF chain
  <2> QED
    BY <1>5
<1> HIDE DEF chain, Same
<1>7. \A k \in 0 .. N : chain[k] = h[k]
  <2> DEFINE T == {k \in Nat : k <= N => chain[k] = h[k]}
  <2>1. 0 \in T
    <3>1. 0 \in 0 .. N
      BY <1>1
    <3> HIDE DEF h
    <3>2. chain[0] = h[0]
      BY <1>3, <1>6, <3>1
    <3> QED
      BY <3>2
  <2>2. ASSUME NEW k \in Nat, k \in T PROVE k + 1 \in T
    <3> SUFFICES ASSUME k + 1 <= N PROVE chain[k + 1] = h[k + 1]
      OBVIOUS
    <3> DEFINE i == k + 1
    <3>1. i \in 0 .. N /\ i # 0 /\ i - 1 = k /\ k \in 0 .. N
      BY <1>1
    <3>2. chain[k] = h[k]
      BY <2>2, <3>1
    <3> HIDE DEF i, h
    <3>3. chain[i] = h[i]
      BY <1>3, <1>6, <3>1, <3>2
    <3> QED
      BY <3>3 DEF i
  <2> HIDE DEF T
  <2>3. \A k \in Nat : k \in T
    BY <2>1, <2>2, NatAll
  <2>4. \A k \in 0 .. N : k \in Nat /\ k <= N
    BY <1>1
  <2> HIDE DEF h
  <2> QED
    BY <2>3, <2>4 DEF T
<1>8. met = 0 .. n - 1
  <2>1. \A k \in 0 .. N : chain[k] # NULL <=> k < n
    <3> TAKE k \in 0 .. N
    <3>1. chain[k] = IF k < n THEN f[k + 1] ELSE NULL
      BY <1>7
    <3>2. k < n => k + 1 \in 1 .. n
      BY <1>1
    <3> QED
      BY <1>2, <3>1, <3>2
  <2> QED
    BY <1>1, <2>1
<1>9. Cardinality(met) = n
  <2>1. Cardinality(0 .. n - 1) = n
    BY <1>1, FS_Interval
  <2> QED
    BY <1>8, <2>1
<1>10. \A k \in 1 .. n : chain[k - 1] = f[k]
  <2> TAKE k \in 1 .. n
  <2>1. k - 1 \in 0 .. N /\ k - 1 < n /\ (k - 1) + 1 = k
    BY <1>1
  <2> QED
    BY <1>7, <2>1
<1>11. ChildrenOf(t, p) = [k \in 1 .. Cardinality(met) |-> chain[k - 1]]
  BY Zenon DEF ChildrenOf, met, chain, Same, N
<1> QED
  BY <1>a, <1>9, <1>10, <1>11

\* One node of all of them.
LEMMA KidsOf ==
    ASSUME NEW t, NEW F, AllKids(t, F), NEW p \in Nodes
    PROVE  F[p] \in Seq(Nodes) /\ IsKids(t, p, F[p])
BY DEF AllKids

\* The children of a node that is not in the copy are those it had.
LEMMA OldKids ==
    ASSUME NEW t, WellLinked(t), NEW x \in t.alive, NEW S, IsSubtree(t, x, S),
           NEW at, NEW c, Cloned(t, x, S, at, c), NEW New, New = {at[m] : m \in S},
           NEW p \in Nodes \ New, NEW f, IsKids(t, p, f)
    PROVE  IsKids(c, p, f)
<1> DEFINE n == Len(f)
<1>1. /\ f \in Seq(Nodes) /\ n \in Nat
      /\ \A i \in 1 .. n : f[i] \in Nodes /\ f[i] # NULL /\ t.parent[f[i]] = p
      /\ \A i, j \in 1 .. n : f[i] = f[j] => i = j
      /\ \A d \in Nodes : t.parent[d] = p => \E i \in 1 .. n : f[i] = d
      /\ n > 0 => t.firstChild[p] = f[1]
      /\ n = 0 => t.firstChild[p] = NULL
      /\ \A i \in 1 .. n : t.next[f[i]] = IF i = n THEN NULL ELSE f[i + 1]
  BY KidsParts
<1>2. /\ t.alive \subseteq Nodes /\ NULL \notin Nodes /\ S \subseteq t.alive /\ x \in S
      /\ \A d \in Nodes : t.parent[d] \in Nodes => d \in t.alive
      /\ \A d \in Nodes : t.parent[d] \in t.alive \cup {NULL}
  BY Fields, TreeAssumption DEF WellLinked, NoneDangling, IsSubtree
<1>3. /\ at \in [S -> Nodes \ t.alive]
      /\ \A d \in Nodes \ {at[m] : m \in S} :
             /\ c.parent[d] = t.parent[d]
             /\ c.firstChild[d] = t.firstChild[d] /\ c.next[d] = t.next[d]
      /\ \A m \in S, d \in Nodes : d = at[m] =>
             /\ m # x => c.parent[d] = There(at, S, t.parent[m])
             /\ m = x => c.parent[d] = NULL
  BY DEF Cloned
<1>4. New \cap t.alive = {}
  BY <1>3
<1>5. \A i \in 1 .. n : f[i] \in Nodes \ New
  BY <1>1, <1>2, <1>4
<1>6. \A i \in 1 .. n : c.parent[f[i]] = p /\ c.next[f[i]] = t.next[f[i]]
  BY <1>1, <1>3, <1>5
<1>7. ASSUME NEW d \in Nodes, c.parent[d] = p
      PROVE  \E i \in 1 .. n : f[i] = d
  <2>1. CASE d \notin New
    BY <1>1, <1>3, <1>7, <2>1
  <2>2. CASE d \in New
    <3>1. PICK m \in S : d = at[m]
      BY <2>2
    <3>2. c.parent[d] = NULL \/ c.parent[d] = There(at, S, t.parent[m])
      BY <1>3, <3>1
    <3>3. There(at, S, t.parent[m]) \in New \cup {NULL}
      BY DEF There
    <3> QED
      BY <1>2, <1>7, <3>2, <3>3
  <2> QED
    BY <2>1, <2>2
<1>8. c.firstChild[p] = t.firstChild[p]
  BY <1>3
<1> HIDE DEF n
<1>9. n = Len(f)
  BY DEF n
<1>10. \A i \in 1 .. n : c.next[f[i]] = IF i = n THEN NULL ELSE f[i + 1]
  BY <1>1, <1>6
<1>11. (n > 0 => c.firstChild[p] = f[1]) /\ (n = 0 => c.firstChild[p] = NULL)
  BY <1>1, <1>8
<1> QED
  BY <1>1, <1>6, <1>7, <1>9, <1>10, <1>11, KidsFrom

CopyOf(f, at, g) == g = [k \in 1 .. Len(f) |-> at[f[k]]]

\* The children of a copy are copies of the children, in their order.
LEMMA CopiedKids ==
    ASSUME NEW t, WellLinked(t), NEW x \in t.alive, NEW S, IsSubtree(t, x, S),
           NEW at, NEW c, Cloned(t, x, S, at, c), NEW m \in S, NEW f, IsKids(t, m, f),
           NEW g, CopyOf(f, at, g)
    PROVE  IsKids(c, at[m], g)
<1> DEFINE n == Len(f)
           p == at[m]
<1>1. /\ f \in Seq(Nodes) /\ n \in Nat
      /\ \A i \in 1 .. n : f[i] \in Nodes /\ f[i] # NULL /\ t.parent[f[i]] = m
      /\ \A i, j \in 1 .. n : f[i] = f[j] => i = j
      /\ \A d \in Nodes : t.parent[d] = m => \E i \in 1 .. n : f[i] = d
      /\ n > 0 => t.firstChild[m] = f[1]
      /\ n = 0 => t.firstChild[m] = NULL
      /\ \A i \in 1 .. n : t.next[f[i]] = IF i = n THEN NULL ELSE f[i + 1]
  BY KidsParts
<1>2. /\ t.alive \subseteq Nodes /\ NULL \notin Nodes /\ S \subseteq t.alive /\ x \in S
      /\ \A d \in Nodes : t.parent[d] \in S => d \in S
      /\ \A d \in S : d # x => t.parent[d] \in S
      /\ \A d \in Nodes : t.parent[d] \in t.alive \cup {NULL}
      /\ \A d \in Nodes : d \notin t.alive => t.parent[d] = NULL
  BY Fields, TreeAssumption DEF WellLinked, NoneDangling, IsSubtree
<1>3. t.parent[x] \notin S
  BY Boundary
<1>4. /\ at \in [S -> Nodes \ t.alive]
      /\ \A i, j \in S : at[i] = at[j] => i = j
      /\ \A d \in Nodes \ {at[i] : i \in S} : c.parent[d] = t.parent[d]
  BY DEF Cloned
<1>5. \A i \in S : /\ at[i] \in Nodes /\ at[i] \notin t.alive /\ at[i] # NULL
                   /\ c.firstChild[at[i]] = There(at, S, t.firstChild[i])
                   /\ i # x => /\ c.parent[at[i]] = There(at, S, t.parent[i])
                               /\ c.next[at[i]] = There(at, S, t.next[i])
                   /\ i = x => c.parent[at[i]] = NULL
  <2>1. \A i \in S : at[i] \in Nodes
    BY <1>4
  <2> QED
    BY <1>2, <1>4, <2>1 DEF Cloned
<1>6. There(at, S, NULL) = NULL /\ \A i \in S : There(at, S, i) = at[i]
  BY <1>2 DEF There
<1>7. \A i \in 1 .. n : f[i] \in S /\ f[i] # x
  BY <1>1, <1>2, <1>3
<1>8. g \in [1 .. n -> Nodes] /\ \A i \in 1 .. n : g[i] = at[f[i]]
  BY <1>5, <1>7 DEF CopyOf
<1>9. g \in Seq(Nodes) /\ Len(g) = n
  <2>1. n \in Nat /\ g \in [1 .. n -> Nodes]
    BY <1>1, <1>8
  <2> HIDE DEF n
  <2> QED
    BY <2>1, Enumerated
<1> HIDE DEF n, p
<1>10. \A i \in 1 .. n : c.parent[g[i]] = p
  <2> TAKE i \in 1 .. n
  <2>1. c.parent[at[f[i]]] = There(at, S, m)
    BY <1>1, <1>5, <1>7
  <2> QED
    BY <1>6, <1>8, <2>1 DEF p
<1>11. \A i, j \in 1 .. n : g[i] = g[j] => i = j
  BY <1>1, <1>4, <1>7, <1>8
<1>12. ASSUME NEW d \in Nodes, c.parent[d] = p
       PROVE  \E i \in 1 .. n : g[i] = d
  <2>1. p \in Nodes /\ p \notin t.alive /\ p # NULL
    BY <1>5 DEF p
  <2>2. CASE d \notin {at[i] : i \in S}
    BY <1>2, <1>4, <1>12, <2>1, <2>2
  <2>3. CASE d \in {at[i] : i \in S}
    <3>1. PICK j \in S : d = at[j]
      BY <2>3
    <3>2. j # x
      BY <1>5, <1>12, <2>1, <3>1
    <3>3. t.parent[j] \in S
      BY <1>2, <3>2
    <3>4. at[t.parent[j]] = at[m]
      BY <1>5, <1>6, <1>12, <3>1, <3>2, <3>3 DEF p
    <3>5. t.parent[j] = m
      BY <1>4, <3>3, <3>4
    <3>6. PICK i \in 1 .. n : f[i] = j
      BY <1>1, <1>2, <3>5
    <3> QED
      BY <1>8, <3>1, <3>6
  <2> QED
    BY <2>2, <2>3
<1>13. n > 0 => c.firstChild[p] = g[1]
  <2> SUFFICES ASSUME n > 0 PROVE c.firstChild[p] = g[1]
    OBVIOUS
  <2>1. 1 \in 1 .. n
    BY <1>1
  <2>2. c.firstChild[p] = There(at, S, f[1])
    BY <1>1, <1>5 DEF p
  <2> QED
    BY <1>6, <1>7, <1>8, <2>1, <2>2
<1>14. n = 0 => c.firstChild[p] = NULL
  BY <1>1, <1>5, <1>6 DEF p
<1>15. \A i \in 1 .. n : c.next[g[i]] = IF i = n THEN NULL ELSE g[i + 1]
  <2> TAKE i \in 1 .. n
  <2>1. c.next[g[i]] = There(at, S, t.next[f[i]])
    BY <1>5, <1>7, <1>8
  <2>2. CASE i = n
    BY <1>1, <1>6, <2>1, <2>2
  <2>3. CASE i # n
    <3>1. i + 1 \in 1 .. n
      BY <1>1, <2>3
    <3>2. t.next[f[i]] = f[i + 1]
      BY <1>1, <2>3
    <3>3. f[i + 1] \in S /\ g[i + 1] = at[f[i + 1]]
      BY <1>7, <1>8, <3>1
    <3> QED
      BY <1>6, <2>1, <2>3, <3>2, <3>3
  <2> QED
    BY <2>2, <2>3
<1>16. n = Len(g)
  BY <1>9 DEF n
<1>17. IsKids(c, p, g)
  BY <1>9, <1>10, <1>11, <1>12, <1>13, <1>14, <1>15, <1>16, KidsFrom
<1> QED
  BY <1>17 DEF p

\* Between a and b is the place of child number k.
Between(f, k, a, b) ==
    /\ k \in 1 .. Len(f) + 1
    /\ a = IF k = 1 THEN NULL ELSE f[k - 1]
    /\ b = IF k = Len(f) + 1 THEN NULL ELSE f[k]

\* The children of others stay what they were.
LEMMA InsertedOther ==
    ASSUME NEW t, NEW this, NEW a, NEW b, NEW node, t.parent[node] = NULL,
           NEW u, Inserted(t, this, a, b, node, u),
           a = NULL \/ t.parent[a] = this,
           NEW p \in Nodes, p # this, NEW f, IsKids(t, p, f)
    PROVE  IsKids(u, p, f)
<1> DEFINE n == Len(f)
<1>1. /\ f \in Seq(Nodes) /\ n \in Nat
      /\ \A i \in 1 .. n : f[i] \in Nodes /\ f[i] # NULL /\ t.parent[f[i]] = p
      /\ \A i, j \in 1 .. n : f[i] = f[j] => i = j
      /\ \A d \in Nodes : t.parent[d] = p => \E i \in 1 .. n : f[i] = d
      /\ n > 0 => t.firstChild[p] = f[1]
      /\ n = 0 => t.firstChild[p] = NULL
      /\ \A i \in 1 .. n : t.next[f[i]] = IF i = n THEN NULL ELSE f[i + 1]
  BY KidsParts
<1>2. \A d \in Nodes : /\ u.parent[d] = IF d = node THEN this ELSE t.parent[d]
                       /\ u.next[d] = IF d = node THEN b ELSE IF d = a THEN node ELSE t.next[d]
                       /\ d # this => u.firstChild[d] = t.firstChild[d]
  BY DEF Inserted
<1>3. p # NULL
  BY TreeAssumption
<1> HIDE DEF n
<1>4. \A i \in 1 .. n : u.parent[f[i]] = p /\ u.next[f[i]] = t.next[f[i]]
  BY <1>1, <1>2, <1>3
<1>5. \A d \in Nodes : u.parent[d] = p => \E i \in 1 .. n : f[i] = d
  BY <1>1, <1>2
<1>6. u.firstChild[p] = t.firstChild[p]
  BY <1>2
<1>7. n = Len(f)
  BY DEF n
<1>8. (n > 0 => u.firstChild[p] = f[1]) /\ (n = 0 => u.firstChild[p] = NULL)
  BY <1>1, <1>6
<1>9. \A i \in 1 .. n : u.next[f[i]] = IF i = n THEN NULL ELSE f[i + 1]
  BY <1>1, <1>4
<1>10. /\ f \in Seq(Nodes)
       /\ \A i \in 1 .. n : u.parent[f[i]] = p
       /\ \A i, j \in 1 .. n : f[i] = f[j] => i = j
  BY <1>1, <1>4
<1> QED
  BY <1>5, <1>7, <1>8, <1>9, <1>10, KidsFrom

\* The new child comes where it was asked for.
LEMMA InsertedThis ==
    ASSUME NEW t, NEW this \in Nodes, NEW a, NEW b, NEW node \in Nodes, t.parent[node] = NULL,
           NEW u, Inserted(t, this, a, b, node, u),
           NEW f, IsKids(t, this, f), NEW k, Between(f, k, a, b)
    PROVE  IsKids(u, this, InsertAt(f, k, node))
<1> DEFINE n == Len(f)
           g == InsertAt(f, k, node)
           m == n + 1
<1>1. /\ f \in Seq(Nodes) /\ n \in Nat
      /\ \A i \in 1 .. n : f[i] \in Nodes /\ f[i] # NULL /\ t.parent[f[i]] = this
      /\ \A i, j \in 1 .. n : f[i] = f[j] => i = j
      /\ \A d \in Nodes : t.parent[d] = this => \E i \in 1 .. n : f[i] = d
      /\ n > 0 => t.firstChild[this] = f[1]
      /\ n = 0 => t.firstChild[this] = NULL
      /\ \A i \in 1 .. n : t.next[f[i]] = IF i = n THEN NULL ELSE f[i + 1]
  BY KidsParts
<1>2. \A d \in Nodes : /\ u.parent[d] = IF d = node THEN this ELSE t.parent[d]
                       /\ u.next[d] = IF d = node THEN b ELSE IF d = a THEN node ELSE t.next[d]
                       /\ u.firstChild[d] = IF a = NULL /\ d = this THEN node ELSE t.firstChild[d]
  BY DEF Inserted
<1>3. this # NULL /\ NULL \notin Nodes
  BY TreeAssumption
<1>4. /\ k \in 1 .. m /\ a = (IF k = 1 THEN NULL ELSE f[k - 1]) /\ b = (IF k = m THEN NULL ELSE f[k])
  BY DEF Between
<1>5. \A i \in 1 .. n : f[i] # node
  BY <1>1, <1>3
<1>6. /\ g \in Seq(Nodes) /\ Len(g) = m
      /\ \A i \in 1 .. m : g[i] = IF i < k THEN f[i] ELSE IF i = k THEN node ELSE f[i - 1]
  BY <1>1, <1>4, InsertAtIs
<1> HIDE DEF n, g
<1>7. /\ m \in Nat /\ k \in Nat /\ k >= 1 /\ k <= n + 1 /\ m = n + 1
      /\ \A i \in 1 .. m : \/ i < k /\ i \in 1 .. n
                           \/ i = k
                           \/ i > k /\ i - 1 \in 1 .. n
  BY <1>1, <1>4
<1>8. \A i \in 1 .. m : \/ i < k /\ i \in 1 .. n /\ g[i] = f[i]
                        \/ i = k /\ g[i] = node
                        \/ i > k /\ i - 1 \in 1 .. n /\ g[i] = f[i - 1]
  <2> TAKE i \in 1 .. m
  <2>1. g[i] = IF i < k THEN f[i] ELSE IF i = k THEN node ELSE f[i - 1]
    BY <1>6
  <2> QED
    BY <1>7, <2>1
<1>9. \A i \in 1 .. m : u.parent[g[i]] = this
  <2> TAKE i \in 1 .. m
  <2>1. CASE g[i] = node
    BY <1>2, <2>1
  <2>2. CASE \E j \in 1 .. n : g[i] = f[j]
    BY <1>1, <1>2, <2>2
  <2> QED
    BY <1>8, <2>1, <2>2
<1>10. \A i, j \in 1 .. m : g[i] = g[j] => i = j
  <2> SUFFICES ASSUME NEW i \in 1 .. m, NEW j \in 1 .. m, g[i] = g[j] PROVE i = j
    OBVIOUS
  <2>1. \/ i < k /\ i \in 1 .. n /\ g[i] = f[i]
        \/ i = k /\ g[i] = node
        \/ i > k /\ i - 1 \in 1 .. n /\ g[i] = f[i - 1]
    BY <1>8
  <2>2. \/ j < k /\ j \in 1 .. n /\ g[j] = f[j]
        \/ j = k /\ g[j] = node
        \/ j > k /\ j - 1 \in 1 .. n /\ g[j] = f[j - 1]
    BY <1>8
  <2>3. CASE i = k
    BY <1>5, <1>7, <2>1, <2>2, <2>3
  <2>4. CASE j = k
    BY <1>5, <1>7, <2>1, <2>2, <2>4
  <2>5. CASE i < k /\ j < k
    BY <1>1, <1>7, <2>1, <2>2, <2>5
  <2>6. CASE i > k /\ j > k
    <3>1. i - 1 = j - 1
      BY <1>1, <1>7, <2>1, <2>2, <2>6
    <3> QED
      BY <3>1
  <2>7. CASE i < k /\ j > k
    <3>1. i = j - 1
      BY <1>1, <1>7, <2>1, <2>2, <2>7
    <3> QED
      BY <1>7, <2>7, <3>1
  <2>8. CASE i > k /\ j < k
    <3>1. i - 1 = j
      BY <1>1, <1>7, <2>1, <2>2, <2>8
    <3> QED
      BY <1>7, <2>8, <3>1
  <2> QED
    BY <1>7, <2>3, <2>4, <2>5, <2>6, <2>7, <2>8
<1>11. ASSUME NEW d \in Nodes, u.parent[d] = this
       PROVE  \E i \in 1 .. m : g[i] = d
  <2>1. CASE d = node
    <3>1. k \in 1 .. m /\ g[k] = node
      BY <1>4, <1>6, <1>7
    <3> QED
      BY <2>1, <3>1
  <2>2. CASE d # node
    <3>1. PICK j \in 1 .. n : f[j] = d
      BY <1>1, <1>2, <1>11, <2>2
    <3>2. CASE j < k
      <4>1. j \in 1 .. m
        BY <1>1
      <4> QED
        BY <1>6, <3>1, <3>2, <4>1
    <3>3. CASE ~ (j < k)
      <4> DEFINE i == j + 1
      <4>1. i \in 1 .. m /\ ~ (i < k) /\ i # k /\ i - 1 = j
        BY <1>1, <1>7, <3>3
      <4> HIDE DEF i
      <4> QED
        BY <1>6, <3>1, <4>1
    <3> QED
      BY <3>2, <3>3
  <2> QED
    BY <2>1, <2>2
<1>12. u.firstChild[this] = g[1] /\ 1 \in 1 .. m
  <2>1. 1 \in 1 .. m
    BY <1>7
  <2>2. CASE k = 1
    BY <1>2, <1>4, <1>6, <2>1, <2>2
  <2>3. CASE k # 1
    <3>1. 1 < k /\ 1 \in 1 .. n /\ k - 1 \in 1 .. n /\ n > 0
      BY <1>1, <1>7, <2>3
    <3>2. a # NULL /\ g[1] = f[1]
      BY <1>1, <1>4, <1>6, <2>1, <2>3, <3>1
    <3> QED
      BY <1>1, <1>2, <2>1, <3>1, <3>2
  <2> QED
    BY <2>1, <2>2, <2>3
<1>13. \A i \in 1 .. m : u.next[g[i]] = IF i = m THEN NULL ELSE g[i + 1]
  <2> TAKE i \in 1 .. m
  <2>0. \A j \in 1 .. m : g[j] = IF j < k THEN f[j] ELSE IF j = k THEN node ELSE f[j - 1]
    BY <1>6
  <2>1. CASE i = k
    <3>1. g[i] = node /\ u.next[node] = b
      BY <1>2, <2>0, <2>1
    <3>2. CASE k = m
      BY <1>4, <2>1, <3>1, <3>2
    <3>3. CASE k # m
      <4>1. i + 1 \in 1 .. m /\ ~ (i + 1 < k) /\ i + 1 # k /\ (i + 1) - 1 = k
        BY <1>7, <2>1, <3>3
      <4>2. g[i + 1] = f[k]
        BY <2>0, <4>1
      <4> QED
        BY <1>4, <2>1, <3>1, <3>3, <4>2
    <3> QED
      BY <3>2, <3>3
  <2>2. CASE i < k
    <3>1. i \in 1 .. n /\ i + 1 \in 1 .. m /\ i # m /\ g[i] = f[i] /\ i + 1 <= k
      BY <1>7, <1>8, <2>2
    <3>2. CASE i + 1 = k
      <4>1. k # 1 /\ k - 1 = i /\ a = f[i]
        BY <1>4, <1>7, <3>1, <3>2
      <4>2. u.next[f[i]] = node
        BY <1>1, <1>2, <1>5, <3>1, <4>1
      <4>3. g[i + 1] = node
        BY <2>0, <3>1, <3>2
      <4> QED
        BY <3>1, <4>2, <4>3
    <3>3. CASE i + 1 # k
      <4>1. i + 1 < k /\ i + 1 \in 1 .. n /\ i # n
        BY <1>7, <3>1, <3>3
      <4>2. f[i] # a
        <5>1. k # 1 /\ k - 1 \in 1 .. n /\ k - 1 # i
          BY <1>7, <3>1, <3>3, <4>1
        <5> QED
          BY <1>1, <1>4, <3>1, <5>1
      <4>3. u.next[f[i]] = t.next[f[i]]
        BY <1>1, <1>2, <1>5, <3>1, <4>2
      <4>4. g[i + 1] = f[i + 1]
        BY <2>0, <3>1, <4>1
      <4> QED
        BY <1>1, <3>1, <4>1, <4>3, <4>4
    <3> QED
      BY <3>2, <3>3
  <2>3. CASE i > k
    <3> DEFINE j == i - 1
    <3>0. i - 1 \in 1 .. n /\ g[i] = f[i - 1]
      BY <1>7, <1>8, <2>3
    <3>1. j \in 1 .. n /\ j + 1 = i /\ g[i] = f[j] /\ (i = m <=> j = n) /\ j >= k
      <4>1. n \in Int /\ m = n + 1 /\ k \in Int
        BY <1>1, <1>7
      <4>2. i \in Int /\ i > k
        BY <2>3
      <4> HIDE DEF m
      <4> QED
        BY <3>0, <4>1, <4>2
    <3>2. f[j] # a
      <4>1. CASE k = 1
        BY <1>1, <1>4, <3>1, <4>1
      <4>2. CASE k # 1
        <5>1. k - 1 \in 1 .. n /\ k - 1 # j
          BY <1>7, <2>3, <4>2
        <5> QED
          BY <1>1, <1>4, <3>1, <4>2, <5>1
      <4> QED
        BY <4>1, <4>2
    <3>3. i # m => g[i + 1] = f[i]
      <4> SUFFICES ASSUME i # m PROVE g[i + 1] = f[i]
        OBVIOUS
      <4>1. i + 1 \in 1 .. m /\ ~ (i + 1 < k) /\ i + 1 # k /\ (i + 1) - 1 = i
        BY <1>7, <2>3
      <4> QED
        BY <2>0, <4>1
    <3> HIDE DEF j
    <3>4. u.next[f[j]] = t.next[f[j]]
      BY <1>1, <1>2, <1>5, <3>1, <3>2
    <3> QED
      BY <1>1, <3>1, <3>3, <3>4
  <2> QED
    BY <1>7, <2>1, <2>2, <2>3
<1>14. m = Len(g) /\ m # 0 /\ g \in Seq(Nodes)
  BY <1>6, <1>7
<1> HIDE DEF m
<1>15. IsKids(u, this, g)
  BY <1>9, <1>10, <1>11, <1>12, <1>13, <1>14, KidsFrom
<1> QED
  BY <1>15 DEF g

\* Where the pointers of the children are the same, so are the children.
LEMMA SameKids ==
    ASSUME NEW t, NEW d, NEW p \in Nodes, NEW f, IsKids(t, p, f), d.firstChild[p] = t.firstChild[p],
           \A c \in Nodes : t.parent[c] = p => d.parent[c] = p /\ d.next[c] = t.next[c],
           \A c \in Nodes : d.parent[c] = p => t.parent[c] = p
    PROVE  IsKids(d, p, f)
<1> DEFINE n == Len(f)
<1>1. /\ f \in Seq(Nodes) /\ n \in Nat
      /\ \A i \in 1 .. n : f[i] \in Nodes /\ f[i] # NULL /\ t.parent[f[i]] = p
      /\ \A i, j \in 1 .. n : f[i] = f[j] => i = j
      /\ \A c \in Nodes : t.parent[c] = p => \E i \in 1 .. n : f[i] = c
      /\ n > 0 => t.firstChild[p] = f[1]
      /\ n = 0 => t.firstChild[p] = NULL
      /\ \A i \in 1 .. n : t.next[f[i]] = IF i = n THEN NULL ELSE f[i + 1]
  BY KidsParts
<1> HIDE DEF n
<1>2. \A i \in 1 .. n : d.parent[f[i]] = p
  BY <1>1
<1>3. \A c \in Nodes : d.parent[c] = p => \E i \in 1 .. n : f[i] = c
  BY <1>1
<1>4. (n > 0 => d.firstChild[p] = f[1]) /\ (n = 0 => d.firstChild[p] = NULL)
  BY <1>1
<1>5. \A i \in 1 .. n : d.next[f[i]] = IF i = n THEN NULL ELSE f[i + 1]
  BY <1>1
<1>6. n = Len(f)
  BY DEF n
<1> QED
  BY <1>1, <1>2, <1>3, <1>4, <1>5, <1>6, KidsFrom

\* A node nothing points to has no children.
LEMMA NoKids ==
    ASSUME NEW d, NEW p \in Nodes, d.firstChild[p] = NULL, \A c \in Nodes : d.parent[c] # p
    PROVE  IsKids(d, p, <<>>)
<1>1. <<>> \in Seq(Nodes) /\ Len(<<>>) = 0 /\ 1 .. 0 = {}
  BY EmptySeq
<1>2. OrNull(<<>>, 1) = NULL
  BY <1>1 DEF OrNull
<1> QED
  BY <1>1, <1>2 DEF IsKids

\* A child goes.
Without(t, this, f, i, old, d) ==
    /\ \A c \in Nodes : d.parent[c] = this <=> t.parent[c] = this /\ c # old
    /\ d.firstChild[this] = IF i = 1 THEN t.next[old] ELSE t.firstChild[this]
    /\ \A j \in 1 .. Len(f) : j # i =>
           d.next[f[j]] = IF j = i - 1 THEN t.next[old] ELSE t.next[f[j]]

\* Then the children are those before without it.
LEMMA RemovedThis ==
    ASSUME NEW t, NEW this \in Nodes, NEW f, IsKids(t, this, f), NEW i \in 1 .. Len(f), NEW old, old = f[i],
           NEW d, Without(t, this, f, i, old, d)
    PROVE  IsKids(d, this, RemoveAt(f, i))
<1>0. /\ \A c \in Nodes : d.parent[c] = this <=> t.parent[c] = this /\ c # old
      /\ d.firstChild[this] = IF i = 1 THEN t.next[old] ELSE t.firstChild[this]
      /\ \A j \in 1 .. Len(f) : j # i =>
             d.next[f[j]] = IF j = i - 1 THEN t.next[old] ELSE t.next[f[j]]
  BY DEF Without
<1> USE <1>0
<1> DEFINE n == Len(f)
           g == RemoveAt(f, i)
           m == n - 1
<1>1. /\ f \in Seq(Nodes) /\ n \in Nat
      /\ \A j \in 1 .. n : f[j] \in Nodes /\ f[j] # NULL /\ t.parent[f[j]] = this
      /\ \A j, k \in 1 .. n : f[j] = f[k] => j = k
      /\ \A c \in Nodes : t.parent[c] = this => \E j \in 1 .. n : f[j] = c
      /\ n > 0 => t.firstChild[this] = f[1]
      /\ n = 0 => t.firstChild[this] = NULL
      /\ \A j \in 1 .. n : t.next[f[j]] = IF j = n THEN NULL ELSE f[j + 1]
  BY KidsParts
<1>2. /\ g \in Seq(Nodes) /\ Len(g) = m
      /\ \A j \in 1 .. m : g[j] = IF j < i THEN f[j] ELSE f[j + 1]
  BY <1>1, RemoveAtIs
<1>3. i \in 1 .. n /\ \A j \in 1 .. n : j # i =>
          d.next[f[j]] = IF j = i - 1 THEN t.next[old] ELSE t.next[f[j]]
  OBVIOUS
<1> HIDE DEF n, g
<1>4. /\ i \in Int /\ i >= 1 /\ i <= n /\ n \in Int /\ m = n - 1 /\ m \in Nat
  BY <1>1, <1>3
<1>5. \A j \in 1 .. m : Was(i, j) \in 1 .. n /\ Was(i, j) # i /\ g[j] = f[Was(i, j)]
  <2> TAKE j \in 1 .. m
  <2>1. j \in 1 .. n /\ j + 1 \in 1 .. n
    BY <1>4
  <2>2. g[j] = IF j < i THEN f[j] ELSE f[j + 1]
    BY <1>2
  <2> QED
    BY <1>4, <2>1, <2>2 DEF Was
<1>6. \A j, k \in 1 .. m : Was(i, j) = Was(i, k) => j = k
  BY <1>4 DEF Was
<1>7. \A j \in 1 .. m : d.parent[g[j]] = this
  <2> TAKE j \in 1 .. m
  <2> DEFINE k == Was(i, j)
  <2>1. k \in 1 .. n /\ k # i /\ g[j] = f[k]
    BY <1>5
  <2> HIDE DEF k
  <2>2. f[k] \in Nodes /\ t.parent[f[k]] = this /\ f[k] # old
    BY <1>1, <1>3, <2>1
  <2> QED
    BY <2>1, <2>2
<1>8. \A j, k \in 1 .. m : g[j] = g[k] => j = k
  <2> SUFFICES ASSUME NEW j \in 1 .. m, NEW k \in 1 .. m, g[j] = g[k] PROVE j = k
    OBVIOUS
  <2>1. Was(i, j) = Was(i, k)
    <3> DEFINE a == Was(i, j)
               b == Was(i, k)
    <3>1. a \in 1 .. n /\ b \in 1 .. n /\ f[a] = f[b]
      BY <1>5
    <3> HIDE DEF a, b
    <3>2. a = b
      BY <1>1, <3>1
    <3> QED
      BY <3>2 DEF a, b
  <2> QED
    BY <1>6, <2>1
<1>9. ASSUME NEW c \in Nodes, d.parent[c] = this
      PROVE  \E j \in 1 .. m : g[j] = c
  <2>1. PICK k \in 1 .. n : f[k] = c
    BY <1>1, <1>9
  <2>2. k # i
    BY <1>9, <2>1
  <2> DEFINE j == IF k < i THEN k ELSE k - 1
  <2>3. j \in 1 .. m /\ Was(i, j) = k
    <3>1. k \in Int /\ k >= 1 /\ k <= n
      BY <1>1
    <3> QED
      BY <1>4, <2>2, <3>1 DEF Was
  <2> HIDE DEF j
  <2> QED
    BY <1>5, <2>1, <2>3
<1>10. m > 0 => d.firstChild[this] = g[1]
  <2> SUFFICES ASSUME m > 0 PROVE d.firstChild[this] = g[1]
    OBVIOUS
  <2>1. 1 \in 1 .. m /\ 1 \in 1 .. n /\ n > 0 /\ n # 1
    BY <1>4
  <2>2. CASE i = 1
    <3>1. g[1] = f[2]
      BY <1>5, <2>1, <2>2 DEF Was
    <3>2. t.next[f[1]] = f[2]
      BY <1>1, <2>1
    <3> QED
      BY <2>2, <3>1, <3>2
  <2>3. CASE i # 1
    <3>1. Was(i, 1) = 1
      BY <1>4, <2>3 DEF Was
    <3> QED
      BY <1>1, <1>5, <2>1, <2>3, <3>1
  <2> QED
    BY <2>2, <2>3
<1>11. m = 0 => d.firstChild[this] = NULL
  <2> SUFFICES ASSUME m = 0 PROVE d.firstChild[this] = NULL
    OBVIOUS
  <2>1. i = 1 /\ n = 1
    BY <1>4
  <2> QED
    BY <1>1, <1>3, <2>1
<1>12. \A j \in 1 .. m : d.next[g[j]] = IF j = m THEN NULL ELSE g[j + 1]
  <2> TAKE j \in 1 .. m
  <2> DEFINE k == Was(i, j)
  <2>1. k \in 1 .. n /\ k # i /\ g[j] = f[k]
    BY <1>5
  <2>2. j \in Int /\ j >= 1 /\ j <= m /\ (j # m => j + 1 \in 1 .. m)
    BY <1>4
  <2>3. d.next[f[k]] = IF k = i - 1 THEN t.next[old] ELSE t.next[f[k]]
    BY <1>3, <2>1
  <2>4. j # m => g[j + 1] = f[Was(i, j + 1)]
    BY <1>5, <2>2
  <2>5. CASE k = i - 1
    <3>1. j = i - 1 /\ Was(i, j + 1) = i + 1 /\ (j = m <=> i = n)
      <4>1. k = IF j < i THEN j ELSE j + 1
        BY DEF Was
      <4> HIDE DEF k
      <4>2. j = i - 1
        BY <1>4, <2>2, <2>5, <4>1
      <4> QED
        BY <1>4, <4>2 DEF Was
    <3>2. t.next[old] = IF i = n THEN NULL ELSE f[i + 1]
      BY <1>1, <1>3
    <3> HIDE DEF k
    <3> QED
      BY <2>1, <2>3, <2>4, <2>5, <3>1, <3>2
  <2>6. CASE k # i - 1
    <3>1. Was(i, j + 1) = k + 1 /\ (j = m <=> k = n)
      <4>1. k = IF j < i THEN j ELSE j + 1
        BY DEF Was
      <4> HIDE DEF k
      <4>2. Was(i, j + 1) = k + 1
        BY <1>4, <2>2, <2>6, <4>1 DEF Was
      <4>3. j = m <=> k = n
        BY <1>4, <2>1, <2>2, <2>6, <4>1
      <4> QED
        BY <4>2, <4>3
    <3>2. t.next[f[k]] = IF k = n THEN NULL ELSE f[k + 1]
      BY <1>1, <2>1
    <3> HIDE DEF k
    <3> QED
      BY <2>1, <2>3, <2>4, <2>6, <3>1, <3>2
  <2> QED
    BY <2>5, <2>6
<1>13. m = Len(g) /\ g \in Seq(Nodes)
  BY <1>2
<1> HIDE DEF m
<1>14. IsKids(d, this, g)
  BY <1>7, <1>8, <1>9, <1>10, <1>11, <1>12, <1>13, KidsFrom
<1> QED
  BY <1>14 DEF g

\* A child takes the place of another one.
InPlace(t, this, f, i, old, node, d) ==
    /\ \A c \in Nodes : d.parent[c] = this <=> c = node \/ (t.parent[c] = this /\ c # old)
    /\ d.firstChild[this] = IF i = 1 THEN node ELSE t.firstChild[this]
    /\ d.next[node] = t.next[old]
    /\ \A j \in 1 .. Len(f) : j # i =>
           d.next[f[j]] = IF j = i - 1 THEN node ELSE t.next[f[j]]

\* Then the children are those before, with it in the place of the old one.
LEMMA ReplacedThis ==
    ASSUME NEW t, NEW this \in Nodes, NEW f, IsKids(t, this, f), NEW i \in 1 .. Len(f), NEW old, old = f[i],
           NEW node \in Nodes, t.parent[node] # this,
           NEW d, InPlace(t, this, f, i, old, node, d)
    PROVE  IsKids(d, this, [f EXCEPT ![i] = node])
<1>0. /\ \A c \in Nodes : d.parent[c] = this <=> c = node \/ (t.parent[c] = this /\ c # old)
      /\ d.firstChild[this] = IF i = 1 THEN node ELSE t.firstChild[this]
      /\ d.next[node] = t.next[old]
      /\ \A j \in 1 .. Len(f) : j # i =>
             d.next[f[j]] = IF j = i - 1 THEN node ELSE t.next[f[j]]
  BY DEF InPlace
<1> USE <1>0
<1> DEFINE n == Len(f)
           g == [f EXCEPT ![i] = node]
<1>1. /\ f \in Seq(Nodes) /\ n \in Nat
      /\ \A j \in 1 .. n : f[j] \in Nodes /\ f[j] # NULL /\ t.parent[f[j]] = this
      /\ \A j, k \in 1 .. n : f[j] = f[k] => j = k
      /\ \A c \in Nodes : t.parent[c] = this => \E j \in 1 .. n : f[j] = c
      /\ n > 0 => t.firstChild[this] = f[1]
      /\ n = 0 => t.firstChild[this] = NULL
      /\ \A j \in 1 .. n : t.next[f[j]] = IF j = n THEN NULL ELSE f[j + 1]
  BY KidsParts
<1>2. /\ g \in Seq(Nodes) /\ Len(g) = n
      /\ \A j \in 1 .. n : g[j] = IF j = i THEN node ELSE f[j]
  BY <1>1
<1>3. i \in 1 .. n /\ \A j \in 1 .. n : j # i =>
          d.next[f[j]] = IF j = i - 1 THEN node ELSE t.next[f[j]]
  OBVIOUS
<1> HIDE DEF n, g
<1>4. \A j \in 1 .. n : f[j] # node
  BY <1>1
<1>5. \A j \in 1 .. n : d.parent[g[j]] = this
  <2> TAKE j \in 1 .. n
  <2>1. CASE j = i
    <3>1. g[j] = node
      BY <1>2, <2>1
    <3>2. d.parent[node] = this
      OBVIOUS
    <3> QED
      BY <3>1, <3>2
  <2>2. CASE j # i
    <3>1. f[j] \in Nodes /\ t.parent[f[j]] = this /\ f[j] # old
      BY <1>1, <1>3, <2>2
    <3> QED
      BY <1>2, <2>2, <3>1
  <2> QED
    BY <2>1, <2>2
<1>6. \A j, k \in 1 .. n : g[j] = g[k] => j = k
  BY <1>1, <1>2, <1>4
<1>7. ASSUME NEW c \in Nodes, d.parent[c] = this
      PROVE  \E j \in 1 .. n : g[j] = c
  <2>1. CASE c = node
    BY <1>2, <1>3, <2>1
  <2>2. CASE c # node
    <3>1. PICK j \in 1 .. n : f[j] = c
      BY <1>1, <1>7, <2>2
    <3>2. j # i
      BY <1>7, <2>2, <3>1
    <3> QED
      BY <1>2, <3>1, <3>2
  <2> QED
    BY <2>1, <2>2
<1>8. n > 0 /\ 1 \in 1 .. n
  BY <1>1, <1>3
<1>9. d.firstChild[this] = g[1]
  BY <1>1, <1>2, <1>8
<1>10. \A j \in 1 .. n : d.next[g[j]] = IF j = n THEN NULL ELSE g[j + 1]
  <2> TAKE j \in 1 .. n
  <2>1. j # n => j + 1 \in 1 .. n
    BY <1>1
  <2>2. CASE j = i
    <3>1. g[j] = node /\ d.next[node] = IF i = n THEN NULL ELSE f[i + 1]
      BY <1>1, <1>2, <1>3, <2>2
    <3>2. j # n => g[j + 1] = f[j + 1]
      <4>1. j + 1 # i
        BY <2>2
      <4> QED
        BY <1>2, <2>1, <4>1
    <3> QED
      BY <2>2, <3>1, <3>2
  <2>3. CASE j # i /\ j = i - 1
    <3>1. j + 1 = i /\ j # n
      BY <1>1, <1>3, <2>3
    <3>2. g[j] = f[j] /\ d.next[f[j]] = node /\ g[j + 1] = node
      BY <1>2, <1>3, <2>1, <2>3, <3>1
    <3> QED
      BY <3>1, <3>2
  <2>4. CASE j # i /\ j # i - 1
    <3>1. j + 1 # i
      BY <1>3, <2>4
    <3>2. g[j] = f[j] /\ d.next[f[j]] = t.next[f[j]]
      BY <1>2, <1>3, <2>4
    <3>3. j # n => g[j + 1] = f[j + 1]
      BY <1>2, <2>1, <3>1
    <3> QED
      BY <1>1, <3>2, <3>3
  <2> QED
    BY <2>2, <2>3, <2>4
<1>11. n = Len(g) /\ n # 0 /\ g \in Seq(Nodes)
  BY <1>1, <1>2, <1>8
<1>12. IsKids(d, this, g)
  BY <1>5, <1>6, <1>7, <1>9, <1>10, <1>11, KidsFrom
<1> QED
  BY <1>12 DEF g

\* The pointers back, and to the last child, are those of the same sequence.
LEMMA EndsOf ==
    ASSUME NEW t, WellLinked(t), NEW p \in Nodes, NEW f, IsKids(t, p, f)
    PROVE  /\ t.lastChild[p] = IF Len(f) = 0 THEN NULL ELSE f[Len(f)]
           /\ \A i \in 1 .. Len(f) : t.prev[f[i]] = IF i = 1 THEN NULL ELSE f[i - 1]
<1> DEFINE n == Len(f)
<1>1. /\ f \in Seq(Nodes) /\ n \in Nat
      /\ \A i \in 1 .. n : f[i] \in Nodes /\ f[i] # NULL /\ t.parent[f[i]] = p
      /\ \A i, j \in 1 .. n : f[i] = f[j] => i = j
      /\ \A c \in Nodes : t.parent[c] = p => \E i \in 1 .. n : f[i] = c
      /\ n > 0 => t.firstChild[p] = f[1]
      /\ n = 0 => t.firstChild[p] = NULL
      /\ \A i \in 1 .. n : t.next[f[i]] = IF i = n THEN NULL ELSE f[i + 1]
  BY KidsParts
<1>2. \A q, c \in Nodes : /\ t.firstChild[q] = c <=> t.parent[c] = q /\ t.prev[c] = NULL
                          /\ t.lastChild[q] = c <=> t.parent[c] = q /\ t.next[c] = NULL
  BY DEF WellLinked, EndsAgree
<1>3. \A m, c \in Nodes : t.next[m] = c <=> t.prev[c] = m
  BY DEF WellLinked, NeighboursAgree
<1>4. t.lastChild[p] \in Nodes \cup {NULL}
  BY Fields DEF WellLinked, Pointers
<1> HIDE DEF n
<1>5. t.lastChild[p] = IF n = 0 THEN NULL ELSE f[n]
  <2>1. CASE n = 0
    <3>1. \A c \in Nodes : t.parent[c] # p
      BY <1>1, <2>1
    <3> QED
      BY <1>2, <1>4, <2>1, <3>1
  <2>2. CASE n # 0
    <3>1. n \in 1 .. n
      BY <1>1, <2>2
    <3>2. f[n] \in Nodes /\ t.parent[f[n]] = p /\ t.next[f[n]] = NULL
      BY <1>1, <3>1
    <3> QED
      BY <1>2, <2>2, <3>2
  <2> QED
    BY <2>1, <2>2
<1>6. \A i \in 1 .. n : t.prev[f[i]] = IF i = 1 THEN NULL ELSE f[i - 1]
  <2> TAKE i \in 1 .. n
  <2>1. CASE i = 1
    <3>1. t.firstChild[p] = f[i] /\ f[i] \in Nodes
      BY <1>1, <2>1
    <3> QED
      BY <1>2, <2>1, <3>1
  <2>2. CASE i # 1
    <3> DEFINE j == i - 1
    <3>1. j \in 1 .. n /\ j # n /\ j + 1 = i
      BY <1>1, <2>2
    <3> HIDE DEF j
    <3>2. t.next[f[j]] = f[i] /\ f[i] \in Nodes /\ f[j] \in Nodes
      BY <1>1, <3>1
    <3>3. t.prev[f[i]] = f[j]
      BY <1>3, <3>2
    <3> QED
      BY <2>2, <3>3 DEF j
  <2> QED
    BY <2>1, <2>2
<1> QED
  BY <1>5, <1>6 DEF n

\* The children of all nodes, with one in its place.
LEMMA InsertKids ==
    ASSUME NEW c, NEW G, AllKids(c, G), NEW this \in Nodes, NEW node \in Nodes, c.parent[node] = NULL,
           NEW a, NEW b, NEW u, Inserted(c, this, a, b, node, u), NEW k, Between(G[this], k, a, b)
    PROVE  AllKids(u, [G EXCEPT ![this] = InsertAt(G[this], k, node)])
<1> DEFINE f == G[this]
           g == InsertAt(f, k, node)
           H == [G EXCEPT ![this] = g]
<1>1. G \in [Nodes -> Seq(Nodes)] /\ \A p \in Nodes : IsKids(c, p, G[p])
  BY DEF AllKids
<1>2. IsKids(c, this, f) /\ Between(f, k, a, b)
  BY <1>1
<1> HIDE DEF f
<1>3. IsKids(u, this, g)
  BY <1>2, InsertedThis
<1>4. a = NULL \/ c.parent[a] = this
  <2> DEFINE n == Len(f)
  <2>1. n \in Nat /\ \A i \in 1 .. n : c.parent[f[i]] = this
    BY <1>2, KidsParts
  <2>2. k \in 1 .. n + 1 /\ a = IF k = 1 THEN NULL ELSE f[k - 1]
    BY <1>2 DEF Between
  <2> HIDE DEF n
  <2>3. k # 1 => k - 1 \in 1 .. n
    BY <2>1, <2>2
  <2> QED
    BY <2>1, <2>2, <2>3
<1>5. \A p \in Nodes : p # this => IsKids(u, p, G[p])
  BY <1>1, <1>4, InsertedOther
<1> HIDE DEF g
<1>6. g \in Seq(Nodes)
  BY <1>3 DEF IsKids
<1>7. H \in [Nodes -> Seq(Nodes)] /\ \A p \in Nodes : H[p] = IF p = this THEN g ELSE G[p]
  BY <1>1, <1>6
<1> HIDE DEF H
<1>8. AllKids(u, H)
  BY <1>3, <1>5, <1>7 DEF AllKids
<1> QED
  BY <1>8 DEF H, g, f
-----------------------------------------------------------------------------
\* What Copied of XmlChildren makes of the children F.
CopiedTo(F, at, gone) ==
    [n \in Nodes |->
        IF n \in gone THEN <<>>
        ELSE IF \E m \in DOMAIN at : at[m] = n
        THEN LET old == F[CHOOSE m \in DOMAIN at : at[m] = n]
             IN  [k \in DOMAIN old |-> at[old[k]]]
        ELSE F[n]]

\* G are the children F, with those of the places of S copied, and those of gone none.
AreCopied(F, S, at, gone, G) ==
    /\ \A n \in Nodes : n \in gone => G[n] = <<>>
    /\ \A m \in S : at[m] \notin gone => CopyOf(F[m], at, G[at[m]])
    /\ \A n \in Nodes : n \notin gone /\ n \notin {at[m] : m \in S} => G[n] = F[n]

\* The children of a copy are the copies of the children; other nodes keep theirs.
LEMMA CopiedToIs ==
    ASSUME NEW F \in [Nodes -> Seq(Nodes)], NEW S \in SUBSET Nodes, NEW at \in [S -> Nodes],
           \A m, n \in S : at[m] = at[n] => m = n, NEW gone
    PROVE  AreCopied(F, S, at, gone, CopiedTo(F, at, gone))
<1>1. DOMAIN at = S
  OBVIOUS
<1>2. \A n \in Nodes : n \in gone => CopiedTo(F, at, gone)[n] = <<>>
  BY DEF CopiedTo
<1>3. \A n \in Nodes : n \notin gone /\ n \notin {at[m] : m \in S} =>
         CopiedTo(F, at, gone)[n] = F[n]
  BY <1>1 DEF CopiedTo
<1>4. ASSUME NEW m \in S, at[m] \notin gone
      PROVE  CopyOf(F[m], at, CopiedTo(F, at, gone)[at[m]])
  <2> DEFINE n == at[m]
             old == F[CHOOSE i \in DOMAIN at : at[i] = n]
  <2>1. n \in Nodes /\ n \notin gone /\ \E i \in DOMAIN at : at[i] = n
    BY <1>1, <1>4
  <2>2. CopiedTo(F, at, gone)[n] = [k \in DOMAIN old |-> at[old[k]]]
    BY <2>1 DEF CopiedTo
  <2>3. (CHOOSE i \in DOMAIN at : at[i] = n) = m
    BY <1>1
  <2>4. old = F[m]
    BY <2>3
  <2>5. DOMAIN F[m] = 1 .. Len(F[m])
    BY <1>1
  <2> QED
    BY <2>2, <2>4, <2>5 DEF CopyOf
<1> QED
  BY <1>2, <1>3, <1>4 DEF AreCopied

\* The children after Clone.
LEMMA CloneKids ==
    ASSUME NEW t, WellLinked(t), NEW F, AllKids(t, F), NEW x \in t.alive, NEW at \in Places(t, x),
           NEW c, c = Clone(t, x, at)
    PROVE  AllKids(c, CopiedTo(F, at, {}))
<1> DEFINE S == Subtree(t, x)
           G == CopiedTo(F, at, {})
           New == {at[m] : m \in S}
<1>1. t \in Tree /\ x \in Nodes /\ IsSubtree(t, x, S) /\ x \in S /\ S \subseteq Nodes
  BY Fields, SubtreeIs DEF WellLinked, IsSubtree
<1>2. Cloned(t, x, S, at, c)
  BY <1>1, CloneFields
<1> HIDE DEF S
<1>3. at \in [S -> Nodes] /\ \A m, n \in S : at[m] = at[n] => m = n
  BY <1>2 DEF Cloned
<1>4. F \in [Nodes -> Seq(Nodes)] /\ \A p \in Nodes : IsKids(t, p, F[p])
  BY DEF AllKids
<1>5. /\ \A m \in S : CopyOf(F[m], at, G[at[m]])
      /\ \A n \in Nodes : n \notin New => G[n] = F[n]
  <2>1. AreCopied(F, S, at, {}, CopiedTo(F, at, {}))
    BY <1>1, <1>3, <1>4, CopiedToIs
  <2> QED
    BY <2>1 DEF AreCopied
<1>6. G = [n \in Nodes |-> G[n]]
  BY DEF CopiedTo
<1> HIDE DEF G
<1>7. ASSUME NEW p \in Nodes PROVE IsKids(c, p, G[p])
  <2>1. CASE p \in New
    <3>1. PICK m \in S : p = at[m]
      BY <2>1
    <3>2. IsKids(t, m, F[m]) /\ CopyOf(F[m], at, G[p])
      BY <1>1, <1>4, <1>5, <3>1
    <3> QED
      BY <1>1, <1>2, <3>1, <3>2, CopiedKids
  <2>2. CASE p \notin New
    <3>1. IsKids(t, p, F[p]) /\ G[p] = F[p]
      BY <1>4, <1>5, <2>2
    <3>2. New = {at[m] : m \in S}
      OBVIOUS
    <3> HIDE DEF New
    <3> QED
      BY <1>1, <1>2, <2>2, <3>1, <3>2, OldKids
  <2> QED
    BY <2>1, <2>2
<1>8. \A p \in Nodes : G[p] \in Seq(Nodes)
  BY <1>7 DEF IsKids
<1>9. AllKids(c, G)
  BY <1>6, <1>7, <1>8 DEF AllKids
<1> QED
  BY <1>9 DEF G

\* G gives each node something.
OfNodes(G) == G = [n \in Nodes |-> G[n]]

\* The children of all nodes are those of this and those of the others.
LEMMA KidsBut ==
    ASSUME NEW d, NEW G, OfNodes(G), NEW this \in Nodes, NEW g, IsKids(d, this, g),
           \A p \in Nodes : p # this => IsKids(d, p, G[p])
    PROVE  AllKids(d, [G EXCEPT ![this] = g])
<1> DEFINE H == [G EXCEPT ![this] = g]
<1>1. H = [n \in Nodes |-> H[n]] /\ \A p \in Nodes : H[p] = IF p = this THEN g ELSE G[p]
  BY DEF OfNodes
<1> HIDE DEF H
<1>2. \A p \in Nodes : IsKids(d, p, H[p])
  BY <1>1
<1>3. \A p \in Nodes : H[p] \in Seq(Nodes)
  BY <1>2 DEF IsKids
<1>4. AllKids(d, H)
  BY <1>1, <1>2, <1>3 DEF AllKids
<1> QED
  BY <1>4 DEF H

\* RemoveChild takes one out of the children of this; what is below it has none any more.
LEMMA RemovedKids ==
    ASSUME NEW t, WellLinked(t), NEW this \in t.alive, NEW old \in t.alive, t.parent[old] = this,
           NEW S, IsSubtree(t, old, S), NEW f, IsKids(t, this, f), NEW i \in 1 .. Len(f), f[i] = old,
           NEW d, d = Delete(Unlink(t, this, old), S)
    PROVE  /\ IsKids(d, this, RemoveAt(f, i)) /\ this \notin S
           /\ \A p \in Nodes : p \in S => IsKids(d, p, <<>>)
           /\ \A p \in Nodes : \A g : p # this /\ p \notin S /\ IsKids(t, p, g) => IsKids(d, p, g)
<1> DEFINE u == Unlink(t, this, old)
           n == Len(f)
<1>1. t \in Tree /\ this \in Nodes /\ old \in Nodes /\ NULL \notin Nodes
  BY Fields, TreeAssumption DEF WellLinked
<1>2. Unlinked(t, this, old, u)
  BY <1>1, UnlinkFields
<1> HIDE DEF u
<1>3. u \in Tree /\ d = Delete(u, S)
  BY <1>2 DEF Unlinked, u
<1>4. \A c \in Nodes : /\ d.parent[c] = IF c \in S THEN NULL ELSE u.parent[c]
                       /\ d.firstChild[c] = IF c \in S THEN NULL ELSE u.firstChild[c]
                       /\ d.next[c] = IF c \in S THEN NULL ELSE u.next[c]
  BY <1>3, DeleteFields
<1>5. \A c \in Nodes : /\ u.parent[c] = t.parent[c]
                       /\ u.next[c] = IF c = t.prev[old] THEN t.next[old] ELSE t.next[c]
                       /\ u.firstChild[c] = IF t.prev[old] = NULL /\ c = this
                                            THEN t.next[old] ELSE t.firstChild[c]
  BY <1>2 DEF Unlinked
<1>6. /\ this \notin S /\ old \in S
      /\ \A c \in Nodes : t.parent[c] \in S => c \in S
      /\ \A c \in S : c # old => t.parent[c] \in S
  BY Boundary DEF IsSubtree
<1>7. \A c \in Nodes : c \in S /\ c # old => t.parent[c] # this
  BY <1>6
<1>8. \A m, c \in Nodes : /\ t.next[m] = c <=> t.prev[c] = m
                          /\ t.next[m] = c => t.parent[m] = t.parent[c]
  BY DEF WellLinked, NeighboursAgree
<1>9. /\ n \in Nat /\ \A j \in 1 .. n : f[j] \in Nodes /\ t.parent[f[j]] = this
      /\ \A j, k \in 1 .. n : f[j] = f[k] => j = k
  BY KidsParts
<1>10. t.prev[old] = IF i = 1 THEN NULL ELSE f[i - 1]
  BY <1>1, EndsOf
<1>11. IsKids(d, this, RemoveAt(f, i))
  <2>1. \A c \in Nodes : d.parent[c] = this <=> t.parent[c] = this /\ c # old
    BY <1>1, <1>4, <1>5, <1>6, <1>7
  <2> HIDE DEF n
  <2>2. i # 1 => i - 1 \in 1 .. n
    BY <1>9 DEF n
  <2>3. d.firstChild[this] = IF i = 1 THEN t.next[old] ELSE t.firstChild[this]
    <3>1. d.firstChild[this] = IF t.prev[old] = NULL THEN t.next[old] ELSE t.firstChild[this]
      BY <1>1, <1>4, <1>5, <1>6
    <3>2. t.prev[old] = NULL <=> i = 1
      BY <1>1, <1>9, <1>10, <2>2
    <3> QED
      BY <3>1, <3>2
  <2>4. ASSUME NEW j \in 1 .. n, j # i
        PROVE  d.next[f[j]] = IF j = i - 1 THEN t.next[old] ELSE t.next[f[j]]
    <3>1. f[j] \in Nodes /\ f[j] # old /\ t.parent[f[j]] = this
      BY <1>9, <2>4 DEF n
    <3>2. f[j] \notin S
      BY <1>7, <3>1
    <3>3. d.next[f[j]] = IF f[j] = t.prev[old] THEN t.next[old] ELSE t.next[f[j]]
      BY <1>4, <1>5, <3>1, <3>2
    <3>4. f[j] = t.prev[old] <=> j = i - 1
      <4>1. CASE i = 1
        BY <1>1, <1>9, <1>10, <3>1, <4>1
      <4>2. CASE i # 1
        <5>1. t.prev[old] = f[i - 1] /\ i - 1 \in 1 .. n
          BY <1>10, <2>2, <4>2
        <5> QED
          BY <1>9, <5>1
      <4> QED
        BY <4>1, <4>2
    <3> QED
      BY <3>3, <3>4
  <2>5. Without(t, this, f, i, old, d)
    BY <2>1, <2>3, <2>4 DEF Without, n
  <2> QED
    BY <1>1, <2>5, RemovedThis
<1>12. ASSUME NEW p \in Nodes, p \in S
       PROVE  IsKids(d, p, <<>>)
  <2>1. d.firstChild[p] = NULL
    BY <1>4, <1>12
  <2>2. \A c \in Nodes : d.parent[c] # p
    BY <1>1, <1>4, <1>5, <1>6, <1>12
  <2> QED
    BY <2>1, <2>2, NoKids
<1>13. ASSUME NEW p \in Nodes, NEW g, p # this, p \notin S, IsKids(t, p, g)
       PROVE  IsKids(d, p, g)
  <2>1. d.firstChild[p] = t.firstChild[p]
    BY <1>4, <1>5, <1>13
  <2>2. ASSUME NEW c \in Nodes, t.parent[c] = p
        PROVE  d.parent[c] = p /\ d.next[c] = t.next[c]
    <3>1. c \notin S
      BY <1>6, <1>13, <2>2
    <3>2. c # t.prev[old]
      BY <1>1, <1>8, <1>13, <2>2
    <3> QED
      BY <1>4, <1>5, <2>2, <3>1, <3>2
  <2>3. \A c \in Nodes : d.parent[c] = p => t.parent[c] = p
    BY <1>1, <1>4, <1>5
  <2> QED
    BY <1>13, <2>1, <2>2, <2>3, SameKids
<1> QED
  BY <1>6, <1>11, <1>12, <1>13

\* ReplaceChild puts node in the place of old among the children of this.
LEMMA ReplacedKids ==
    ASSUME NEW t, WellLinked(t), NEW this \in t.alive, NEW old \in t.alive, t.parent[old] = this,
           NEW S, IsSubtree(t, old, S), NEW node \in Nodes \ S, t.parent[node] = NULL,
           NEW f, IsKids(t, this, f), NEW i \in 1 .. Len(f), f[i] = old,
           NEW d, d = Delete(Substitute(t, this, old, node), S)
    PROVE  /\ IsKids(d, this, [f EXCEPT ![i] = node]) /\ this \notin S
           /\ \A p \in Nodes : p \in S => IsKids(d, p, <<>>)
           /\ \A p \in Nodes : \A g : p # this /\ p \notin S /\ IsKids(t, p, g) => IsKids(d, p, g)
<1> DEFINE u == Substitute(t, this, old, node)
           n == Len(f)
<1>1. t \in Tree /\ this \in Nodes /\ old \in Nodes /\ NULL \notin Nodes
  BY Fields, TreeAssumption DEF WellLinked
<1>2. \A m, c \in Nodes : /\ t.next[m] = c <=> t.prev[c] = m
                          /\ t.next[m] = c => t.parent[m] = t.parent[c] /\ t.parent[c] # NULL
  BY DEF WellLinked, NeighboursAgree
<1>3. t.prev[old] # node /\ t.next[old] # node
  BY <1>1, <1>2
<1>4. Substituted(t, this, old, node, u)
  BY <1>1, <1>3, SubstituteFields
<1> HIDE DEF u
<1>5. u \in Tree /\ d = Delete(u, S)
  BY <1>4 DEF Substituted, u
<1>6. \A c \in Nodes : /\ d.parent[c] = IF c \in S THEN NULL ELSE u.parent[c]
                       /\ d.firstChild[c] = IF c \in S THEN NULL ELSE u.firstChild[c]
                       /\ d.next[c] = IF c \in S THEN NULL ELSE u.next[c]
  BY <1>5, DeleteFields
<1>7. \A c \in Nodes : /\ u.parent[c] = IF c = node THEN this ELSE t.parent[c]
                       /\ u.next[c] = IF c = node THEN t.next[old]
                                      ELSE IF c = t.prev[old] THEN node ELSE t.next[c]
                       /\ u.firstChild[c] = IF t.prev[old] = NULL /\ c = this
                                            THEN node ELSE t.firstChild[c]
  BY <1>4 DEF Substituted
<1>8. /\ this \notin S /\ old \in S
      /\ \A c \in Nodes : t.parent[c] \in S => c \in S
      /\ \A c \in S : c # old => t.parent[c] \in S
  BY Boundary DEF IsSubtree
<1>9. \A c \in Nodes : c \in S /\ c # old => t.parent[c] # this
  BY <1>8
<1>10. /\ n \in Nat /\ \A j \in 1 .. n : f[j] \in Nodes /\ t.parent[f[j]] = this
       /\ \A j, k \in 1 .. n : f[j] = f[k] => j = k
  BY KidsParts
<1>11. t.prev[old] = IF i = 1 THEN NULL ELSE f[i - 1]
  BY <1>1, EndsOf
<1>12. IsKids(d, this, [f EXCEPT ![i] = node])
  <2>1. \A c \in Nodes : d.parent[c] = this <=> c = node \/ (t.parent[c] = this /\ c # old)
    BY <1>1, <1>6, <1>7, <1>8, <1>9
  <2> HIDE DEF n
  <2>2. i # 1 => i - 1 \in 1 .. n
    BY <1>10 DEF n
  <2>3. d.firstChild[this] = IF i = 1 THEN node ELSE t.firstChild[this]
    <3>1. d.firstChild[this] = IF t.prev[old] = NULL THEN node ELSE t.firstChild[this]
      BY <1>1, <1>6, <1>7, <1>8
    <3>2. t.prev[old] = NULL <=> i = 1
      BY <1>1, <1>10, <1>11, <2>2
    <3> QED
      BY <3>1, <3>2
  <2>4. d.next[node] = t.next[old]
    BY <1>6, <1>7
  <2>5. ASSUME NEW j \in 1 .. n, j # i
        PROVE  d.next[f[j]] = IF j = i - 1 THEN node ELSE t.next[f[j]]
    <3>1. f[j] \in Nodes /\ f[j] # old /\ t.parent[f[j]] = this /\ f[j] # node
      BY <1>1, <1>10, <2>5 DEF n
    <3>2. f[j] \notin S
      BY <1>9, <3>1
    <3>3. d.next[f[j]] = IF f[j] = t.prev[old] THEN node ELSE t.next[f[j]]
      BY <1>6, <1>7, <3>1, <3>2
    <3>4. f[j] = t.prev[old] <=> j = i - 1
      <4>1. CASE i = 1
        BY <1>1, <1>10, <1>11, <3>1, <4>1
      <4>2. CASE i # 1
        <5>1. t.prev[old] = f[i - 1] /\ i - 1 \in 1 .. n
          BY <1>11, <2>2, <4>2
        <5> QED
          BY <1>10, <5>1
      <4> QED
        BY <4>1, <4>2
    <3> QED
      BY <3>3, <3>4
  <2>6. InPlace(t, this, f, i, old, node, d)
    BY <2>1, <2>3, <2>4, <2>5 DEF InPlace, n
  <2>7. t.parent[node] # this
    BY <1>1
  <2> QED
    BY <1>1, <2>6, <2>7, ReplacedThis
<1>13. ASSUME NEW p \in Nodes, p \in S
       PROVE  IsKids(d, p, <<>>)
  <2>1. d.firstChild[p] = NULL
    BY <1>6, <1>13
  <2>2. \A c \in Nodes : d.parent[c] # p
    BY <1>1, <1>6, <1>7, <1>8, <1>13
  <2> QED
    BY <2>1, <2>2, NoKids
<1>14. ASSUME NEW p \in Nodes, NEW g, p # this, p \notin S, IsKids(t, p, g)
       PROVE  IsKids(d, p, g)
  <2>1. d.firstChild[p] = t.firstChild[p]
    BY <1>6, <1>7, <1>14
  <2>2. ASSUME NEW c \in Nodes, t.parent[c] = p
        PROVE  d.parent[c] = p /\ d.next[c] = t.next[c]
    <3>1. c \notin S /\ c # node
      BY <1>1, <1>8, <1>14, <2>2
    <3>2. c # t.prev[old]
      BY <1>1, <1>2, <1>14, <2>2
    <3> QED
      BY <1>6, <1>7, <2>2, <3>1, <3>2
  <2>3. \A c \in Nodes : d.parent[c] = p => t.parent[c] = p
    BY <1>1, <1>6, <1>7, <1>14
  <2> QED
    BY <1>14, <2>1, <2>2, <2>3, SameKids
<1> QED
  BY <1>8, <1>12, <1>13, <1>14

\* The assignments of Clear, node by node.
Cleared(t, this, S, d) ==
    \A c \in Nodes :
        /\ d.parent[c] = IF c \in S \ {this} THEN NULL ELSE t.parent[c]
        /\ d.firstChild[c] = IF c \in S THEN NULL ELSE t.firstChild[c]
        /\ d.next[c] = IF c \in S \ {this} THEN NULL ELSE t.next[c]

\* Clear does what Cleared says.
LEMMA ClearFields ==
    ASSUME NEW t \in Tree, NEW this \in Nodes, NEW S, this \in S, NEW e, e = Delete(t, S \ {this})
    PROVE  Cleared(t, this, S, [e EXCEPT !.firstChild[this] = NULL, !.lastChild[this] = NULL])
<1> DEFINE d == [e EXCEPT !.firstChild[this] = NULL, !.lastChild[this] = NULL]
           F == [e.firstChild EXCEPT ![this] = NULL]
           L == [e.lastChild EXCEPT ![this] = NULL]
<1>1. /\ e \in Tree
      /\ \A c \in Nodes : /\ e.parent[c] = IF c \in S \ {this} THEN NULL ELSE t.parent[c]
                          /\ e.firstChild[c] = IF c \in S \ {this} THEN NULL ELSE t.firstChild[c]
                          /\ e.next[c] = IF c \in S \ {this} THEN NULL ELSE t.next[c]
  BY DeleteFields
<1>2. d = [alive |-> e.alive, parent |-> e.parent, firstChild |-> F, lastChild |-> L,
           prev |-> e.prev, next |-> e.next]
  BY <1>1, EndsCleared
<1>3. e.firstChild \in Pointers
  BY <1>1, Fields
<1>4. \A c \in Nodes : F[c] = IF c = this THEN NULL ELSE e.firstChild[c]
  BY <1>3 DEF Pointers
<1> HIDE DEF d, F, L
<1>5. d.parent = e.parent /\ d.next = e.next /\ d.firstChild = F
  BY <1>2
<1>6. Cleared(t, this, S, d)
  BY <1>1, <1>4, <1>5 DEF Cleared
<1> QED
  BY <1>6 DEF d

\* Clear leaves this without children.
LEMMA ClearedKids ==
    ASSUME NEW t, WellLinked(t), NEW this \in t.alive, NEW S, IsSubtree(t, this, S),
           NEW d, Cleared(t, this, S, d)
    PROVE  /\ \A p \in Nodes : p \in S => IsKids(d, p, <<>>)
           /\ \A p \in Nodes : \A g : p \notin S /\ IsKids(t, p, g) => IsKids(d, p, g)
<1>1. t \in Tree /\ this \in Nodes /\ NULL \notin Nodes
  BY Fields, TreeAssumption DEF WellLinked
<1>2. \A c \in Nodes : /\ d.parent[c] = IF c \in S \ {this} THEN NULL ELSE t.parent[c]
                       /\ d.firstChild[c] = IF c \in S THEN NULL ELSE t.firstChild[c]
                       /\ d.next[c] = IF c \in S \ {this} THEN NULL ELSE t.next[c]
  BY DEF Cleared
<1>5. /\ t.parent[this] \notin S /\ this \in S
      /\ \A c \in Nodes : t.parent[c] \in S => c \in S
      /\ \A c \in S : c # this => t.parent[c] \in S
  BY Boundary DEF IsSubtree
<1>6. ASSUME NEW p \in Nodes, p \in S
      PROVE  IsKids(d, p, <<>>)
  <2>1. d.firstChild[p] = NULL
    BY <1>2, <1>6
  <2>2. \A c \in Nodes : d.parent[c] # p
    BY <1>1, <1>2, <1>5, <1>6
  <2> QED
    BY <2>1, <2>2, NoKids
<1>7. ASSUME NEW p \in Nodes, NEW g, p \notin S, IsKids(t, p, g)
      PROVE  IsKids(d, p, g)
  <2>1. d.firstChild[p] = t.firstChild[p]
    BY <1>2, <1>7
  <2>2. ASSUME NEW c \in Nodes, t.parent[c] = p
        PROVE  d.parent[c] = p /\ d.next[c] = t.next[c]
    <3>1. c \notin S \ {this}
      BY <1>5, <1>7, <2>2
    <3> QED
      BY <1>2, <2>2, <3>1
  <2>3. \A c \in Nodes : d.parent[c] = p => t.parent[c] = p
    BY <1>1, <1>2
  <2> QED
    BY <1>7, <2>1, <2>2, <2>3, SameKids
<1> QED
  BY <1>6, <1>7

\* The operators of the library are the same in XmlChildren.
LEMMA SameOperators ==
    /\ Children!Cardinality(Nodes) = Cardinality(Nodes)
    /\ \A s : Children!ToSet(s) = ToSet(s)
    /\ \A s, i, e : Children!InsertAt(s, i, e) = InsertAt(s, i, e)
    /\ \A s, i : Children!RemoveAt(s, i) = RemoveAt(s, i)
<1>1. Children!Cardinality(Nodes) = Cardinality(Nodes)
  BY Zenon DEF Children!Cardinality, Cardinality
<1>2. \A s : Children!ToSet(s) = ToSet(s)
  BY DEF Children!ToSet, ToSet
<1>3. ASSUME NEW s, NEW i, NEW e PROVE Children!InsertAt(s, i, e) = InsertAt(s, i, e)
  BY Zenon DEF Children!InsertAt, InsertAt
<1>4. ASSUME NEW s, NEW i PROVE Children!RemoveAt(s, i) = RemoveAt(s, i)
  BY Zenon DEF Children!RemoveAt, RemoveAt
<1> QED
  BY <1>1, <1>2, <1>3, <1>4

\* One level more: the children of all that is in B.
Grown(F, B) == B \cup UNION {ToSet(F[m]) : m \in B}

Levels(F, x, n, b) == b[0] = {x} /\ \A k \in 1 .. n : b[k] = Grown(F, b[k - 1])

\* What Below of XmlChildren makes of the children F.
BelowIn(kids, x) ==
    LET below[k \in 0 .. Cardinality(Nodes)] ==
            IF k = 0 THEN {x}
            ELSE LET above == below[k - 1] IN above \cup UNION {ToSet(kids[m]) : m \in above}
    IN  below[Cardinality(Nodes)]

\* The levels can be listed, one after the other.
LEMMA LevelsExist ==
    ASSUME NEW F, NEW x, NEW n \in Nat
    PROVE  \E b : Levels(F, x, n, b)
<1> DEFINE T == {k \in Nat : \E b : Levels(F, x, k, b)}
<1>1. 0 \in T
  <2> DEFINE b == [k \in 0 .. 0 |-> {x}]
  <2>1. b[0] = {x}
    OBVIOUS
  <2> HIDE DEF b
  <2>2. Levels(F, x, 0, b)
    BY <2>1 DEF Levels
  <2> QED
    BY <2>2
<1>2. ASSUME NEW k \in Nat, k \in T PROVE k + 1 \in T
  <2>1. PICK b : Levels(F, x, k, b)
    BY <1>2
  <2> DEFINE i == k + 1
             more == Grown(F, b[k])
             c == [j \in 0 .. i |-> IF j = i THEN more ELSE b[j]]
  <2>2. b[0] = {x} /\ \A j \in 1 .. k : b[j] = Grown(F, b[j - 1])
    BY <2>1 DEF Levels
  <2>3. i \in Nat /\ i # 0 /\ \A j \in 1 .. i : j = i \/ (j \in 1 .. k /\ j # i /\ j - 1 # i)
    BY <1>2
  <2>4. i - 1 = k /\ k # i
    BY <1>2
  <2> HIDE DEF more
  <2>5. \A j \in 0 .. i : c[j] = IF j = i THEN more ELSE b[j]
    OBVIOUS
  <2>6. \A j \in 1 .. i : j \in 0 .. i /\ j - 1 \in 0 .. i
    BY <2>3
  <2>a. 0 \in 0 .. i
    BY <2>3
  <2> HIDE DEF c, i
  <2>7. c[0] = {x}
    BY <2>2, <2>3, <2>5, <2>a
  <2>8. ASSUME NEW j \in 1 .. i PROVE c[j] = Grown(F, c[j - 1])
    <3>1. CASE j = i
      <4>1. c[j] = more /\ c[j - 1] = b[k]
        BY <2>4, <2>5, <2>6, <3>1
      <4> QED
        BY <4>1 DEF more
    <3>2. CASE j \in 1 .. k /\ j # i /\ j - 1 # i
      <4>1. c[j] = b[j] /\ c[j - 1] = b[j - 1]
        BY <2>5, <2>6, <3>2
      <4> QED
        BY <2>2, <3>2, <4>1
    <3> QED
      BY <2>3, <3>1, <3>2
  <2>9. Levels(F, x, i, c)
    BY <2>7, <2>8 DEF Levels
  <2> QED
    BY <1>2, <2>9 DEF i
<1> HIDE DEF T
<1>3. \A k \in Nat : k \in T
  BY <1>1, <1>2, NatAll
<1> QED
  BY <1>3 DEF T

\* Below of XmlChildren is the last of them.
LEMMA BelowInIs ==
    ASSUME NEW F, NEW x, NEW N, N = Cardinality(Nodes)
    PROVE  N \in Nat /\ \E b : Levels(F, x, N, b) /\ BelowIn(F, x) = b[N]
<1> DEFINE Same(f) == f = [k \in 0 .. N |->
                             IF k = 0 THEN {x}
                             ELSE LET above == f[k - 1] IN above \cup UNION {ToSet(F[m]) : m \in above}]
           below == CHOOSE f : Same(f)
<1>1. N \in Nat
  BY TreeAssumption, FS_CardinalityType
<1>2. PICK b : Levels(F, x, N, b)
  BY <1>1, LevelsExist
<1> DEFINE g == [k \in 0 .. N |-> b[k]]
           h == [k \in 0 .. N |->
                    IF k = 0 THEN {x}
                    ELSE LET above == g[k - 1] IN above \cup UNION {ToSet(F[m]) : m \in above}]
<1>3. b[0] = {x} /\ \A k \in 1 .. N : b[k] = Grown(F, b[k - 1])
  BY <1>2 DEF Levels
<1>4. Same(g)
  <2>1. ASSUME NEW k \in 0 .. N PROVE g[k] = h[k]
    <3>1. CASE k = 0
      BY <1>3, <3>1
    <3>2. CASE k # 0
      <4> DEFINE above == g[k - 1]
      <4>1. k \in 1 .. N /\ k - 1 \in 0 .. N
        BY <1>1, <3>2
      <4>2. h[k] = above \cup UNION {ToSet(F[m]) : m \in above}
        BY <3>2
      <4>3. h[k] = Grown(F, above)
        BY <4>2, Zenon DEF Grown
      <4>4. g[k] = b[k] /\ above = b[k - 1]
        BY <4>1
      <4> HIDE DEF above, g, h
      <4> QED
        BY <1>3, <4>1, <4>3, <4>4
    <3> QED
      BY <3>1, <3>2
  <2>2. g = [k \in 0 .. N |-> g[k]] /\ h = [k \in 0 .. N |-> h[k]]
    OBVIOUS
  <2> HIDE DEF g, h
  <2>3. g = h
    BY <2>1, <2>2
  <2> QED
    BY <2>3 DEF h
<1>5. Same(below)
  <2> HIDE DEF g, Same
  <2> QED
    BY <1>4
<1>6. below[0] = {x}
  <2> HIDE DEF below
  <2> QED
    BY <1>1, <1>5
<1>7. ASSUME NEW k \in 1 .. N PROVE below[k] = Grown(F, below[k - 1])
  <2> DEFINE above == below[k - 1]
  <2>1. k \in 0 .. N /\ k # 0
    BY <1>1
  <2> HIDE DEF below
  <2>2. below[k] = above \cup UNION {ToSet(F[m]) : m \in above}
    BY <1>5, <2>1
  <2> HIDE DEF above
  <2>3. below[k] = Grown(F, above)
    BY <2>2, Zenon DEF Grown
  <2> QED
    BY <2>3 DEF above
<1>8. BelowIn(F, x) = below[N]
  BY Zenon DEF BelowIn, below, Same
<1> HIDE DEF below
<1>9. Levels(F, x, N, below)
  BY <1>6, <1>7 DEF Levels
<1> QED
  BY <1>1, <1>8, <1>9

\* A level within Nodes that is not the last has one node more than the level above it: after as
\* many levels as there are nodes, no node is left.
LEMMA GrownEnds ==
    ASSUME NEW F, \A m \in Nodes : ToSet(F[m]) \subseteq Nodes, NEW x \in Nodes,
           NEW N, N = Cardinality(Nodes), N \in Nat, NEW b, Levels(F, x, N, b)
    PROVE  b[N] \subseteq Nodes /\ x \in b[N] /\ Grown(F, b[N]) = b[N]
<1>1. b[0] = {x} /\ \A k \in 1 .. N : b[k] = Grown(F, b[k - 1])
  BY DEF Levels
<1> DEFINE More(k) == Cardinality(b[k]) >= k + 1
           Done(k) == Grown(F, b[k]) = b[k]
           Good(k) == b[k] \subseteq Nodes /\ x \in b[k] /\ (More(k) \/ Done(k))
           T == {k \in Nat : k <= N => Good(k)}
<1>2. 0 \in T
  <2>1. Cardinality({x}) = 1
    BY FS_Singleton
  <2>2. More(0)
    BY <1>1, <2>1
  <2> QED
    BY <1>1, <2>2
<1>3. ASSUME NEW k \in Nat, k \in T PROVE k + 1 \in T
  <2> SUFFICES ASSUME k + 1 <= N PROVE Good(k + 1)
    OBVIOUS
  <2> DEFINE i == k + 1
             B == b[k]
             C == b[i]
  <2>1. Good(k)
    BY <1>3
  <2>2. i \in 1 .. N /\ i - 1 = k
    OBVIOUS
  <2>3. C = Grown(F, B)
    BY <1>1, <2>2
  <2>4. B \subseteq Nodes /\ x \in B /\ (Cardinality(B) >= k + 1 \/ Grown(F, B) = B)
    BY <2>1
  <2> HIDE DEF B, C
  <2>5. B \subseteq C /\ C \subseteq Nodes
    BY <2>3, <2>4 DEF Grown
  <2>6. IsFiniteSet(C)
    BY <2>5, TreeAssumption, FS_Subset
  <2>7. Cardinality(B) <= Cardinality(C) /\ (Cardinality(C) = Cardinality(B) => C = B)
    BY <2>5, <2>6, FS_Subset
  <2>8. Cardinality(B) \in Nat /\ Cardinality(C) \in Nat
    BY <2>5, <2>6, FS_Subset, FS_CardinalityType
  <2>9. Cardinality(C) >= i + 1 \/ Grown(F, C) = C
    <3>1. CASE C = B
      BY <2>3, <3>1
    <3>2. CASE C # B
      <4>1. Grown(F, B) # B
        BY <2>3, <3>2
      <4>2. Cardinality(B) >= k + 1 /\ Cardinality(C) # Cardinality(B)
        BY <2>4, <2>7, <3>2, <4>1
      <4> QED
        BY <2>7, <2>8, <4>2
    <3> QED
      BY <3>1, <3>2
  <2>10. C \subseteq Nodes /\ x \in C
    BY <2>4, <2>5
  <2> HIDE DEF i
  <2> QED
    BY <2>9, <2>10 DEF C, i
<1> HIDE DEF T
<1>4. N \in T
  BY <1>2, <1>3, NatAll
<1>5. Good(N)
  BY <1>4 DEF T
<1>6. ~ More(N)
  <2> DEFINE B == b[N]
  <2>1. B \in SUBSET Nodes
    BY <1>5
  <2> HIDE DEF B
  <2>2. Cardinality(B) <= N
    BY <2>1, TreeAssumption, FS_Subset
  <2>3. Cardinality(B) \in Nat
    BY <2>1, TreeAssumption, FS_Subset, FS_CardinalityType
  <2>4. ~ (Cardinality(B) >= N + 1)
    BY <2>2, <2>3
  <2> QED
    BY <2>4 DEF B
<1> QED
  BY <1>5, <1>6

\* What is below x along the children is what is below it along the parents.
LEMMA BelowIs ==
    ASSUME NEW t, WellLinked(t), NEW F, AllKids(t, F), NEW x \in t.alive
    PROVE  BelowIn(F, x) = Subtree(t, x)
<1> DEFINE S == Subtree(t, x)
           N == Cardinality(Nodes)
<1>1. IsSubtree(t, x, S) /\ x \in Nodes /\ t.alive \subseteq Nodes
  BY SubtreeIs, Fields DEF WellLinked
<1>2. \A m \in Nodes : F[m] \in Seq(Nodes) /\ IsKids(t, m, F[m])
  BY KidsOf
<1>3. \A m \in Nodes : ToSet(F[m]) = {c \in Nodes : t.parent[c] = m}
  <2> TAKE m \in Nodes
  <2> DEFINE f == F[m]
  <2>1. f \in Seq(Nodes) /\ IsKids(t, m, f)
    BY <1>2
  <2> HIDE DEF f
  <2>2. \A c \in Nodes : t.parent[c] = m <=> \E i \in 1 .. Len(f) : f[i] = c
    BY <2>1 DEF IsKids
  <2>3. \A i \in 1 .. Len(f) : f[i] \in Nodes
    BY <2>1, ElementOfSeq
  <2>4. DOMAIN f = 1 .. Len(f)
    BY <2>1
  <2>5. ToSet(f) = {f[i] : i \in 1 .. Len(f)}
    BY <2>4 DEF ToSet
  <2>6. ToSet(f) = {c \in Nodes : t.parent[c] = m}
    BY <2>2, <2>3, <2>5
  <2> QED
    BY <2>6 DEF f
<1> HIDE DEF N
<1>4. N \in Nat /\ N = Cardinality(Nodes)
  BY TreeAssumption, FS_CardinalityType DEF N
<1>5. PICK b : Levels(F, x, N, b) /\ BelowIn(F, x) = b[N]
  BY <1>4, BelowInIs
<1>6. b[N] \subseteq Nodes /\ x \in b[N] /\ Grown(F, b[N]) = b[N]
  <2>1. \A m \in Nodes : ToSet(F[m]) \subseteq Nodes
    BY <1>3
  <2> QED
    BY <1>1, <1>4, <1>5, <2>1, GrownEnds
<1>7. Closed(t, b[N])
  <2> SUFFICES ASSUME NEW n \in Nodes, t.parent[n] \in b[N] PROVE n \in b[N]
    BY DEF Closed
  <2>1. n \in ToSet(F[t.parent[n]])
    BY <1>3, <1>6
  <2>2. n \in Grown(F, b[N])
    BY <2>1 DEF Grown
  <2> QED
    BY <1>6, <2>2
<1>8. S \subseteq b[N]
  BY <1>6, <1>7 DEF Subtree
<1> HIDE DEF S
<1>9. b[N] \subseteq S
  <2> DEFINE T == {k \in Nat : k <= N => b[k] \subseteq S}
  <2>1. b[0] = {x} /\ \A k \in 1 .. N : b[k] = Grown(F, b[k - 1])
    BY <1>5 DEF Levels
  <2>2. x \in S /\ S \subseteq Nodes /\ \A n \in Nodes : t.parent[n] \in S => n \in S
    BY <1>1 DEF IsSubtree
  <2>3. 0 \in T
    BY <2>1, <2>2
  <2>4. ASSUME NEW k \in Nat, k \in T PROVE k + 1 \in T
    <3> SUFFICES ASSUME k + 1 <= N PROVE b[k + 1] \subseteq S
      OBVIOUS
    <3> DEFINE i == k + 1
               B == b[k]
    <3>1. i \in 1 .. N /\ i - 1 = k
      BY <1>4
    <3>2. B \subseteq S
      BY <1>4, <2>4
    <3>3. b[i] = Grown(F, B)
      BY <2>1, <3>1
    <3> HIDE DEF B, i
    <3>4. \A m \in B : ToSet(F[m]) \subseteq S
      BY <1>3, <2>2, <3>2
    <3>5. Grown(F, B) \subseteq S
      BY <3>2, <3>4 DEF Grown
    <3> QED
      BY <3>3, <3>5 DEF i
  <2> HIDE DEF T
  <2>5. N \in T
    BY <1>4, <2>3, <2>4, NatAll
  <2> QED
    BY <1>4, <2>5 DEF T
<1> QED
  BY <1>5, <1>8, <1>9 DEF S

\* What is known of a heap with a copy of x in it.
LEMMA CloneIs ==
    ASSUME NEW t, WellLinked(t), NEW F, AllKids(t, F), NEW x \in t.alive, NEW at \in Places(t, x),
           NEW c, c = Clone(t, x, at), NEW G, G = CopiedTo(F, at, {}), NEW node, node = at[x]
    PROVE  /\ WellLinked(c) /\ AllKids(c, G)
           /\ c.alive = t.alive \cup {at[m] : m \in DOMAIN at}
           /\ node \in Nodes /\ c.parent[node] = NULL
           /\ \A n \in t.alive : /\ n \in Nodes /\ n \in c.alive /\ G[n] = F[n]
                                 /\ c.parent[n] = t.parent[n]
           /\ \A y, T : IsSubtree(t, y, T) => IsSubtree(c, y, T) /\ node \notin T
<1> DEFINE S == Subtree(t, x)
<1>1. t \in Tree /\ x \in Nodes /\ x \in S /\ S \subseteq Nodes /\ t.alive \subseteq Nodes
  BY Fields, SubtreeIs DEF WellLinked, IsSubtree
<1>2. Cloned(t, x, S, at, c)
  BY <1>1, CloneFields
<1>3. PICK New : CopyAdded(t, c, node, New)
  BY CloneLinked
<1>4. /\ WellLinked(c) /\ Loose(c, node, New)
      /\ \A n \in t.alive : n \in c.alive /\ n \notin New /\ c.parent[n] = t.parent[n]
      /\ \A y, T : IsSubtree(t, y, T) => IsSubtree(c, y, T) /\ T \cap New = {}
  BY <1>3 DEF CopyAdded
<1>5. node \in New /\ node \in c.alive /\ c.parent[node] = NULL
  BY <1>4 DEF Loose, IsSubtree
<1>6. node \in Nodes
  BY <1>4, <1>5, Fields DEF WellLinked
<1>7. AllKids(c, G)
  BY CloneKids
<1> HIDE DEF S
<1>8. /\ at \in [S -> Nodes \ t.alive] /\ \A m, n \in S : at[m] = at[n] => m = n
      /\ c.alive = t.alive \cup {at[m] : m \in S}
  BY <1>2 DEF Cloned
<1>9. F \in [Nodes -> Seq(Nodes)]
  BY DEF AllKids
<1>10. AreCopied(F, S, at, {}, G)
  <2>1. at \in [S -> Nodes] /\ S \in SUBSET Nodes
    BY <1>1, <1>8
  <2> QED
    BY <1>8, <1>9, <2>1, CopiedToIs
<1>11. ASSUME NEW n \in t.alive PROVE G[n] = F[n]
  <2>1. n \in Nodes /\ n \notin {at[m] : m \in S}
    BY <1>1, <1>8
  <2> QED
    BY <1>10, <2>1 DEF AreCopied
<1>12. DOMAIN at = S
  BY <1>8
<1> QED
  BY <1>1, <1>4, <1>5, <1>6, <1>7, <1>8, <1>11, <1>12

\* What InsertCopy of XmlChildren says, of a heap t with the children F and the one after, u with G.
Inserts(t, F, u, G, this, k, x) ==
    \E at \in Places(t, x) :
        /\ u.alive = t.alive \cup {at[m] : m \in DOMAIN at}
        /\ G = [CopiedTo(F, at, {}) EXCEPT ![this] = InsertAt(F[this], k, at[x])]

\* A copy put between two neighbours is a child more, at that place.
LEMMA PlacedKids ==
    ASSUME NEW t, WellLinked(t), NEW F, AllKids(t, F), NEW this \in t.alive, NEW x \in t.alive,
           NEW at \in Places(t, x), NEW c, c = Clone(t, x, at), NEW node, node = at[x],
           NEW a, NEW b, NEW u, Inserted(c, this, a, b, node, u),
           NEW k, Between(F[this], k, a, b)
    PROVE  \E G : AllKids(u, G) /\ Inserts(t, F, u, G, this, k, x)
<1> DEFINE G == CopiedTo(F, at, {})
           H == [G EXCEPT ![this] = InsertAt(F[this], k, node)]
<1>1. /\ WellLinked(c) /\ AllKids(c, G)
      /\ c.alive = t.alive \cup {at[m] : m \in DOMAIN at}
      /\ node \in Nodes /\ c.parent[node] = NULL /\ this \in Nodes /\ G[this] = F[this]
  BY CloneIs
<1> HIDE DEF G
<1>2. AllKids(u, [G EXCEPT ![this] = InsertAt(G[this], k, node)])
  BY <1>1, InsertKids
<1>3. AllKids(u, H)
  BY <1>1, <1>2
<1>4. u.alive = c.alive
  BY DEF Inserted
<1>5. H = [CopiedTo(F, at, {}) EXCEPT ![this] = InsertAt(F[this], k, at[x])]
  BY DEF H, G
<1> HIDE DEF H
<1>6. Inserts(t, F, u, H, this, k, x)
  BY <1>1, <1>4, <1>5 DEF Inserts
<1> QED
  BY <1>3, <1>6

\* InsertEndChild puts the copy last,
LEMMA EndChildKids ==
    ASSUME NEW t, WellLinked(t), NEW F, AllKids(t, F), NEW this \in t.alive, NEW x \in t.alive,
           NEW at \in Places(t, x), NEW u, u = LinkEndChild(Clone(t, x, at), this, at[x])
    PROVE  \E G : AllKids(u, G) /\ Inserts(t, F, u, G, this, Len(F[this]) + 1, x)
<1> DEFINE c == Clone(t, x, at)
           node == at[x]
           G == CopiedTo(F, at, {})
           f == F[this]
           k == Len(f) + 1
<1>1. WellLinked(c) /\ AllKids(c, G) /\ this \in Nodes /\ G[this] = f
  BY CloneIs
<1>2. Inserted(c, this, c.lastChild[this], NULL, node, u)
  BY InsertEndChildLinked
<1> HIDE DEF c, node, G
<1>3. IsKids(c, this, f) /\ Len(f) \in Nat
  BY <1>1, KidsOf, KidsParts
<1>4. c.lastChild[this] = IF Len(f) = 0 THEN NULL ELSE f[Len(f)]
  BY <1>1, <1>3, EndsOf
<1>5. Between(f, k, c.lastChild[this], NULL)
  BY <1>3, <1>4 DEF Between
<1> HIDE DEF k, f
<1> QED
  BY <1>2, <1>5, PlacedKids DEF c, node, f, k

\* InsertBeforeChild in the place of b,
LEMMA BeforeChildKids ==
    ASSUME NEW t, WellLinked(t), NEW F, AllKids(t, F), NEW this \in t.alive, NEW x \in t.alive,
           NEW at \in Places(t, x), NEW b \in t.alive, t.parent[b] = this,
           NEW i \in 1 .. Len(F[this]), F[this][i] = b,
           NEW u, u = LinkBefore(Clone(t, x, at), this, b, at[x])
    PROVE  \E G : AllKids(u, G) /\ Inserts(t, F, u, G, this, i, x)
<1> DEFINE c == Clone(t, x, at)
           node == at[x]
           G == CopiedTo(F, at, {})
           f == F[this]
<1>1. WellLinked(c) /\ AllKids(c, G) /\ this \in Nodes /\ G[this] = f
  BY CloneIs
<1>2. Inserted(c, this, c.prev[b], b, node, u)
  BY InsertBeforeLinked
<1> HIDE DEF c, node, G
<1>3. IsKids(c, this, f) /\ Len(f) \in Nat
  BY <1>1, KidsOf, KidsParts
<1>4. c.prev[b] = IF i = 1 THEN NULL ELSE f[i - 1]
  BY <1>1, <1>3, EndsOf
<1>5. Between(f, i, c.prev[b], b)
  BY <1>3, <1>4 DEF Between
<1> HIDE DEF f
<1> QED
  BY <1>2, <1>5, PlacedKids DEF c, node, f

\* InsertAfterChild behind a.
LEMMA AfterChildKids ==
    ASSUME NEW t, WellLinked(t), NEW F, AllKids(t, F), NEW this \in t.alive, NEW x \in t.alive,
           NEW at \in Places(t, x), NEW a \in t.alive, t.parent[a] = this,
           NEW i \in 1 .. Len(F[this]), F[this][i] = a,
           NEW u, u = LinkAfter(Clone(t, x, at), this, a, at[x])
    PROVE  \E G : AllKids(u, G) /\ Inserts(t, F, u, G, this, i + 1, x)
<1> DEFINE c == Clone(t, x, at)
           node == at[x]
           G == CopiedTo(F, at, {})
           f == F[this]
           k == i + 1
<1>1. WellLinked(c) /\ AllKids(c, G) /\ this \in Nodes /\ G[this] = f
  BY CloneIs
<1>2. Inserted(c, this, a, c.next[a], node, u)
  BY InsertAfterLinked
<1> HIDE DEF c, node, G
<1>3. IsKids(c, this, f) /\ Len(f) \in Nat
  BY <1>1, KidsOf, KidsParts
<1>4. \A j \in 1 .. Len(f) : c.next[f[j]] = IF j = Len(f) THEN NULL ELSE f[j + 1]
  BY <1>3, KidsParts
<1>5. Between(f, k, a, c.next[a])
  BY <1>3, <1>4 DEF Between
<1> HIDE DEF k, f
<1> QED
  BY <1>2, <1>5, PlacedKids DEF c, node, f, k

\* What is gone has no children; the others have those they would have if nothing were gone.
LEMMA CopiedGone ==
    ASSUME NEW F, NEW at, NEW gone
    PROVE  /\ OfNodes(CopiedTo(F, at, gone))
           /\ \A p \in Nodes :
                  CopiedTo(F, at, gone)[p] = IF p \in gone THEN <<>> ELSE CopiedTo(F, at, {})[p]
<1>1. OfNodes(CopiedTo(F, at, gone))
  BY DEF OfNodes, CopiedTo
<1>2. \A p \in Nodes : p \in gone => CopiedTo(F, at, gone)[p] = <<>>
  BY DEF CopiedTo
<1>3. \A p \in Nodes : p \notin gone => CopiedTo(F, at, gone)[p] = CopiedTo(F, at, {})[p]
  BY DEF CopiedTo
<1> QED
  BY <1>1, <1>2, <1>3

\* Without a copy the others have those they had.
LEMMA CopiedNone ==
    ASSUME NEW F, NEW p \in Nodes
    PROVE  CopiedTo(F, <<>>, {})[p] = F[p]
<1>1. DOMAIN <<>> = {}
  OBVIOUS
<1> QED
  BY <1>1 DEF CopiedTo

\* What ReplaceChild of XmlChildren says, of a heap t and the one after,
Replaces(t, F, u, G, this, k, c, x) ==
    \E at \in Places(t, x) :
        /\ u.alive = (t.alive \cup {at[m] : m \in DOMAIN at}) \ Subtree(t, c)
        /\ G = [CopiedTo(F, at, Subtree(t, c)) EXCEPT ![this] = [F[this] EXCEPT ![k] = at[x]]]
\* RemoveChild,
Removes(t, F, u, G, this, k, c) ==
    /\ u.alive = t.alive \ Subtree(t, c)
    /\ G = [CopiedTo(F, <<>>, Subtree(t, c)) EXCEPT ![this] = RemoveAt(F[this], k)]
\* and Clear.
Clears(t, F, u, G, this) ==
    /\ u.alive = t.alive \ (Subtree(t, this) \ {this})
    /\ G = CopiedTo(F, <<>>, Subtree(t, this))

\* ReplaceChild gives the copy the place of old.
LEMMA ReplaceKids ==
    ASSUME NEW t, WellLinked(t), NEW F, AllKids(t, F), NEW this \in t.alive, NEW x \in t.alive,
           NEW at \in Places(t, x), NEW old \in t.alive, t.parent[old] = this,
           NEW i \in 1 .. Len(F[this]), F[this][i] = old,
           NEW u, u = Delete(Substitute(Clone(t, x, at), this, old, at[x]), Subtree(t, old))
    PROVE  \E G : AllKids(u, G) /\ Replaces(t, F, u, G, this, i, old, x)
<1> DEFINE c == Clone(t, x, at)
           node == at[x]
           G == CopiedTo(F, at, {})
           S == Subtree(t, old)
           H == CopiedTo(F, at, S)
           f == F[this]
           g == [f EXCEPT ![i] = node]
           K == [H EXCEPT ![this] = g]
<1>1. IsSubtree(t, old, S)
  BY SubtreeIs
<1>2. /\ WellLinked(c) /\ AllKids(c, G) /\ c.alive = t.alive \cup {at[m] : m \in DOMAIN at}
      /\ node \in Nodes /\ c.parent[node] = NULL
      /\ \A n \in t.alive : n \in Nodes /\ n \in c.alive /\ G[n] = F[n] /\ c.parent[n] = t.parent[n]
      /\ \A y, T : IsSubtree(t, y, T) => IsSubtree(c, y, T) /\ node \notin T
  BY CloneIs
<1>3. OfNodes(H) /\ \A p \in Nodes : H[p] = IF p \in S THEN <<>> ELSE G[p]
  BY CopiedGone
<1>4. u = Delete(Substitute(c, this, old, node), S)
  OBVIOUS
<1>5. K = [CopiedTo(F, at, Subtree(t, old)) EXCEPT ![this] = [F[this] EXCEPT ![i] = at[x]]]
  BY DEF K, g, f, H, S, node
<1> HIDE DEF c, node, G, S, H, g, K
<1>6. IsSubtree(c, old, S) /\ node \in Nodes \ S
  BY <1>1, <1>2
<1>7. IsKids(c, this, f) /\ \A p \in Nodes : IsKids(c, p, G[p])
  BY <1>2, KidsOf
<1>8. this \in c.alive /\ old \in c.alive /\ c.parent[old] = this /\ this \in Nodes /\ old \in Nodes
  BY <1>2
<1>9. /\ IsKids(u, this, g) /\ this \notin S
      /\ \A p \in Nodes : p \in S => IsKids(u, p, <<>>)
      /\ \A p \in Nodes : \A h : p # this /\ p \notin S /\ IsKids(c, p, h) => IsKids(u, p, h)
  <2> HIDE DEF f
  <2>1. i \in 1 .. Len(f) /\ f[i] = old
    BY DEF f
  <2> QED
    BY <1>2, <1>4, <1>6, <1>7, <1>8, <2>1, ReplacedKids DEF g
<1>10. \A p \in Nodes : p # this => IsKids(u, p, H[p])
  BY <1>3, <1>7, <1>9
<1>11. AllKids(u, K)
  BY <1>3, <1>8, <1>9, <1>10, KidsBut DEF K
<1>12. u.alive = c.alive \ S
  <2> DEFINE s == Substitute(c, this, old, node)
  <2>1. c.prev[old] # node /\ c.next[old] # node /\ c \in Tree
    BY <1>2, <1>8, Fields, TreeAssumption DEF WellLinked, NeighboursAgree
  <2>2. Substituted(c, this, old, node, s)
    BY <1>2, <1>8, <2>1, SubstituteFields
  <2> HIDE DEF s
  <2>3. s \in Tree /\ s.alive = c.alive /\ u = Delete(s, S)
    BY <1>4, <2>2 DEF Substituted, s
  <2> QED
    BY <2>3, DeleteFields
<1>13. Replaces(t, F, u, K, this, i, old, x)
  BY <1>2, <1>5, <1>12 DEF Replaces, S
<1> QED
  BY <1>11, <1>13

\* RemoveChild takes old out, and all below it.
LEMMA RemoveKids ==
    ASSUME NEW t, WellLinked(t), NEW F, AllKids(t, F), NEW this \in t.alive,
           NEW old \in t.alive, t.parent[old] = this,
           NEW i \in 1 .. Len(F[this]), F[this][i] = old,
           NEW u, u = Delete(Unlink(t, this, old), Subtree(t, old))
    PROVE  \E G : AllKids(u, G) /\ Removes(t, F, u, G, this, i, old)
<1> DEFINE S == Subtree(t, old)
           H == CopiedTo(F, <<>>, S)
           f == F[this]
           g == RemoveAt(f, i)
           K == [H EXCEPT ![this] = g]
<1>1. IsSubtree(t, old, S) /\ t \in Tree /\ this \in Nodes /\ old \in Nodes
  BY SubtreeIs, Fields DEF WellLinked
<1>2. OfNodes(H) /\ \A p \in Nodes : H[p] = IF p \in S THEN <<>> ELSE CopiedTo(F, <<>>, {})[p]
  BY CopiedGone
<1>3. \A p \in Nodes : H[p] = IF p \in S THEN <<>> ELSE F[p]
  BY <1>2, CopiedNone
<1>4. K = [CopiedTo(F, <<>>, Subtree(t, old)) EXCEPT ![this] = RemoveAt(F[this], i)]
  BY DEF K, g, f, H, S
<1>5. u = Delete(Unlink(t, this, old), S)
  OBVIOUS
<1> HIDE DEF S, H, g, K
<1>6. IsKids(t, this, f) /\ \A p \in Nodes : IsKids(t, p, F[p])
  BY <1>1, KidsOf
<1>7. /\ IsKids(u, this, g) /\ this \notin S
      /\ \A p \in Nodes : p \in S => IsKids(u, p, <<>>)
      /\ \A p \in Nodes : \A h : p # this /\ p \notin S /\ IsKids(t, p, h) => IsKids(u, p, h)
  <2> HIDE DEF f
  <2>1. i \in 1 .. Len(f) /\ f[i] = old
    BY DEF f
  <2> QED
    BY <1>1, <1>5, <1>6, <2>1, RemovedKids DEF g
<1>8. \A p \in Nodes : p # this => IsKids(u, p, H[p])
  BY <1>3, <1>6, <1>7
<1>9. AllKids(u, K)
  BY <1>1, <1>2, <1>7, <1>8, KidsBut DEF K
<1>10. u.alive = t.alive \ S
  <2> DEFINE s == Unlink(t, this, old)
  <2>1. Unlinked(t, this, old, s)
    BY <1>1, UnlinkFields
  <2> HIDE DEF s
  <2>2. s \in Tree /\ s.alive = t.alive /\ u = Delete(s, S)
    BY <1>5, <2>1 DEF Unlinked, s
  <2> QED
    BY <2>2, DeleteFields
<1>11. Removes(t, F, u, K, this, i, old)
  BY <1>4, <1>10 DEF Removes, S
<1> QED
  BY <1>9, <1>11

\* Clear takes all children out, and all below them.
LEMMA ClearKids ==
    ASSUME NEW t, WellLinked(t), NEW F, AllKids(t, F), NEW this \in t.alive,
           NEW e, e = Delete(t, Subtree(t, this) \ {this}),
           NEW u, u = [e EXCEPT !.firstChild[this] = NULL, !.lastChild[this] = NULL]
    PROVE  \E G : AllKids(u, G) /\ Clears(t, F, u, G, this)
<1> DEFINE S == Subtree(t, this)
           H == CopiedTo(F, <<>>, S)
<1>1. IsSubtree(t, this, S) /\ t \in Tree /\ this \in Nodes /\ this \in S
  BY SubtreeIs, Fields DEF WellLinked, IsSubtree
<1>2. OfNodes(H) /\ \A p \in Nodes : H[p] = IF p \in S THEN <<>> ELSE CopiedTo(F, <<>>, {})[p]
  BY CopiedGone
<1>3. \A p \in Nodes : H[p] = IF p \in S THEN <<>> ELSE F[p]
  BY <1>2, CopiedNone
<1>4. Cleared(t, this, S, u)
  BY <1>1, ClearFields
<1>5. u.alive = t.alive \ (S \ {this})
  <2>1. e \in Tree /\ e.alive = t.alive \ (S \ {this})
    BY <1>1, DeleteFields
  <2> QED
    BY <2>1
<1> HIDE DEF S, H
<1>6. \A p \in Nodes : IsKids(t, p, F[p])
  BY KidsOf
<1>7. /\ \A p \in Nodes : p \in S => IsKids(u, p, <<>>)
      /\ \A p \in Nodes : \A h : p \notin S /\ IsKids(t, p, h) => IsKids(u, p, h)
  BY <1>1, <1>4, ClearedKids
<1>8. \A p \in Nodes : IsKids(u, p, H[p])
  BY <1>3, <1>6, <1>7
<1>9. \A p \in Nodes : H[p] \in Seq(Nodes)
  BY <1>8 DEF IsKids
<1>10. AllKids(u, H)
  BY <1>2, <1>8, <1>9 DEF AllKids, OfNodes
<1>11. Clears(t, F, u, H, this)
  BY <1>5 DEF Clears, H, S
<1> QED
  BY <1>10, <1>11

\* The sequences the pointers of t make.
ChildrenIn(t) == [n \in Nodes |-> ChildrenOf(t, n)]

\* The children of every node, when the links are right.
LEMMA KidsAre ==
    ASSUME NEW t, NEW F, AllKids(t, F)
    PROVE  ChildrenIn(t) = F
<1>1. F \in [Nodes -> Seq(Nodes)] /\ \A p \in Nodes : IsKids(t, p, F[p])
  BY DEF AllKids
<1>2. \A p \in Nodes : ChildrenOf(t, p) = F[p]
  BY <1>1, ChildrenAre
<1>3. F = [n \in Nodes |-> F[n]]
  BY <1>1
<1>4. ChildrenIn(t) = [n \in Nodes |-> F[n]]
  BY <1>2 DEF ChildrenIn
<1> QED
  BY <1>3, <1>4

\* The parts of XmlChildren, with these.
LEMMA SameParts ==
    ASSUME NEW x
    PROVE  /\ Children!Below(x) = BelowIn(ChildrenIn(tree), x)
           /\ \A at, gone : Children!Copied(at, gone) = CopiedTo(ChildrenIn(tree), at, gone)
           /\ \A at : Children!Places(at) = {at[m] : m \in DOMAIN at}
           /\ \A this, c : Children!Index(this, c) =
                  CHOOSE k \in DOMAIN ChildrenIn(tree)[this] : ChildrenIn(tree)[this][k] = c
<1>1. Children!Below(x) = BelowIn(ChildrenIn(tree), x)
  BY Zenon DEF Children!Below, BelowIn, ChildrenIn, Children!ToSet, ToSet, Children!Cardinality, Cardinality
<1>2. ASSUME NEW at, NEW gone PROVE Children!Copied(at, gone) = CopiedTo(ChildrenIn(tree), at, gone)
  BY Zenon DEF Children!Copied, CopiedTo, ChildrenIn
<1>3. ASSUME NEW at PROVE Children!Places(at) = {at[m] : m \in DOMAIN at}
  BY Zenon DEF Children!Places
<1>4. ASSUME NEW this, NEW c
      PROVE  Children!Index(this, c) = CHOOSE k \in DOMAIN ChildrenIn(tree)[this] : ChildrenIn(tree)[this][k] = c
  BY Zenon DEF Children!Index, ChildrenIn
<1> QED
  BY <1>1, <1>2, <1>3, <1>4

\* ... and what is known of them.
LEMMA PartsAre ==
    ASSUME WellLinked(tree), NEW F, AllKids(tree, F), NEW x \in tree.alive
    PROVE  /\ Children!Below(x) = Subtree(tree, x)
           /\ Children!CopiesAt(x) = Places(tree, x)
           /\ \A at, gone : Children!Copied(at, gone) = CopiedTo(F, at, gone)
           /\ \A at : Children!Places(at) = {at[m] : m \in DOMAIN at}
<1>1. ChildrenIn(tree) = F
  BY KidsAre
<1>2. Children!Below(x) = Subtree(tree, x)
  BY <1>1, SameParts, BelowIs
<1>3. Children!CopiesAt(x) = Places(tree, x)
  BY <1>2 DEF Children!CopiesAt, Places
<1> QED
  BY <1>1, <1>2, <1>3, SameParts

\* A child has a number.
LEMMA IndexIs ==
    ASSUME NEW F, AllKids(tree, F), NEW this \in Nodes, NEW c \in Nodes, tree.parent[c] = this
    PROVE  \E i \in 1 .. Len(F[this]) : F[this][i] = c /\ Children!Index(this, c) = i
<1> DEFINE f == F[this]
<1>1. ChildrenIn(tree)[this] = f
  BY KidsAre
<1>2. IsKids(tree, this, f)
  BY KidsOf
<1> HIDE DEF f
<1>3. /\ f \in Seq(Nodes)
      /\ \A i, j \in 1 .. Len(f) : f[i] = f[j] => i = j
      /\ \A d \in Nodes : tree.parent[d] = this => \E i \in 1 .. Len(f) : f[i] = d
  BY <1>2, KidsParts
<1>4. PICK i \in 1 .. Len(f) : f[i] = c
  BY <1>3
<1>5. DOMAIN f = 1 .. Len(f)
  BY <1>3
<1>6. Children!Index(this, c) = CHOOSE k \in DOMAIN f : f[k] = c
  BY <1>1, SameParts
<1>7. (CHOOSE k \in DOMAIN f : f[k] = c) = i
  BY <1>3, <1>4, <1>5
<1> QED
  BY <1>4, <1>6, <1>7 DEF f

\* Every node has a sequence of children.
KidsInv == \E F : AllKids(tree, F)

\* Such an insertion is the one of XmlChildren.
LEMMA InsertedCopy ==
    ASSUME WellLinked(tree), NEW F, AllKids(tree, F), NEW this \in tree.alive, NEW x \in tree.alive,
           NEW k, NEW G, AllKids(tree', G), Inserts(tree, F, tree', G, this, k, x)
    PROVE  Children!InsertCopy(this, k, x)
<1>1. PICK at \in Places(tree, x) :
          /\ tree'.alive = tree.alive \cup {at[m] : m \in DOMAIN at}
          /\ G = [CopiedTo(F, at, {}) EXCEPT ![this] = InsertAt(F[this], k, at[x])]
  BY DEF Inserts
<1>2. at \in Children!CopiesAt(x)
  BY PartsAre
<1>3. tree'.alive = tree.alive \cup Children!Places(at)
  BY <1>1, PartsAre
<1>4. ChildrenIn(tree) = F /\ ChildrenIn(tree') = G
  BY KidsAre
<1>5. Children!Copied(at, {}) = CopiedTo(F, at, {})
  BY PartsAre
<1>6. ChildrenIn(tree') = [Children!Copied(at, {}) EXCEPT
                         ![this] = Children!InsertAt(ChildrenIn(tree)[this], k, at[x])]
  BY <1>1, <1>4, <1>5, SameOperators
<1> QED
  BY <1>2, <1>3, <1>6 DEF Children!InsertCopy, ChildrenIn

\* InsertEndChild makes a copy the last child.
LEMMA EndChildInChildren ==
    ASSUME WellLinked(tree), KidsInv, NEW this \in tree.alive, NEW x \in tree.alive, x # doc,
           InsertEndChild(this, x)
    PROVE  KidsInv' /\ Children!InsertEndChild(this, x)
<1>1. PICK F : AllKids(tree, F)
  BY DEF KidsInv
<1>2. PICK at \in Places(tree, x) : tree' = LinkEndChild(Clone(tree, x, at), this, at[x])
  BY DEF InsertEndChild
<1>3. PICK G : AllKids(tree', G) /\ Inserts(tree, F, tree', G, this, Len(F[this]) + 1, x)
  BY <1>1, <1>2, EndChildKids
<1>4. Children!InsertCopy(this, Len(F[this]) + 1, x)
  BY <1>1, <1>3, InsertedCopy
<1>5. ChildrenIn(tree) = F
  BY <1>1, KidsAre
<1>6. Children!InsertCopy(this, Len(ChildrenIn(tree)[this]) + 1, x)
  BY <1>4, <1>5
<1>7. Children!InsertEndChild(this, x)
  BY <1>6 DEF Children!InsertEndChild, ChildrenIn
<1> QED
  BY <1>3, <1>7 DEF KidsInv

\* InsertBeforeChild makes a copy the child before.
LEMMA BeforeChildInChildren ==
    ASSUME WellLinked(tree), KidsInv, NEW this \in tree.alive, NEW x \in tree.alive, x # doc,
           NEW b \in tree.alive, InsertBeforeChild(this, b, x)
    PROVE  KidsInv' /\ Children!InsertBeforeChild(this, b, x)
<1>1. PICK F : AllKids(tree, F)
  BY DEF KidsInv
<1>2. /\ tree.parent[b] = this
      /\ \E at \in Places(tree, x) : tree' = LinkBefore(Clone(tree, x, at), this, b, at[x])
  BY DEF InsertBeforeChild
<1>3. this \in Nodes /\ b \in Nodes
  BY Fields DEF WellLinked
<1>4. PICK i \in 1 .. Len(F[this]) : F[this][i] = b /\ Children!Index(this, b) = i
  BY <1>1, <1>2, <1>3, IndexIs
<1>5. PICK at \in Places(tree, x) : tree' = LinkBefore(Clone(tree, x, at), this, b, at[x])
  BY <1>2
<1>6. PICK G : AllKids(tree', G) /\ Inserts(tree, F, tree', G, this, i, x)
  BY <1>1, <1>2, <1>4, <1>5, BeforeChildKids
<1>7. Children!InsertCopy(this, Children!Index(this, b), x)
  BY <1>1, <1>4, <1>6, InsertedCopy
<1>8. Children!InsertBeforeChild(this, b, x)
  BY <1>7 DEF Children!InsertBeforeChild
<1> QED
  BY <1>6, <1>8 DEF KidsInv

\* InsertAfterChild makes a copy the child behind.
LEMMA AfterChildInChildren ==
    ASSUME WellLinked(tree), KidsInv, NEW this \in tree.alive, NEW x \in tree.alive, x # doc,
           NEW a \in tree.alive, InsertAfterChild(this, a, x)
    PROVE  KidsInv' /\ Children!InsertAfterChild(this, a, x)
<1>1. PICK F : AllKids(tree, F)
  BY DEF KidsInv
<1>2. /\ tree.parent[a] = this
      /\ \E at \in Places(tree, x) : tree' = LinkAfter(Clone(tree, x, at), this, a, at[x])
  BY DEF InsertAfterChild
<1>3. this \in Nodes /\ a \in Nodes
  BY Fields DEF WellLinked
<1>4. PICK i \in 1 .. Len(F[this]) : F[this][i] = a /\ Children!Index(this, a) = i
  BY <1>1, <1>2, <1>3, IndexIs
<1>5. PICK at \in Places(tree, x) : tree' = LinkAfter(Clone(tree, x, at), this, a, at[x])
  BY <1>2
<1>6. PICK G : AllKids(tree', G) /\ Inserts(tree, F, tree', G, this, i + 1, x)
  BY <1>1, <1>2, <1>4, <1>5, AfterChildKids
<1>7. Children!InsertCopy(this, Children!Index(this, a) + 1, x)
  BY <1>1, <1>4, <1>6, InsertedCopy
<1>8. Children!InsertAfterChild(this, a, x)
  BY <1>7 DEF Children!InsertAfterChild
<1> QED
  BY <1>6, <1>8 DEF KidsInv

\* ReplaceChild puts a copy in the place of a child.
LEMMA ReplaceInChildren ==
    ASSUME WellLinked(tree), KidsInv, NEW this \in tree.alive, NEW x \in tree.alive, x # doc,
           NEW old \in tree.alive, ReplaceChild(this, old, x)
    PROVE  KidsInv' /\ Children!ReplaceChild(this, old, x)
<1>1. PICK F : AllKids(tree, F)
  BY DEF KidsInv
<1>2. /\ tree.parent[old] = this
      /\ \E at \in Places(tree, x) :
             tree' = Delete(Substitute(Clone(tree, x, at), this, old, at[x]), Subtree(tree, old))
  BY DEF ReplaceChild
<1>3. this \in Nodes /\ old \in Nodes
  BY Fields DEF WellLinked
<1>4. PICK i \in 1 .. Len(F[this]) : F[this][i] = old /\ Children!Index(this, old) = i
  BY <1>1, <1>2, <1>3, IndexIs
<1>5. PICK at \in Places(tree, x) :
          tree' = Delete(Substitute(Clone(tree, x, at), this, old, at[x]), Subtree(tree, old))
  BY <1>2
<1>6. PICK G : AllKids(tree', G) /\ Replaces(tree, F, tree', G, this, i, old, x)
  BY <1>1, <1>2, <1>4, <1>5, ReplaceKids
<1>7. PICK to \in Places(tree, x) :
          /\ tree'.alive = (tree.alive \cup {to[m] : m \in DOMAIN to}) \ Subtree(tree, old)
          /\ G = [CopiedTo(F, to, Subtree(tree, old)) EXCEPT ![this] = [F[this] EXCEPT ![i] = to[x]]]
  BY <1>6 DEF Replaces
<1>8. to \in Children!CopiesAt(x) /\ Children!Below(old) = Subtree(tree, old)
  BY <1>1, PartsAre
<1>9. tree'.alive = (tree.alive \cup Children!Places(to)) \ Children!Below(old)
  BY <1>1, <1>7, <1>8, PartsAre
<1>10. ChildrenIn(tree) = F /\ ChildrenIn(tree') = G
  BY <1>1, <1>6, KidsAre
<1>11. Children!Copied(to, Children!Below(old)) = CopiedTo(F, to, Subtree(tree, old))
  BY <1>1, <1>8, PartsAre
<1>12. ChildrenIn(tree') = [Children!Copied(to, Children!Below(old)) EXCEPT
                         ![this] = [ChildrenIn(tree)[this] EXCEPT ![Children!Index(this, old)] = to[x]]]
  BY <1>4, <1>7, <1>10, <1>11
<1>13. Children!ReplaceChild(this, old, x)
  BY <1>8, <1>9, <1>12 DEF Children!ReplaceChild, ChildrenIn
<1> QED
  BY <1>6, <1>13 DEF KidsInv

\* RemoveChild takes a child, and all below it, away.
LEMMA RemoveInChildren ==
    ASSUME WellLinked(tree), KidsInv, NEW this \in tree.alive, NEW old \in tree.alive,
           RemoveChild(this, old)
    PROVE  KidsInv' /\ Children!RemoveChild(this, old)
<1>1. PICK F : AllKids(tree, F)
  BY DEF KidsInv
<1>2. tree.parent[old] = this /\ tree' = Delete(Unlink(tree, this, old), Subtree(tree, old))
  BY DEF RemoveChild
<1>3. this \in Nodes /\ old \in Nodes
  BY Fields DEF WellLinked
<1>4. PICK i \in 1 .. Len(F[this]) : F[this][i] = old /\ Children!Index(this, old) = i
  BY <1>1, <1>2, <1>3, IndexIs
<1>5. PICK G : AllKids(tree', G) /\ Removes(tree, F, tree', G, this, i, old)
  BY <1>1, <1>2, <1>4, RemoveKids
<1>6. /\ tree'.alive = tree.alive \ Subtree(tree, old)
      /\ G = [CopiedTo(F, <<>>, Subtree(tree, old)) EXCEPT ![this] = RemoveAt(F[this], i)]
  BY <1>5 DEF Removes
<1>7. Children!Below(old) = Subtree(tree, old)
  BY <1>1, PartsAre
<1>8. ChildrenIn(tree) = F /\ ChildrenIn(tree') = G
  BY <1>1, <1>5, KidsAre
<1>9. Children!Copied(<<>>, Children!Below(old)) = CopiedTo(F, <<>>, Subtree(tree, old))
  BY <1>1, <1>7, PartsAre
<1>10. ChildrenIn(tree') = [Children!Copied(<<>>, Children!Below(old)) EXCEPT
                          ![this] = Children!RemoveAt(ChildrenIn(tree)[this], Children!Index(this, old))]
  BY <1>4, <1>6, <1>8, <1>9, SameOperators
<1>11. Children!RemoveChild(this, old)
  BY <1>6, <1>7, <1>10 DEF Children!RemoveChild, ChildrenIn
<1> QED
  BY <1>5, <1>11 DEF KidsInv

\* Clear leaves a node without children.
LEMMA ClearInChildren ==
    ASSUME WellLinked(tree), KidsInv, NEW this \in tree.alive, Clear(this)
    PROVE  KidsInv' /\ Children!Clear(this)
<1>1. PICK F : AllKids(tree, F)
  BY DEF KidsInv
<1>2. tree' = [Delete(tree, Subtree(tree, this) \ {this}) EXCEPT
                  !.firstChild[this] = NULL, !.lastChild[this] = NULL]
  BY Zenon DEF Clear
<1>3. PICK G : AllKids(tree', G) /\ Clears(tree, F, tree', G, this)
  BY <1>1, <1>2, ClearKids
<1>4. /\ tree'.alive = tree.alive \ (Subtree(tree, this) \ {this})
      /\ G = CopiedTo(F, <<>>, Subtree(tree, this))
  BY <1>3 DEF Clears
<1>5. Children!Below(this) = Subtree(tree, this)
  BY <1>1, PartsAre
<1>6. ChildrenIn(tree') = G
  BY <1>3, KidsAre
<1>7. Children!Copied(<<>>, Children!Below(this)) = CopiedTo(F, <<>>, Subtree(tree, this))
  BY <1>1, <1>5, PartsAre
<1>8. Children!Clear(this)
  BY <1>4, <1>5, <1>6, <1>7 DEF Children!Clear, ChildrenIn
<1> QED
  BY <1>3, <1>8 DEF KidsInv

\* The document and le_nouveau have no children yet,
LEMMA KidsStart == TreeInit => KidsInv
<1> SUFFICES ASSUME TreeInit PROVE KidsInv
  OBVIOUS
<1> DEFINE F == [n \in Nodes |-> <<>>]
<1>1. \A n \in Nodes : tree.parent[n] = NULL /\ tree.firstChild[n] = NULL
  BY DEF TreeInit, NoPointers
<1>2. NULL \notin Nodes
  BY TreeAssumption
<1>3. ASSUME NEW p \in Nodes PROVE IsKids(tree, p, <<>>)
  <2>1. \A c \in Nodes : tree.parent[c] # p
    BY <1>1, <1>2
  <2> QED
    BY <1>1, <2>1, NoKids
<1>4. F \in [Nodes -> Seq(Nodes)] /\ \A p \in Nodes : F[p] = <<>>
  OBVIOUS
<1> HIDE DEF F
<1>5. AllKids(tree, F)
  BY <1>3, <1>4 DEF AllKids
<1> QED
  BY <1>5 DEF KidsInv

\* and every operation keeps sequences of children.
LEMMA KidsStay ==
    ASSUME WellLinked(tree), KidsInv, TreeNext
    PROVE  KidsInv'
<1>1. CASE tree' = tree
  BY <1>1 DEF KidsInv
<1>2. ASSUME NEW this \in tree.alive, NEW x \in tree.alive, InsertEndChild(this, x)
      PROVE  KidsInv'
  <2>1. CASE x = doc
    BY <1>1, <1>2, <2>1 DEF InsertEndChild, TopOnly
  <2>2. CASE x # doc
    BY <1>2, <2>2, EndChildInChildren
  <2> QED
    BY <2>1, <2>2
<1>3. ASSUME NEW this \in tree.alive, NEW old \in tree.alive, RemoveChild(this, old)
      PROVE  KidsInv'
  BY <1>3, RemoveInChildren
<1>4. ASSUME NEW this \in tree.alive, NEW c \in tree.alive, NEW x \in tree.alive,
             InsertBeforeChild(this, c, x)
      PROVE  KidsInv'
  <2>1. CASE x = doc
    BY <1>1, <1>4, <2>1 DEF InsertBeforeChild, TopOnly
  <2>2. CASE x # doc
    BY <1>4, <2>2, BeforeChildInChildren
  <2> QED
    BY <2>1, <2>2
<1>5. ASSUME NEW this \in tree.alive, NEW c \in tree.alive, NEW x \in tree.alive,
             InsertAfterChild(this, c, x)
      PROVE  KidsInv'
  <2>1. CASE x = doc
    BY <1>1, <1>5, <2>1 DEF InsertAfterChild, TopOnly
  <2>2. CASE x # doc
    BY <1>5, <2>2, AfterChildInChildren
  <2> QED
    BY <2>1, <2>2
<1>6. ASSUME NEW this \in tree.alive, NEW c \in tree.alive, NEW x \in tree.alive,
             ReplaceChild(this, c, x)
      PROVE  KidsInv'
  <2>1. CASE x = doc
    BY <1>1, <1>6, <2>1 DEF ReplaceChild, TopOnly
  <2>2. CASE x # doc
    BY <1>6, <2>2, ReplaceInChildren
  <2> QED
    BY <2>1, <2>2
<1>7. ASSUME NEW this \in tree.alive, Clear(this)
      PROVE  KidsInv'
  BY <1>7, ClearInChildren
<1> QED
  BY <1>2, <1>3, <1>4, <1>5, <1>6, <1>7 DEF TreeNext

(***************************************************************************)
(* TiXmlNode keeps, with its five pointers, the sequences of children of   *)
(* XmlChildren: in every tree its operations build, each of them changes   *)
(* the order of the children of one node only, in the place asked for, and *)
(* copies or deletes with a node exactly what is below it, however many    *)
(* nodes there are.                                                        *)
(***************************************************************************)
THEOREM ChildrenAreKept == Spec => KeepsChildren
<1> DEFINE Inv == TreeLinked /\ KidsInv
<1>1. Init => Inv
  BY StartsLinked, KidsStart DEF Init
<1>2. Inv /\ [Next]_xmlVars => Inv'
  <2> SUFFICES ASSUME TreeLinked, KidsInv, [Next]_xmlVars PROVE TreeLinked' /\ KidsInv'
    OBVIOUS
  <2>1. TreeNext \/ UNCHANGED treeVars
    BY DEF Next, xmlVars, TypeCharacter, TypeName, AddElement, ChangeTree, ChangeAttributes
  <2>2. TreeLinked'
    BY <2>1, StaysLinked
  <2>3. CASE TreeNext
    BY <2>2, <2>3, KidsStay DEF TreeLinked
  <2>4. CASE UNCHANGED treeVars
    BY <2>2, <2>4 DEF treeVars, KidsInv
  <2> QED
    BY <2>1, <2>3, <2>4
<1>3. Inv =>
          [\A this, x \in tree.alive :
             /\ x # doc /\ InsertEndChild(this, x) => Children!InsertEndChild(this, x)
             /\ Clear(this) => Children!Clear(this)
             /\ RemoveChild(this, x) => Children!RemoveChild(this, x)
             /\ \A c \in {n \in tree.alive : tree.parent[n] = this /\ x # doc} :
                   /\ InsertBeforeChild(this, c, x) => Children!InsertBeforeChild(this, c, x)
                   /\ InsertAfterChild(this, c, x) => Children!InsertAfterChild(this, c, x)
                   /\ ReplaceChild(this, c, x) => Children!ReplaceChild(this, c, x)
           ]_treeVars
  <2> SUFFICES ASSUME TreeLinked, KidsInv, NEW this \in tree.alive, NEW x \in tree.alive
               PROVE  /\ x # doc /\ InsertEndChild(this, x) => Children!InsertEndChild(this, x)
                      /\ Clear(this) => Children!Clear(this)
                      /\ RemoveChild(this, x) => Children!RemoveChild(this, x)
                      /\ \A c \in {n \in tree.alive : tree.parent[n] = this /\ x # doc} :
                            /\ InsertBeforeChild(this, c, x) => Children!InsertBeforeChild(this, c, x)
                            /\ InsertAfterChild(this, c, x) => Children!InsertAfterChild(this, c, x)
                            /\ ReplaceChild(this, c, x) => Children!ReplaceChild(this, c, x)
    OBVIOUS
  <2>0. WellLinked(tree)
    BY DEF TreeLinked
  <2>1. x # doc /\ InsertEndChild(this, x) => Children!InsertEndChild(this, x)
    BY <2>0, EndChildInChildren
  <2>2. Clear(this) => Children!Clear(this)
    BY <2>0, ClearInChildren
  <2>3. RemoveChild(this, x) => Children!RemoveChild(this, x)
    BY <2>0, RemoveInChildren
  <2>4. ASSUME NEW c \in {n \in tree.alive : tree.parent[n] = this /\ x # doc}
        PROVE  /\ InsertBeforeChild(this, c, x) => Children!InsertBeforeChild(this, c, x)
               /\ InsertAfterChild(this, c, x) => Children!InsertAfterChild(this, c, x)
               /\ ReplaceChild(this, c, x) => Children!ReplaceChild(this, c, x)
    <3>1. c \in tree.alive /\ x # doc
      OBVIOUS
    <3> QED
      BY <2>0, <3>1, BeforeChildInChildren, AfterChildInChildren, ReplaceInChildren
  <2> QED
    BY <2>1, <2>2, <2>3, <2>4
<1> QED
  BY <1>1, <1>2, <1>3, PTL DEF Spec, KeepsChildren
=============================================================================

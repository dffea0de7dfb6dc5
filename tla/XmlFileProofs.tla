---------------------------- MODULE XmlFileProofs ---------------------------
(***************************************************************************)
(* What LoadFile reads of what SaveFile has written, of any document and of*)
(* any beginning of its text.                                              *)
(*                                                                         *)
(* 1. The parsers are functions on the positions of a text.  They exist,   *)
(* since reading at a position asks only for what is read further on.      *)
(* 2. The print of an element is laid out: its name, attributes, children  *)
(* and end tag are at known places.                                        *)
(* 3. BegunReads: from a text that has the print of an element from m on,  *)
(* as far as the text goes, ElementParse makes the element if all of it is *)
(* there, else an unknown node or a part of the element.  Its children are *)
(* assumed to be read so, which gives it for users, then for configurations*)
(* and then for the root.                                                  *)
(* 4. What the window sees of such a part is what Cuts says can be left,   *)
(* and every such part is left by some beginning.                          *)
(***************************************************************************)
EXTENDS XmlProofs
-----------------------------------------------------------------------------
(* Attributes, ReadValue and DocumentParse are functions of positions, each given by those
   behind it. *)

AttributesStep(t, from, read, at) ==
    LET p == SkipWhiteSpace(t, at)
        next == AttributeParse(t, p)
        rest == read[next]
    IN  CASE ~Readable(t, p) -> Failed
          [] Is(t, p, "slash") \/ Is(t, p, "gt") -> Result(p, <<>>, <<>>, FALSE)
          [] OTHER ->
               IF \/ next = Nowhere
                  \/ \E k \in from .. p - 1 : Is(t, k, "attribute") /\ t[k].name = t[p].name
               THEN Failed
               ELSE Result(rest.p, <<Attribute(t[p].name, t[p].value)>> \o rest.attributes,
                           <<>>, rest.error)

IsAttributes(t, from, read) ==
    read = [at \in 0 .. Len(t) + 1 |-> AttributesStep(t, from, read, at)]
AttributesOf(t, from) == CHOOSE read : IsAttributes(t, from, read)

\* Where the next piece is.
LEMMA Skipped ==
    ASSUME NEW S, NEW t \in Seq(S), NEW at \in 0 .. Len(t) + 1
    PROVE  /\ SkipWhiteSpace(t, at) \in {0, at, at + 1}
           /\ Readable(t, SkipWhiteSpace(t, at)) =>
                  at # 0 /\ SkipWhiteSpace(t, at) \in at .. Len(t)
           /\ ~ Readable(t, 0)
<1>1. Len(t) \in Nat
  OBVIOUS
<1>2. CASE ~ Readable(t, at)
  <2>1. SkipWhiteSpace(t, at) = 0
    <3>1. ~ Is(t, at, "space")
      BY <1>2 DEF Is
    <3> QED
      BY <1>2, <3>1 DEF SkipWhiteSpace, Nowhere
  <2> QED
    BY <2>1 DEF Readable, Nowhere
<1>3. CASE Readable(t, at)
  <2>1. SkipWhiteSpace(t, at) \in {at, at + 1}
    <3>1. CASE Is(t, at, "space")
      BY <1>3, <3>1 DEF SkipWhiteSpace
    <3>2. CASE ~ Is(t, at, "space")
      BY <1>3, <3>2 DEF SkipWhiteSpace
    <3> QED
      BY <3>1, <3>2
  <2>2. at # 0 /\ at <= Len(t)
    BY <1>3 DEF Readable, Nowhere
  <2> QED
    BY <1>1, <2>1, <2>2 DEF Readable, Nowhere
<1> QED
  BY <1>2, <1>3

\* An attribute is read to a place further on, or to the end.
LEMMA AttributeNext ==
    ASSUME NEW S, NEW t \in Seq(S), NEW at \in 0 .. Len(t) + 1
    PROVE  AttributeParse(t, SkipWhiteSpace(t, at)) \in {0} \cup (at + 1) .. Len(t)
<1> DEFINE p == SkipWhiteSpace(t, at)
<1>1. Len(t) \in Nat /\ p \in {0, at, at + 1} /\ (Readable(t, p) => p \in at .. Len(t))
  BY Skipped
<1> HIDE DEF p
<1>2. AttributeParse(t, p) = IF Is(t, p, "attribute") /\ ~ t[p].cut /\ p < Len(t) THEN p + 1 ELSE 0
  BY DEF AttributeParse, Nowhere
<1>3. CASE Is(t, p, "attribute") /\ ~ t[p].cut /\ p < Len(t)
  <2>1. p \in at .. Len(t) /\ AttributeParse(t, p) = p + 1
    BY <1>1, <1>2, <1>3 DEF Is
  <2> QED
    BY <1>1, <1>3, <2>1 DEF p
<1>4. CASE ~ (Is(t, p, "attribute") /\ ~ t[p].cut /\ p < Len(t))
  BY <1>2, <1>4 DEF p
<1> QED
  BY <1>3, <1>4

\* Reading attributes asks only for what is read further on.
LEMMA AttributesStepLocal ==
    ASSUME NEW S, NEW t \in Seq(S), NEW from, NEW at \in 0 .. Len(t) + 1, NEW f, NEW g,
           \A k \in {0} \cup (at + 1) .. (Len(t) + 1) : f[k] = g[k]
    PROVE  AttributesStep(t, from, f, at) = AttributesStep(t, from, g, at)
<1> DEFINE next == AttributeParse(t, SkipWhiteSpace(t, at))
<1>1. next \in {0} \cup (at + 1) .. (Len(t) + 1)
  <2>1. next \in {0} \cup (at + 1) .. Len(t)
    BY AttributeNext
  <2> HIDE DEF next
  <2> QED
    BY <2>1
<1>2. f[next] = g[next]
  <2> HIDE DEF next
  <2> QED
    BY <1>1
<1> QED
  BY <1>2, Zenon DEF AttributesStep

\* At the NULL pointer, and behind the end.
LEMMA AttributesStepEnd ==
    ASSUME NEW S, NEW t \in Seq(S), NEW from, NEW f
    PROVE  AttributesStep(t, from, f, 0) = Failed
<1>1. ~ Readable(t, SkipWhiteSpace(t, 0))
  <2>1. 0 \in 0 .. Len(t) + 1
    OBVIOUS
  <2> QED
    BY <2>1, Skipped
<1>2. ~ Is(t, SkipWhiteSpace(t, 0), "slash") /\ ~ Is(t, SkipWhiteSpace(t, 0), "gt")
  BY <1>1 DEF Is
<1> QED
  BY <1>1, <1>2, Zenon DEF AttributesStep

\* So there is a function that reads the attributes from every place.
LEMMA AttributesExist ==
    ASSUME NEW S, NEW t \in Seq(S), NEW from
    PROVE  \E read : IsAttributes(t, from, read)
<1> DEFINE M == Len(t) + 1
           Step(f) == [p \in 0 .. M |-> AttributesStep(t, from, f, p)]
           Good(n, f) == \A p \in 0 .. M : p = 0 \/ p + n > M => f[p] = Step(f)[p]
           T == {n \in Nat : \E f : Good(n, f)}
<1>0. M \in Nat /\ M = Len(t) + 1
  OBVIOUS
<1>1. 0 \in T
  <2> DEFINE f == [p \in 0 .. M |-> Failed]
  <2>1. Good(0, f)
    <3>1. ASSUME NEW p \in 0 .. M, p = 0 \/ p + 0 > M PROVE p = 0
      BY <1>0, <3>1
    <3>2. Step(f)[0] = Failed
      BY <1>0, AttributesStepEnd
    <3>3. f[0] = Failed
      BY <1>0
    <3> QED
      BY <3>1, <3>2, <3>3
  <2> QED
    BY <2>1
<1>2. ASSUME NEW n \in Nat, n \in T
      PROVE  n + 1 \in T
  <2>1. PICK f : Good(n, f)
    BY <1>2
  <2>2. ASSUME NEW p \in 0 .. M, p = 0 \/ p + (n + 1) > M
        PROVE  Step(f)[p] = Step(Step(f))[p]
    <3>1. CASE p = 0
      <4>1. /\ AttributesStep(t, from, f, 0) = Failed
            /\ AttributesStep(t, from, Step(f), 0) = Failed
        BY AttributesStepEnd
      <4> QED
        BY <3>1, <4>1, <1>0
    <3>2. CASE p # 0
      <4>1. ASSUME NEW k \in {0} \cup (p + 1) .. M PROVE f[k] = Step(f)[k]
        <5>1. k \in 0 .. M /\ (k = 0 \/ k + n > M)
          BY <1>0, <2>2, <3>2
        <5> QED
          BY <5>1, <2>1
      <4>2. AttributesStep(t, from, f, p) = AttributesStep(t, from, Step(f), p)
        <5> HIDE DEF Step
        <5> QED
          BY <4>1, <1>0, AttributesStepLocal
      <4> QED
        BY <4>2
    <3> QED
      BY <3>1, <3>2
  <2>3. Good(n + 1, Step(f))
    BY <2>2
  <2> HIDE DEF Good
  <2> QED
    BY <2>3
<1>3. M + 1 \in T
  <2> HIDE DEF T
  <2> QED
    BY <1>0, <1>1, <1>2, NatAll
<1>4. PICK f : Good(M + 1, f)
  BY <1>3
<1>5. \A p \in 0 .. M : f[p] = Step(f)[p]
  BY <1>0, <1>4
<1>6. IsAttributes(t, from, Step(f))
  <2> DEFINE g == Step(f)
  <2>1. \A p \in 0 .. M : f[p] = g[p]
    BY <1>5
  <2>2. g = [p \in 0 .. M |-> AttributesStep(t, from, f, p)]
    OBVIOUS
  <2> HIDE DEF g
  <2>3. ASSUME NEW p \in 0 .. M
        PROVE  AttributesStep(t, from, f, p) = AttributesStep(t, from, g, p)
    <3>1. \A k \in {0} \cup (p + 1) .. M : f[k] = g[k]
      <4>1. {0} \cup (p + 1) .. M \subseteq 0 .. M
        BY <1>0
      <4> QED
        BY <4>1, <2>1
    <3> QED
      BY <3>1, <1>0, AttributesStepLocal
  <2>4. g = [p \in 0 .. M |-> AttributesStep(t, from, g, p)]
    BY <2>2, <2>3
  <2> QED
    BY <2>4 DEF IsAttributes, g
<1> QED
  BY <1>6

\* Attributes is that function.
LEMMA AttributesIs ==
    ASSUME NEW S, NEW t \in Seq(S), NEW from
    PROVE  /\ Attributes(t, from) = AttributesOf(t, from)[from]
           /\ \A at \in 0 .. Len(t) + 1 :
                  AttributesOf(t, from)[at] = AttributesStep(t, from, AttributesOf(t, from), at)
<1>1. IsAttributes(t, from, AttributesOf(t, from))
  BY AttributesExist DEF AttributesOf
<1>2. Attributes(t, from) = AttributesOf(t, from)[from]
  BY DEF Attributes, AttributesOf, IsAttributes, AttributesStep
<1>3. ASSUME NEW f, IsAttributes(t, from, f), NEW at \in 0 .. Len(t) + 1
      PROVE  f[at] = AttributesStep(t, from, f, at)
  BY <1>3 DEF IsAttributes
<1> QED
  BY <1>1, <1>2, <1>3

\* What holds of each place behind which it holds of all holds of all.
LEMMA Backward ==
    ASSUME NEW M \in Nat, NEW T,
           \A p \in 0 .. M : (\A k \in (p + 1) .. M : k \in T) => p \in T
    PROVE  \A p \in 0 .. M : p \in T
<1> DEFINE U == {n \in Nat : n <= M => M - n \notin T}
<1> SUFFICES ASSUME NEW q \in 0 .. M, q \notin T PROVE FALSE
  OBVIOUS
<1>1. PICK n \in {n \in U : n <= M} : \A m \in {i \in U : i <= M} : n <= m
  <2>1. M - q \in {n \in U : n <= M} /\ {n \in U : n <= M} \in SUBSET Nat
    OBVIOUS
  <2> HIDE DEF U
  <2> QED
    BY <2>1, NatMin
<1>2. M - n \in 0 .. M /\ M - n \notin T
  OBVIOUS
<1>3. ASSUME NEW k \in (M - n + 1) .. M PROVE k \in T
  <2>1. k \in Nat /\ M - k \in Nat /\ M - k <= M /\ M - (M - k) = k /\ M - k < n
    OBVIOUS
  <2>2. M - k \notin U
    BY <1>1, <2>1
  <2> QED
    BY <2>1, <2>2
<1> QED
  BY <1>2, <1>3

\* Results and their changes.
LEMMA ResultFields ==
    ASSUME NEW p, NEW a, NEW c, NEW e, NEW n, NEW node, NEW b
    PROVE  /\ Result(p, a, c, e).p = p /\ Result(p, a, c, e).attributes = a
           /\ Result(p, a, c, e).children = c /\ Result(p, a, c, e).error = e
           /\ Parsed(n, node, b).p = n /\ Parsed(n, node, b).node = node
           /\ Parsed(n, node, b).error = b
BY DEF Result, Parsed


\* The attributes end at "/" or ">", or with an error.
AttributesEnded(t, at, r) ==
    \E a : \/ r = Result(0, a, <<>>, TRUE)
           \/ \E p \in at .. Len(t) : /\ r = Result(p, a, <<>>, FALSE)
                                      /\ Is(t, p, "slash") \/ Is(t, p, "gt")

\* Attributes end at a slash or a gt further on, or with an error.
LEMMA AttributesShape ==
    ASSUME NEW S, NEW t \in Seq(S), NEW from
    PROVE  \A at \in 0 .. Len(t) + 1 : AttributesEnded(t, at, AttributesOf(t, from)[at])
<1> DEFINE M == Len(t) + 1
           f == AttributesOf(t, from)
           T == {at \in 0 .. M : AttributesEnded(t, at, f[at])}
<1>0. M \in Nat /\ M = Len(t) + 1 /\ Len(t) \in Nat
  OBVIOUS
<1>1. \A at \in 0 .. M : f[at] = AttributesStep(t, from, f, at)
  BY AttributesIs
<1> HIDE DEF f
<1>2. ASSUME NEW at \in 0 .. M, \A k \in (at + 1) .. M : AttributesEnded(t, k, f[k])
      PROVE  AttributesEnded(t, at, f[at])
  <2> DEFINE p == SkipWhiteSpace(t, at)
             next == AttributeParse(t, p)
             a == <<Attribute(t[p].name, t[p].value)>>
             twice == \E k \in from .. p - 1 : Is(t, k, "attribute") /\ t[k].name = t[p].name
  <2>0. AttributesStep(t, from, f, at) =
            CASE ~ Readable(t, p) -> Failed
              [] Is(t, p, "slash") \/ Is(t, p, "gt") -> Result(p, <<>>, <<>>, FALSE)
              [] OTHER -> IF next = Nowhere \/ twice THEN Failed
                          ELSE Result(f[next].p, a \o f[next].attributes, <<>>, f[next].error)
    BY Zenon DEF AttributesStep
  <2>1. (Readable(t, p) => p \in at .. Len(t)) /\ next \in {0} \cup (at + 1) .. Len(t)
    BY Skipped, AttributeNext
  <2>2. Failed = Result(0, <<>>, <<>>, TRUE)
    BY DEF Failed, Nowhere
  <2> HIDE DEF p, next, a, twice
  <2>3. CASE ~ Readable(t, p)
    <3>1. f[at] = Failed
      <4>1. ~ Is(t, p, "slash") /\ ~ Is(t, p, "gt")
        BY <2>3 DEF Is
      <4> QED
        BY <1>1, <2>0, <2>3, <4>1
    <3> QED
      BY <2>2, <3>1 DEF AttributesEnded
  <2>4. CASE Readable(t, p) /\ (Is(t, p, "slash") \/ Is(t, p, "gt"))
    <3>1. f[at] = Result(p, <<>>, <<>>, FALSE)
      BY <1>1, <2>0, <2>4
    <3> QED
      BY <2>1, <2>4, <3>1 DEF AttributesEnded
  <2>5. CASE /\ Readable(t, p) /\ ~ (Is(t, p, "slash") \/ Is(t, p, "gt"))
             /\ next = Nowhere \/ twice
    <3>1. f[at] = Failed
      BY <1>1, <2>0, <2>5
    <3> QED
      BY <2>2, <3>1 DEF AttributesEnded
  <2>6. CASE /\ Readable(t, p) /\ ~ (Is(t, p, "slash") \/ Is(t, p, "gt"))
             /\ ~ (next = Nowhere \/ twice)
    <3>1. f[at] = Result(f[next].p, a \o f[next].attributes, <<>>, f[next].error)
      BY <1>1, <2>0, <2>6
    <3>2. next \in (at + 1) .. M /\ next \in Nat
      BY <1>0, <2>1, <2>6 DEF Nowhere
    <3>3. AttributesEnded(t, next, f[next])
      BY <1>2, <3>2
    <3>4. PICK b : \/ f[next] = Result(0, b, <<>>, TRUE)
                   \/ \E q \in next .. Len(t) : /\ f[next] = Result(q, b, <<>>, FALSE)
                                                /\ Is(t, q, "slash") \/ Is(t, q, "gt")
      BY <3>3 DEF AttributesEnded
    <3>5. CASE f[next] = Result(0, b, <<>>, TRUE)
      <4>1. f[at] = Result(0, a \o b, <<>>, TRUE)
        BY <3>1, <3>5 DEF Result
      <4> QED
        BY <4>1 DEF AttributesEnded
    <3>6. CASE \E q \in next .. Len(t) : /\ f[next] = Result(q, b, <<>>, FALSE)
                                         /\ Is(t, q, "slash") \/ Is(t, q, "gt")
      <4>1. PICK q \in next .. Len(t) : /\ f[next] = Result(q, b, <<>>, FALSE)
                                        /\ Is(t, q, "slash") \/ Is(t, q, "gt")
        BY <3>6
      <4>2. f[at] = Result(q, a \o b, <<>>, FALSE)
        BY <3>1, <4>1 DEF Result
      <4>3. q \in at .. Len(t)
        BY <1>0, <3>2
      <4> QED
        BY <4>1, <4>2, <4>3 DEF AttributesEnded
    <3> QED
      BY <3>4, <3>5, <3>6
  <2> QED
    BY <2>3, <2>4, <2>5, <2>6
<1>3. \A at \in 0 .. M : (\A k \in (at + 1) .. M : k \in T) => at \in T
  <2> TAKE at \in 0 .. M
  <2>1. \A k \in (at + 1) .. M : k \in 0 .. M
    BY <1>0
  <2> QED
    BY <1>2, <2>1
<1>4. \A at \in 0 .. M : at \in T
  <2> HIDE DEF T
  <2> QED
    BY <1>0, <1>3, Backward
<1> QED
  BY <1>4 DEF f

\* The cases of TiXmlElement::Parse.
EndTagFollows(t, name, inside) ==
    /\ inside.p # Nowhere
    /\ t[inside.p].name = name /\ ~ t[inside.p].cut
    /\ Is(t, inside.p + 1, "gt")

\* The four ways ElementParse goes on behind a name.
LEMMA ElementCases ==
    ASSUME NEW t, NEW value, NEW p
    PROVE  /\ t[p].cut =>
                  ElementParse(t, value, p) = Unended(t[p].name, <<>>, <<>>)
           /\ ~ t[p].cut /\ Attributes(t, p + 1).error =>
                  ElementParse(t, value, p) = Unended(t[p].name, Attributes(t, p + 1).attributes, <<>>)
           /\ ~ t[p].cut /\ ~ Attributes(t, p + 1).error /\ Is(t, Attributes(t, p + 1).p, "slash") =>
                  ElementParse(t, value, p) =
                      IF Is(t, Attributes(t, p + 1).p + 1, "gt")
                      THEN Parsed(Attributes(t, p + 1).p + 2, Element(t[p].name, Attributes(t, p + 1).attributes, <<>>), FALSE)
                      ELSE Unended(t[p].name, Attributes(t, p + 1).attributes, <<>>)
           /\ ~ t[p].cut /\ ~ Attributes(t, p + 1).error /\ ~ Is(t, Attributes(t, p + 1).p, "slash") =>
                  ElementParse(t, value, p) =
                      IF EndTagFollows(t, t[p].name, value[Attributes(t, p + 1).p + 1])
                      THEN Parsed(value[Attributes(t, p + 1).p + 1].p + 2,
                                  Element(t[p].name, Attributes(t, p + 1).attributes, value[Attributes(t, p + 1).p + 1].children),
                                  value[Attributes(t, p + 1).p + 1].error)
                      ELSE Unended(t[p].name, Attributes(t, p + 1).attributes, value[Attributes(t, p + 1).p + 1].children)
<1>1. CASE t[p].cut
  BY <1>1, Zenon DEF ElementParse, EndTagFollows
<1>2. CASE ~ t[p].cut /\ Attributes(t, p + 1).error
  BY <1>2, Zenon DEF ElementParse, EndTagFollows
<1>3. CASE ~ t[p].cut /\ ~ Attributes(t, p + 1).error /\ Is(t, Attributes(t, p + 1).p, "slash")
  BY <1>3, Zenon DEF ElementParse, EndTagFollows
<1>4. CASE ~ t[p].cut /\ ~ Attributes(t, p + 1).error /\ ~ Is(t, Attributes(t, p + 1).p, "slash")
  BY <1>4, Zenon DEF ElementParse, EndTagFollows
<1> QED
  BY <1>1, <1>2, <1>3, <1>4, Zenon

\* The loop of ReadValue.
ValueStep(t, value, at) ==
    LET p == SkipWhiteSpace(t, at)
        child == NodeParse(t, value, p)
    IN  CASE ~Readable(t, p) -> Failed
          [] Is(t, p, "end") /\ t[p].name # "" -> Result(p, <<>>, <<>>, FALSE)
          [] OTHER -> WithChild(child, value[child.p])

IsValue(t, value) == value = [at \in 0 .. Len(t) + 1 |-> ValueStep(t, value, at)]
ValueOf(t) == CHOOSE value : IsValue(t, value)

\* What is read from a place on ends behind it, or nowhere.
EndsBehind(t, k, r) == r.p = 0 \/ (k # 0 /\ r.p \in k .. Len(t))

\* The attributes of an element end behind its name.
LEMMA AttributesBehind ==
    ASSUME NEW S, NEW t \in Seq(S), NEW p \in 1 .. Len(t)
    PROVE  LET r == Attributes(t, p + 1)
           IN  ~ r.error => r.p \in (p + 1) .. Len(t) /\ (Is(t, r.p, "slash") \/ Is(t, r.p, "gt"))
<1> DEFINE r == Attributes(t, p + 1)
<1>1. AttributesEnded(t, p + 1, r)
  <2>1. p + 1 \in 0 .. Len(t) + 1
    OBVIOUS
  <2> QED
    BY <2>1, AttributesIs, AttributesShape
<1> HIDE DEF r
<1>2. PICK a : \/ r = Result(0, a, <<>>, TRUE)
               \/ \E q \in (p + 1) .. Len(t) : /\ r = Result(q, a, <<>>, FALSE)
                                               /\ Is(t, q, "slash") \/ Is(t, q, "gt")
  BY <1>1 DEF AttributesEnded
<1>3. CASE r = Result(0, a, <<>>, TRUE)
  <2>1. r.error
    BY <1>3 DEF Result
  <2> QED
    BY <2>1 DEF r
<1>4. ASSUME NEW q \in (p + 1) .. Len(t), r = Result(q, a, <<>>, FALSE),
             Is(t, q, "slash") \/ Is(t, q, "gt")
      PROVE  r.p \in (p + 1) .. Len(t) /\ (Is(t, r.p, "slash") \/ Is(t, r.p, "gt"))
  <2>1. r.p = q
    BY <1>4 DEF Result
  <2> QED
    BY <1>4, <2>1
<1> QED
  BY <1>2, <1>3, <1>4 DEF r

\* Reading a node asks only for what is read further on, and ends further on or fails.
LEMMA NodeLocal ==
    ASSUME NEW S, NEW t \in Seq(S), NEW p \in 1 .. Len(t), NEW f, NEW g,
           \A k \in (p + 1) .. (Len(t) + 1) : f[k] = g[k] /\ EndsBehind(t, k, f[k])
    PROVE  /\ NodeParse(t, f, p) = NodeParse(t, g, p)
           /\ NodeParse(t, f, p).p \in {0} \cup (p + 1) .. (Len(t) + 1)
<1> DEFINE r == Attributes(t, p + 1)
           n == r.p + 1
           L == Len(t)
<1>0. L \in Nat /\ L = Len(t) /\ p \in Nat /\ p + 1 \in (p + 1) .. (L + 1)
  OBVIOUS
<1>1. CASE Identify(t, p) = "element"
  <2>1. /\ NodeParse(t, f, p) = ElementParse(t, f, p)
        /\ NodeParse(t, g, p) = ElementParse(t, g, p)
    BY <1>1 DEF NodeParse
  <2>2. \A a, b, c : Unended(a, b, c).p = 0
    BY DEF Unended, Parsed, Nowhere
  <2>3. CASE t[p].cut \/ r.error
    <3>1. \E a : /\ ElementParse(t, f, p) = Unended(t[p].name, a, <<>>)
                 /\ ElementParse(t, g, p) = Unended(t[p].name, a, <<>>)
      <4>1. CASE t[p].cut
        <5>1. ASSUME NEW h PROVE ElementParse(t, h, p) = Unended(t[p].name, <<>>, <<>>)
          BY <4>1, ElementCases, Zenon
        <5> QED
          BY <5>1
      <4>2. CASE ~ t[p].cut /\ r.error
        <5>1. ASSUME NEW h PROVE ElementParse(t, h, p) = Unended(t[p].name, r.attributes, <<>>)
          BY <4>2, ElementCases, Zenon
        <5> HIDE DEF r
        <5> QED
          BY <5>1
      <4> QED
        BY <2>3, <4>1, <4>2
    <3> HIDE DEF r
    <3> QED
      BY <2>1, <2>2, <3>1
  <2>4. CASE ~ t[p].cut /\ ~ r.error /\ Is(t, r.p, "slash")
    <3>1. /\ ElementParse(t, f, p) = ElementParse(t, g, p)
          /\ \/ ElementParse(t, f, p) = Unended(t[p].name, r.attributes, <<>>)
             \/ /\ ElementParse(t, f, p)
                       = Parsed(r.p + 2, Element(t[p].name, r.attributes, <<>>), FALSE)
                /\ Is(t, r.p + 1, "gt")
      <4>1. ASSUME NEW h
            PROVE  ElementParse(t, h, p) =
                       IF Is(t, r.p + 1, "gt")
                       THEN Parsed(r.p + 2, Element(t[p].name, r.attributes, <<>>), FALSE)
                       ELSE Unended(t[p].name, r.attributes, <<>>)
        BY <2>4, ElementCases, Zenon
      <4> HIDE DEF r
      <4> QED
        BY <4>1
    <3>2. r.p \in (p + 1) .. L
      BY <2>4, AttributesBehind
    <3> HIDE DEF r
    <3>3. Is(t, r.p + 1, "gt") => r.p + 2 \in (p + 1) .. (L + 1)
      BY <1>0, <3>2 DEF Is, Readable
    <3> DEFINE whole == Parsed(r.p + 2, Element(t[p].name, r.attributes, <<>>), FALSE)
    <3>4. whole.p = r.p + 2
      BY DEF Parsed
    <3>5. /\ ElementParse(t, f, p) = ElementParse(t, g, p)
          /\ \/ ElementParse(t, f, p) = Unended(t[p].name, r.attributes, <<>>)
             \/ ElementParse(t, f, p) = whole /\ Is(t, r.p + 1, "gt")
      BY <3>1
    <3> HIDE DEF whole
    <3> QED
      BY <2>1, <2>2, <3>3, <3>4, <3>5
  <2>5. CASE ~ t[p].cut /\ ~ r.error /\ ~ Is(t, r.p, "slash")
    <3>1. r.p \in (p + 1) .. L
      BY <2>5, AttributesBehind
    <3>2. n \in (p + 1) .. (L + 1)
      <4> HIDE DEF r
      <4> QED
        BY <1>0, <3>1
    <3>3. f[n] = g[n] /\ EndsBehind(t, n, f[n])
      <4> HIDE DEF n
      <4> QED
        BY <3>2
    <3> DEFINE inside == f[n]
               ended == EndTagFollows(t, t[p].name, inside)
    <3>4. ElementParse(t, f, p) =
              IF ended
              THEN Parsed(inside.p + 2, Element(t[p].name, r.attributes, inside.children),
                          inside.error)
              ELSE Unended(t[p].name, r.attributes, inside.children)
      BY <2>5, ElementCases, Zenon
    <3>5. ElementParse(t, g, p) = ElementParse(t, f, p)
      <4>1. ElementParse(t, g, p) =
                IF EndTagFollows(t, t[p].name, g[n])
                THEN Parsed(g[n].p + 2, Element(t[p].name, r.attributes, g[n].children), g[n].error)
                ELSE Unended(t[p].name, r.attributes, g[n].children)
        BY <2>5, ElementCases, Zenon
      <4>2. g[n] = inside
        BY <3>3
      <4> HIDE DEF n, inside, r
      <4> QED
        BY <3>4, <4>1, <4>2
    <3>6. ended => inside.p + 2 \in (p + 1) .. (L + 1)
      <4>1. inside.p \in {0} \cup n .. L
        BY <3>3 DEF EndsBehind
      <4> HIDE DEF inside, n
      <4>2. ended => inside.p # 0 /\ inside.p + 1 <= L
        BY DEF EndTagFollows, Is, Readable, Nowhere
      <4> QED
        BY <1>0, <3>2, <4>1, <4>2
    <3> HIDE DEF ended, inside
    <3>7. CASE ended
      <4>1. \A a, b, c : Parsed(a, b, c).p = a
        BY DEF Parsed
      <4> QED
        BY <2>1, <3>4, <3>5, <3>6, <3>7, <4>1
    <3>8. CASE ~ ended
      BY <2>1, <2>2, <3>4, <3>5, <3>8
    <3> QED
      BY <3>7, <3>8
  <2>6. \/ t[p].cut \/ r.error
        \/ ~ t[p].cut /\ ~ r.error /\ Is(t, r.p, "slash")
        \/ ~ t[p].cut /\ ~ r.error /\ ~ Is(t, r.p, "slash")
    BY Zenon
  <2> HIDE DEF r
  <2> QED
    BY <2>3, <2>4, <2>5, <2>6, Zenon
<1>2. CASE Identify(t, p) # "element"
  <2>1. \E node : /\ NodeParse(t, f, p) = Parsed(p + 1, node, FALSE)
                  /\ NodeParse(t, g, p) = Parsed(p + 1, node, FALSE)
    BY <1>2 DEF NodeParse
  <2>2. \A node : Parsed(p + 1, node, FALSE).p = p + 1
    BY DEF Parsed
  <2>3. p + 1 \in (p + 1) .. (L + 1)
    BY <1>0
  <2> QED
    BY <2>1, <2>2, <2>3
<1> QED
  BY <1>1, <1>2

\* Reading children asks only for what is read further on.
LEMMA ValueStepLocal ==
    ASSUME NEW S, NEW t \in Seq(S), NEW at \in 0 .. Len(t) + 1, NEW f, NEW g,
           \A k \in {0} \cup (at + 1) .. (Len(t) + 1) : f[k] = g[k] /\ EndsBehind(t, k, f[k])
    PROVE  /\ ValueStep(t, f, at) = ValueStep(t, g, at)
           /\ EndsBehind(t, at, ValueStep(t, f, at))
<1> DEFINE p == SkipWhiteSpace(t, at)
           L == Len(t)
<1>0. L \in Nat /\ L = Len(t)
  OBVIOUS
<1>1. Readable(t, p) => at # 0 /\ p \in at .. L
  BY Skipped
<1>2. \A h : ValueStep(t, h, at) =
                 CASE ~ Readable(t, p) -> Failed
                   [] Is(t, p, "end") /\ t[p].name # "" -> Result(p, <<>>, <<>>, FALSE)
                   [] OTHER -> WithChild(NodeParse(t, h, p), h[NodeParse(t, h, p).p])
  BY Zenon DEF ValueStep
<1> HIDE DEF p
<1>3. CASE ~ Readable(t, p)
  <2>1. \A h : ValueStep(t, h, at) = Failed
    <3>1. ~ Is(t, p, "end")
      BY <1>3 DEF Is
    <3> QED
      BY <1>2, <1>3, <3>1
  <2>2. Failed.p = 0
    BY DEF Failed, Result, Nowhere
  <2> QED
    BY <2>1, <2>2 DEF EndsBehind
<1>4. CASE Readable(t, p) /\ Is(t, p, "end") /\ t[p].name # ""
  <2>1. \A h : ValueStep(t, h, at) = Result(p, <<>>, <<>>, FALSE)
    BY <1>2, <1>4
  <2>2. Result(p, <<>>, <<>>, FALSE).p = p
    BY DEF Result
  <2> QED
    BY <1>1, <1>4, <2>1, <2>2 DEF EndsBehind
<1>5. CASE Readable(t, p) /\ ~ (Is(t, p, "end") /\ t[p].name # "")
  <2> DEFINE child == NodeParse(t, f, p)
  <2>0. at \in Nat /\ at # 0 /\ p \in at .. L /\ p \in Nat
    <3>1. at \in Nat
      OBVIOUS
    <3>2. at # 0 /\ p \in at .. L
      BY <1>1, <1>5
    <3> QED
      BY <1>0, <3>1, <3>2
  <2>1. \A h : ValueStep(t, h, at) = WithChild(NodeParse(t, h, p), h[NodeParse(t, h, p).p])
    BY <1>2, <1>5
  <2>2. /\ NodeParse(t, g, p) = child
        /\ child.p \in {0} \cup (p + 1) .. (L + 1)
    <3>1. p \in 1 .. L
      BY <1>0, <2>0
    <3>2. \A k \in (p + 1) .. (L + 1) : k \in {0} \cup (at + 1) .. (Len(t) + 1)
      BY <1>0, <2>0
    <3>3. \A k \in (p + 1) .. (Len(t) + 1) : f[k] = g[k] /\ EndsBehind(t, k, f[k])
      BY <1>0, <3>2
    <3> QED
      BY <1>0, <3>1, <3>3, NodeLocal
  <2> HIDE DEF child
  <2>3. child.p \in {0} \cup (at + 1) .. (Len(t) + 1)
    BY <1>0, <2>0, <2>2
  <2>4. f[child.p] = g[child.p] /\ EndsBehind(t, child.p, f[child.p])
    BY <2>3
  <2>5. ValueStep(t, f, at) = WithChild(child, f[child.p])
    BY <2>1 DEF child
  <2>6. ValueStep(t, g, at) = WithChild(child, g[child.p])
    BY <2>1, <2>2 DEF child
  <2>7. WithChild(child, f[child.p]).p = f[child.p].p
    BY ResultFields DEF WithChild
  <2>8. f[child.p].p \in {0} \cup at .. L
    <3>1. f[child.p].p \in {0} \cup child.p .. L
      BY <1>0, <2>4 DEF EndsBehind
    <3> DEFINE c == child.p
               v == f[c].p
    <3>2. v = 0 \/ (c # 0 /\ v \in c .. L)
      BY <1>0, <2>4 DEF EndsBehind
    <3>3. c \in {0} \cup (p + 1) .. (L + 1)
      BY <2>2
    <3> HIDE DEF c, v
    <3>4. v \in {0} \cup at .. L
      BY <1>0, <2>0, <3>2, <3>3
    <3> QED
      BY <3>4 DEF c, v
  <2> QED
    BY <1>0, <2>0, <2>4, <2>5, <2>6, <2>7, <2>8 DEF EndsBehind
<1> QED
  BY <1>3, <1>4, <1>5

\* No children are read at the null pointer.
LEMMA ValueStepEnd ==
    ASSUME NEW S, NEW t \in Seq(S), NEW f
    PROVE  ValueStep(t, f, 0) = Failed
<1>1. ~ Readable(t, SkipWhiteSpace(t, 0))
  <2>1. 0 \in 0 .. Len(t) + 1
    OBVIOUS
  <2> QED
    BY <2>1, Skipped
<1>2. ~ Is(t, SkipWhiteSpace(t, 0), "end")
  BY <1>1 DEF Is
<1> QED
  BY <1>1, <1>2, Zenon DEF ValueStep

\* So there is a function that reads the children from every place.
LEMMA ValueExists ==
    ASSUME NEW S, NEW t \in Seq(S)
    PROVE  \E value : IsValue(t, value) /\ \A k \in 0 .. Len(t) + 1 : EndsBehind(t, k, value[k])
<1> DEFINE M == Len(t) + 1
           Step(f) == [p \in 0 .. M |-> ValueStep(t, f, p)]
           Good(n, f) == \A p \in 0 .. M : p = 0 \/ p + n > M =>
                             f[p] = Step(f)[p] /\ EndsBehind(t, p, f[p])
           T == {n \in Nat : \E f : Good(n, f)}
<1>0. M \in Nat /\ M = Len(t) + 1
  OBVIOUS
<1>00. EndsBehind(t, 0, Failed)
  BY DEF EndsBehind, Failed, Result, Nowhere
<1>1. 0 \in T
  <2> DEFINE f == [p \in 0 .. M |-> Failed]
  <2>1. Good(0, f)
    <3>1. ASSUME NEW p \in 0 .. M, p = 0 \/ p + 0 > M PROVE p = 0
      BY <1>0, <3>1
    <3>2. Step(f)[0] = Failed
      BY <1>0, ValueStepEnd
    <3>3. f[0] = Failed
      BY <1>0
    <3> QED
      BY <1>00, <3>1, <3>2, <3>3
  <2> QED
    BY <2>1
<1>2. ASSUME NEW n \in Nat, n \in T
      PROVE  n + 1 \in T
  <2>1. PICK f : Good(n, f)
    BY <1>2
  <2>2. ASSUME NEW p \in 0 .. M, p = 0 \/ p + (n + 1) > M
        PROVE  Step(f)[p] = Step(Step(f))[p] /\ EndsBehind(t, p, Step(f)[p])
    <3>1. CASE p = 0
      <4>1. /\ ValueStep(t, f, 0) = Failed
            /\ ValueStep(t, Step(f), 0) = Failed
        BY ValueStepEnd
      <4> QED
        BY <3>1, <4>1, <1>0, <1>00
    <3>2. CASE p # 0
      <4>1. ASSUME NEW k \in {0} \cup (p + 1) .. M PROVE f[k] = Step(f)[k] /\ EndsBehind(t, k, f[k])
        <5>1. k \in 0 .. M /\ (k = 0 \/ k + n > M)
          BY <1>0, <2>2, <3>2
        <5> QED
          BY <5>1, <2>1
      <4>2. /\ ValueStep(t, f, p) = ValueStep(t, Step(f), p)
            /\ EndsBehind(t, p, ValueStep(t, f, p))
        <5> HIDE DEF Step
        <5> QED
          BY <4>1, <1>0, ValueStepLocal
      <4> QED
        BY <4>2
    <3> QED
      BY <3>1, <3>2
  <2>3. Good(n + 1, Step(f))
    BY <2>2
  <2> HIDE DEF Good
  <2> QED
    BY <2>3
<1>3. M + 1 \in T
  <2> HIDE DEF T
  <2> QED
    BY <1>0, <1>1, <1>2, NatAll
<1>4. PICK f : Good(M + 1, f)
  BY <1>3
<1>5. \A p \in 0 .. M : f[p] = Step(f)[p] /\ EndsBehind(t, p, f[p])
  BY <1>0, <1>4
<1> DEFINE g == Step(f)
<1>6. \A p \in 0 .. M : f[p] = g[p] /\ EndsBehind(t, p, f[p])
  BY <1>5
<1>7. g = [p \in 0 .. M |-> ValueStep(t, f, p)]
  OBVIOUS
<1> HIDE DEF g
<1>8. ASSUME NEW p \in 0 .. M
      PROVE  ValueStep(t, f, p) = ValueStep(t, g, p)
  <2>1. \A k \in {0} \cup (p + 1) .. M : f[k] = g[k] /\ EndsBehind(t, k, f[k])
    <3>1. {0} \cup (p + 1) .. M \subseteq 0 .. M
      BY <1>0
    <3> QED
      BY <3>1, <1>6
  <2> QED
    BY <2>1, <1>0, ValueStepLocal
<1>9. g = [p \in 0 .. M |-> ValueStep(t, g, p)]
  BY <1>7, <1>8
<1>10. IsValue(t, g)
  BY <1>9 DEF IsValue
<1>11. \A k \in 0 .. M : EndsBehind(t, k, g[k])
  BY <1>6
<1> QED
  BY <1>10, <1>11

\* ReadValue is that function.
LEMMA ValueIs ==
    ASSUME NEW S, NEW t \in Seq(S)
    PROVE  \A at \in 0 .. Len(t) + 1 :
               /\ ReadValue(t)[at] = ValueStep(t, ReadValue(t), at)
               /\ EndsBehind(t, at, ReadValue(t)[at])
<1>1. IsValue(t, ReadValue(t))
  <2>1. ReadValue(t) = ValueOf(t)
    BY DEF ReadValue, ValueOf, IsValue, ValueStep, ThenRead
  <2>2. IsValue(t, ValueOf(t))
    BY ValueExists DEF ValueOf
  <2> QED
    BY <2>1, <2>2
<1>2. ASSUME NEW f, IsValue(t, f), NEW at \in 0 .. Len(t) + 1
      PROVE  f[at] = ValueStep(t, f, at)
  BY <1>2 DEF IsValue
<1>3. ASSUME NEW f, IsValue(t, f), NEW at \in 0 .. Len(t) + 1
      PROVE  EndsBehind(t, at, f[at])
  <2> DEFINE M == Len(t) + 1
             T == {k \in 0 .. M : EndsBehind(t, k, f[k])}
  <2>0. M \in Nat /\ M = Len(t) + 1 /\ at \in 0 .. M
    BY <1>3
  <2>00. f[0] = Failed /\ EndsBehind(t, 0, f[0])
    <3>1. f[0] = ValueStep(t, f, 0)
      <4>1. 0 \in 0 .. Len(t) + 1
        OBVIOUS
      <4> QED
        BY <1>2, <1>3, <4>1
    <3>2. f[0] = Failed
      BY <3>1, ValueStepEnd
    <3>3. EndsBehind(t, 0, Failed)
      BY DEF EndsBehind, Failed, Result, Nowhere
    <3> QED
      BY <3>2, <3>3
  <2>1. ASSUME NEW p \in 0 .. M, \A k \in (p + 1) .. M : k \in T
        PROVE  p \in T
    <3>1. \A k \in {0} \cup (p + 1) .. (Len(t) + 1) : f[k] = f[k] /\ EndsBehind(t, k, f[k])
      BY <2>0, <2>00, <2>1
    <3>2. EndsBehind(t, p, ValueStep(t, f, p))
      BY <2>0, <3>1, ValueStepLocal
    <3>3. f[p] = ValueStep(t, f, p)
      BY <1>2, <1>3, <2>0
    <3> QED
      BY <3>2, <3>3
  <2>2. \A p \in 0 .. M : p \in T
    <3> HIDE DEF T, M
    <3> QED
      BY <2>0, <2>1, Backward
  <2> QED
    BY <2>0, <2>2
<1> QED
  BY <1>1, <1>2, <1>3

\* A node ends behind its beginning.
LEMMA NodeBehind ==
    ASSUME NEW S, NEW t \in Seq(S), NEW p \in 1 .. Len(t)
    PROVE  NodeParse(t, ReadValue(t), p).p \in {0} \cup (p + 1) .. (Len(t) + 1)
<1> DEFINE f == ReadValue(t)
<1>1. \A k \in (p + 1) .. (Len(t) + 1) : f[k] = f[k] /\ EndsBehind(t, k, f[k])
  <2>1. (p + 1) .. (Len(t) + 1) \subseteq 0 .. Len(t) + 1
    OBVIOUS
  <2> QED
    BY <2>1, ValueIs
<1> HIDE DEF f
<1>2. NodeParse(t, f, p).p \in {0} \cup (p + 1) .. (Len(t) + 1)
  BY <1>1, NodeLocal
<1> QED
  BY <1>2 DEF f
-----------------------------------------------------------------------------
\* The loop of TiXmlDocument::Parse.
DocumentStep(t, nodes, at) ==
    LET p == SkipWhiteSpace(t, at)
        node == NodeParse(t, ReadValue(t), p)
    IN  IF ~Readable(t, p) THEN Result(Nowhere, <<>>, <<>>, FALSE)
        ELSE WithChild(node, nodes[node.p])

IsDocument(t, nodes) == nodes = [at \in 0 .. Len(t) + 1 |-> DocumentStep(t, nodes, at)]
DocumentOf(t) == CHOOSE nodes : IsDocument(t, nodes)

\* Reading a document asks only for what is read further on.
LEMMA DocumentStepLocal ==
    ASSUME NEW S, NEW t \in Seq(S), NEW at \in 0 .. Len(t) + 1, NEW f, NEW g,
           \A k \in {0} \cup (at + 1) .. (Len(t) + 1) : f[k] = g[k]
    PROVE  DocumentStep(t, f, at) = DocumentStep(t, g, at)
<1> DEFINE p == SkipWhiteSpace(t, at)
           q == NodeParse(t, ReadValue(t), p).p
<1>1. CASE ~ Readable(t, p)
  BY <1>1, Zenon DEF DocumentStep
<1>2. CASE Readable(t, p)
  <2>1. p \in 1 .. Len(t) /\ p >= at
    <3>1. at # 0 /\ p \in at .. Len(t)
      BY <1>2, Skipped
    <3> HIDE DEF p
    <3> QED
      BY <3>1
  <2>2. q \in {0} \cup (p + 1) .. (Len(t) + 1)
    <3> HIDE DEF p
    <3> QED
      BY <2>1, NodeBehind
  <2>3. q \in {0} \cup (at + 1) .. (Len(t) + 1)
    <3> HIDE DEF p, q
    <3> QED
      BY <2>1, <2>2
  <2>4. f[q] = g[q]
    <3> HIDE DEF q
    <3> QED
      BY <2>3
  <2> QED
    BY <1>2, <2>4, Zenon DEF DocumentStep
<1> QED
  BY <1>1, <1>2

\* No document is read at the null pointer.
LEMMA DocumentStepEnd ==
    ASSUME NEW S, NEW t \in Seq(S), NEW f
    PROVE  DocumentStep(t, f, 0) = Result(0, <<>>, <<>>, FALSE)
<1>1. ~ Readable(t, SkipWhiteSpace(t, 0))
  <2>1. 0 \in 0 .. Len(t) + 1
    OBVIOUS
  <2> QED
    BY <2>1, Skipped
<1> QED
  BY <1>1, Zenon DEF DocumentStep, Nowhere

\* So there is a function that reads a document from every place.
LEMMA DocumentExists ==
    ASSUME NEW S, NEW t \in Seq(S)
    PROVE  \E nodes : IsDocument(t, nodes)
<1> DEFINE M == Len(t) + 1
           Step(f) == [p \in 0 .. M |-> DocumentStep(t, f, p)]
           Good(n, f) == \A p \in 0 .. M : p = 0 \/ p + n > M => f[p] = Step(f)[p]
           T == {n \in Nat : \E f : Good(n, f)}
           nothing == Result(0, <<>>, <<>>, FALSE)
<1>0. M \in Nat /\ M = Len(t) + 1
  OBVIOUS
<1> HIDE DEF nothing
<1>1. 0 \in T
  <2> DEFINE f == [p \in 0 .. M |-> nothing]
  <2>1. Good(0, f)
    <3>1. ASSUME NEW p \in 0 .. M, p = 0 \/ p + 0 > M PROVE p = 0
      BY <1>0, <3>1
    <3>2. Step(f)[0] = nothing
      BY <1>0, DocumentStepEnd DEF nothing
    <3>3. f[0] = nothing
      BY <1>0
    <3> QED
      BY <3>1, <3>2, <3>3
  <2> QED
    BY <2>1
<1>2. ASSUME NEW n \in Nat, n \in T
      PROVE  n + 1 \in T
  <2>1. PICK f : Good(n, f)
    BY <1>2
  <2>2. ASSUME NEW p \in 0 .. M, p = 0 \/ p + (n + 1) > M
        PROVE  Step(f)[p] = Step(Step(f))[p]
    <3>1. CASE p = 0
      <4>1. DocumentStep(t, f, 0) = nothing /\ DocumentStep(t, Step(f), 0) = nothing
        BY DocumentStepEnd DEF nothing
      <4> QED
        BY <3>1, <4>1, <1>0
    <3>2. CASE p # 0
      <4>1. ASSUME NEW k \in {0} \cup (p + 1) .. M PROVE f[k] = Step(f)[k]
        <5>1. k \in 0 .. M /\ (k = 0 \/ k + n > M)
          BY <1>0, <2>2, <3>2
        <5> QED
          BY <5>1, <2>1
      <4>2. DocumentStep(t, f, p) = DocumentStep(t, Step(f), p)
        <5> HIDE DEF Step
        <5> QED
          BY <4>1, <1>0, DocumentStepLocal
      <4> QED
        BY <4>2
    <3> QED
      BY <3>1, <3>2
  <2>3. Good(n + 1, Step(f))
    BY <2>2
  <2> HIDE DEF Good
  <2> QED
    BY <2>3
<1>3. M + 1 \in T
  <2> HIDE DEF T
  <2> QED
    BY <1>0, <1>1, <1>2, NatAll
<1>4. PICK f : Good(M + 1, f)
  BY <1>3
<1>5. \A p \in 0 .. M : f[p] = Step(f)[p]
  BY <1>0, <1>4
<1> DEFINE g == Step(f)
<1>6. \A p \in 0 .. M : f[p] = g[p]
  BY <1>5
<1>7. g = [p \in 0 .. M |-> DocumentStep(t, f, p)]
  OBVIOUS
<1> HIDE DEF g
<1>8. ASSUME NEW p \in 0 .. M
      PROVE  DocumentStep(t, f, p) = DocumentStep(t, g, p)
  <2>1. \A k \in {0} \cup (p + 1) .. M : f[k] = g[k]
    <3>1. {0} \cup (p + 1) .. M \subseteq 0 .. M
      BY <1>0
    <3> QED
      BY <3>1, <1>6
  <2> QED
    BY <2>1, <1>0, DocumentStepLocal
<1>9. g = [p \in 0 .. M |-> DocumentStep(t, g, p)]
  BY <1>7, <1>8
<1> QED
  BY <1>9 DEF IsDocument

\* What is loaded is what that function gives at the beginning.
LEMMA LoadIs ==
    ASSUME NEW S, NEW t \in Seq(S)
    PROVE  /\ LET loaded == DocumentOf(t)[1]
              IN  LoadFile(t) = Result(loaded.p, <<>>, loaded.children,
                                       loaded.error \/ loaded.children = <<>>)
           /\ \A at \in 0 .. Len(t) + 1 :
                  DocumentOf(t)[at] = DocumentStep(t, DocumentOf(t), at)
<1>1. IsDocument(t, DocumentOf(t))
  BY DocumentExists DEF DocumentOf
<1> DEFINE loaded == DocumentOf(t)[1]
<1>2. LoadFile(t) = Result(loaded.p, <<>>, loaded.children, loaded.error \/ loaded.children = <<>>)
  BY DEF LoadFile, DocumentParse, DocumentOf, IsDocument, DocumentStep, ThenRead, NotEmpty
<1>3. ASSUME NEW f, IsDocument(t, f), NEW at \in 0 .. Len(t) + 1
      PROVE  f[at] = DocumentStep(t, f, at)
  BY <1>3 DEF IsDocument
<1> QED
  BY <1>1, <1>2, <1>3

(* Where the parts of a printed element are. *)

\* The word w lies in e behind the first m pieces.
Lies(e, m, w) == m + Len(w) <= Len(e) /\ \A k \in 1 .. Len(w) : e[m + k] = w[k]

\* Each of two sequences lies in the two put together.
LEMMA LiesFirst ==
    ASSUME NEW S, NEW v \in Seq(S), NEW w \in Seq(S)
    PROVE  /\ v \o w \in Seq(S) /\ Len(v \o w) = Len(v) + Len(w)
           /\ Lies(v \o w, 0, v) /\ Lies(v \o w, Len(v), w)
<1> DEFINE m == Len(v)
           n == Len(w)
           e == v \o w
<1>1. /\ e \in Seq(S) /\ Len(e) = m + n /\ m \in Nat /\ n \in Nat /\ m = Len(v) /\ n = Len(w)
      /\ \A k \in 1 .. m + n : e[k] = IF k <= m THEN v[k] ELSE w[k - m]
  BY ConcatProperties, LenProperties
<1> HIDE DEF m, n, e
<1>2. \A k \in 1 .. m : e[0 + k] = v[k]
  <2> TAKE k \in 1 .. m
  <2>1. k \in 1 .. m + n /\ k <= m /\ 0 + k = k
    BY <1>1
  <2> QED
    BY <1>1, <2>1
<1>3. \A k \in 1 .. n : e[m + k] = w[k]
  <2> TAKE k \in 1 .. n
  <2> DEFINE i == m + k
  <2>1. i \in 1 .. m + n /\ ~ (i <= m) /\ i - m = k
    BY <1>1
  <2> HIDE DEF i
  <2>2. e[i] = w[i - m]
    BY <1>1, <2>1
  <2>3. e[i] = w[k]
    BY <2>1, <2>2
  <2> QED
    BY <2>3 DEF i
<1>4. 0 + m <= Len(e) /\ m + n <= Len(e)
  BY <1>1
<1> QED
  BY <1>1, <1>2, <1>3, <1>4 DEF Lies, e

\* What lies in a sequence lies in what that one lies in.
LEMMA LiesWithin ==
    ASSUME NEW S, NEW e \in Seq(S), NEW v \in Seq(S), NEW w \in Seq(S), NEW m \in Nat, NEW n \in Nat,
           Lies(e, m, v), Lies(v, n, w)
    PROVE  Lies(e, m + n, w)
<1>1. /\ m + Len(v) <= Len(e) /\ \A k \in 1 .. Len(v) : e[m + k] = v[k]
      /\ n + Len(w) <= Len(v) /\ \A k \in 1 .. Len(w) : v[n + k] = w[k]
  BY DEF Lies
<1>2. Len(e) \in Nat /\ Len(v) \in Nat /\ Len(w) \in Nat
  BY LenProperties
<1>3. m + n + Len(w) <= Len(e)
  BY <1>1, <1>2
<1>4. \A k \in 1 .. Len(w) : e[m + n + k] = w[k]
  <2> TAKE k \in 1 .. Len(w)
  <2>1. n + k \in 1 .. Len(v) /\ m + (n + k) = m + n + k
    BY <1>1, <1>2
  <2>2. e[m + (n + k)] = v[n + k] /\ v[n + k] = w[k]
    BY <1>1, <2>1
  <2> QED
    BY <2>1, <2>2
<1> QED
  BY <1>3, <1>4 DEF Lies

\* Where the words of a flattened sequence are.
IsOffsets(e, seqs, off) ==
    /\ off \in [0 .. Len(seqs) -> Nat] /\ off[0] = 0 /\ off[Len(seqs)] = Len(e)
    /\ \A i \in 1 .. Len(seqs) : /\ off[i] = off[i - 1] + Len(seqs[i])
                                 /\ Lies(e, off[i - 1], seqs[i])

\* The function by which FlattenSeq puts sequences together.
LEMMA FlattenExists ==
    ASSUME NEW seqs, NEW n \in Nat
    PROVE  \E f : f = [i \in 1 .. n |-> IF i = 1 THEN seqs[i] ELSE f[i - 1] \o seqs[i]]
<1> DEFINE Same(m, f) == f = [i \in 1 .. m |-> IF i = 1 THEN seqs[i] ELSE f[i - 1] \o seqs[i]]
           T == {m \in Nat : \E f : Same(m, f)}
<1>1. 0 \in T
  <2>1. Same(0, <<>>)
    OBVIOUS
  <2> QED
    BY <2>1
<1>2. ASSUME NEW m \in Nat, m \in T PROVE m + 1 \in T
  <2>1. PICK f : Same(m, f)
    BY <1>2
  <2> DEFINE g == [i \in 1 .. m + 1 |-> IF i = 1 THEN seqs[i] ELSE f[i - 1] \o seqs[i]]
  <2>2. ASSUME NEW i \in 1 .. m PROVE g[i] = f[i]
    <3>1. i \in 1 .. m + 1
      OBVIOUS
    <3>2. g[i] = IF i = 1 THEN seqs[i] ELSE f[i - 1] \o seqs[i]
      BY <3>1
    <3>3. f[i] = IF i = 1 THEN seqs[i] ELSE f[i - 1] \o seqs[i]
      <4> HIDE DEF g
      <4> QED
        BY <2>1
    <3> QED
      BY <3>2, <3>3
  <2>3. ASSUME NEW i \in 1 .. m + 1, i # 1 PROVE f[i - 1] \o seqs[i] = g[i - 1] \o seqs[i]
    <3>1. i - 1 \in 1 .. m
      BY <2>3
    <3> HIDE DEF g
    <3> QED
      BY <2>2, <3>1
  <2>4. Same(m + 1, g)
    <3> DEFINE h == g
    <3>1. h = [i \in 1 .. m + 1 |-> IF i = 1 THEN seqs[i] ELSE f[i - 1] \o seqs[i]]
      OBVIOUS
    <3>2. \A i \in 1 .. m + 1 : i # 1 => f[i - 1] \o seqs[i] = h[i - 1] \o seqs[i]
      BY <2>3
    <3> HIDE DEF h
    <3>3. \A i \in 1 .. m + 1 : (IF i = 1 THEN seqs[i] ELSE f[i - 1] \o seqs[i])
                                 = (IF i = 1 THEN seqs[i] ELSE h[i - 1] \o seqs[i])
      BY <3>2
    <3>4. h = [i \in 1 .. m + 1 |-> IF i = 1 THEN seqs[i] ELSE h[i - 1] \o seqs[i]]
      BY <3>1, <3>3
    <3> QED
      BY <3>4 DEF h
  <2> HIDE DEF Same, g
  <2> QED
    BY <2>4
<1> HIDE DEF Same
<1>3. \A m \in Nat : m \in T
  <2> HIDE DEF T
  <2> QED
    BY <1>1, <1>2, NatAll
<1>4. \E f : Same(n, f)
  BY <1>3
<1> QED
  BY <1>4 DEF Same

\* Sequences put together lie in the result one behind the other.
LEMMA Flattened ==
    ASSUME NEW S, NEW seqs \in Seq(Seq(S))
    PROVE  FlattenSeq(seqs) \in Seq(S) /\ \E off : IsOffsets(FlattenSeq(seqs), seqs, off)
<1> DEFINE n == Len(seqs)
           Same(f) == f = [i \in 1 .. Len(seqs) |-> IF i = 1 THEN seqs[i] ELSE f[i - 1] \o seqs[i]]
           f == CHOOSE f : Same(f)
<1>0. n \in Nat /\ n = Len(seqs) /\ \A i \in 1 .. n : seqs[i] \in Seq(S) /\ Len(seqs[i]) \in Nat
  BY ElementOfSeq, LenProperties
<1>1. CASE n = 0
  <2>1. seqs = <<>>
    BY <1>1, LenProperties
  <2>2. FlattenSeq(seqs) = <<>> /\ Len(<<>>) = 0
    BY <1>1, <2>1 DEF FlattenSeq
  <2> DEFINE off == [i \in 0 .. 0 |-> 0]
  <2>3. IsOffsets(<<>>, seqs, off)
    BY <1>1, <2>2 DEF IsOffsets
  <2> QED
    BY <2>2, <2>3
<1>2. CASE n # 0
  <2>1. Same(f)
    <3>1. \E g : Same(g)
      BY <1>0, FlattenExists
    <3> HIDE DEF Same
    <3> QED
      BY <3>1
  <2>2. FlattenSeq(seqs) = f[n]
    BY <1>2 DEF FlattenSeq
  <2> HIDE DEF f
  <2>20. \A i \in 1 .. n : f[i] = IF i = 1 THEN seqs[i] ELSE f[i - 1] \o seqs[i]
    BY <2>1
  <2>21. 1 \in 1 .. n /\ \A i \in 2 .. n : i \in 1 .. n /\ i # 1
    BY <1>0, <1>2
  <2> HIDE DEF n
  <2>3. f[1] = seqs[1] /\ \A i \in 2 .. n : f[i] = f[i - 1] \o seqs[i]
    <3>1. f[1] = IF 1 = 1 THEN seqs[1] ELSE f[1 - 1] \o seqs[1]
      BY <2>20, <2>21
    <3>2. \A i \in 2 .. n : f[i] = IF i = 1 THEN seqs[i] ELSE f[i - 1] \o seqs[i]
      BY <2>20, <2>21
    <3> QED
      BY <3>1, <3>2, <2>21
  <2>30. ASSUME NEW i \in 2 .. n PROVE f[i] = f[i - 1] \o seqs[i]
    BY <2>3
  <2> HIDE DEF n
  <2> DEFINE Good(m) == /\ f[m] \in Seq(S)
                        /\ \A i \in 1 .. m : Lies(f[m], IF i = 1 THEN 0 ELSE Len(f[i - 1]), seqs[i])
             T == {m \in Nat : m + 1 <= n => Good(m + 1)}
  <2>4. Good(1)
    <3>1. f[1] \in Seq(S)
      BY <1>0, <1>2, <2>3
    <3>2. Lies(f[1], 0, seqs[1])
      <4>1. Len(seqs[1]) \in Nat
        BY <1>0, <1>2
      <4> QED
        BY <2>3, <4>1 DEF Lies
    <3>3. \A i \in 1 .. 1 : i = 1
      OBVIOUS
    <3> QED
      BY <3>1, <3>2, <3>3
  <2>5. ASSUME NEW m \in Nat, m + 1 \in 1 .. n - 1, Good(m + 1)
        PROVE  Good(m + 2)
    <3> DEFINE k == m + 1
    <3>1. k + 1 = m + 2 /\ k \in Nat /\ k + 1 \in 2 .. n /\ k + 1 \in 1 .. n /\ k + 1 - 1 = k
      BY <1>0, <2>5
    <3>2. Good(k)
      BY <2>5
    <3> HIDE DEF k
    <3>3. f[k + 1] = f[k] \o seqs[k + 1] /\ seqs[k + 1] \in Seq(S) /\ f[k] \in Seq(S)
      <4> DEFINE i == k + 1
      <4>0. i \in 2 .. n /\ i - 1 = k
        BY <3>1
      <4> HIDE DEF i
      <4>1. f[i] = f[k] \o seqs[i]
        BY <2>30, <4>0
      <4> USE DEF i
      <4> QED
        BY <1>0, <3>1, <3>2, <4>1
    <3>4. f[k + 1] \in Seq(S) /\ Lies(f[k + 1], 0, f[k]) /\ Lies(f[k + 1], Len(f[k]), seqs[k + 1])
      BY <3>3, LiesFirst
    <3>5. ASSUME NEW i \in 1 .. k
          PROVE  Lies(f[k + 1], IF i = 1 THEN 0 ELSE Len(f[i - 1]), seqs[i])
      <4> DEFINE a == IF i = 1 THEN 0 ELSE Len(f[i - 1])
      <4>1. Lies(f[k], a, seqs[i])
        BY <3>2
      <4>2. a \in Nat
        <5>1. CASE i = 1
          BY <5>1
        <5>2. CASE i # 1
          <6>1. i - 1 \in 1 .. k /\ i - 1 \in 1 .. n
            BY <1>0, <3>1, <5>2
          <6> SUFFICES Len(f[i - 1]) \in Nat
            BY <5>2
          <6> DEFINE U == {j \in Nat : j + 1 <= n => f[j + 1] \in Seq(S)}
          <6>2. 0 \in U
            BY <1>0, <1>2, <2>3
          <6>3. ASSUME NEW j \in Nat, j \in U PROVE j + 1 \in U
            <7>1. CASE j + 2 <= n
              <8>1. j + 2 \in 2 .. n /\ j + 2 \in 1 .. n /\ j + 2 - 1 = j + 1 /\ j + 1 <= n
                BY <1>0, <7>1
              <8>2. f[j + 2] = f[j + 1] \o seqs[j + 2]
                <9> DEFINE l == j + 2
                <9>0. l \in 2 .. n /\ l - 1 = j + 1
                  BY <8>1
                <9> HIDE DEF l
                <9>1. f[l] = f[j + 1] \o seqs[l]
                  BY <2>30, <9>0
                <9> QED
                  BY <9>1 DEF l
              <8>3. f[j + 1] \in Seq(S) /\ seqs[j + 2] \in Seq(S)
                BY <1>0, <6>3, <8>1
              <8>4. f[j + 2] \in Seq(S)
                BY <8>1, <8>2, <8>3, LiesFirst
              <8>5. j + 1 + 1 = j + 2
                OBVIOUS
              <8> QED
                BY <8>4, <8>5
            <7>2. CASE ~ (j + 2 <= n)
              BY <1>0, <7>2
            <7> QED
              BY <7>1, <7>2
          <6>4. \A j \in Nat : j \in U
            <7> HIDE DEF U
            <7> QED
              BY <6>2, <6>3, NatAll
          <6>5. i - 2 \in Nat /\ i - 2 + 1 = i - 1 /\ i - 1 <= n
            BY <1>0, <6>1
          <6>6. f[i - 1] \in Seq(S)
            BY <6>4, <6>5
          <6> QED
            BY <6>6, LenProperties
        <5> QED
          BY <5>1, <5>2
      <4>3. seqs[i] \in Seq(S) /\ 0 + a = a
        <5>1. i \in 1 .. n
          BY <1>0, <3>1
        <5> HIDE DEF a
        <5> QED
          BY <1>0, <4>2, <5>1
      <4> HIDE DEF a
      <4>4. Lies(f[k + 1], 0 + a, seqs[i])
        BY <3>3, <3>4, <4>1, <4>2, <4>3, LiesWithin
      <4> QED
        BY <4>3, <4>4 DEF a
    <3>6. ASSUME NEW i, i = k + 1
          PROVE  Lies(f[k + 1], IF i = 1 THEN 0 ELSE Len(f[i - 1]), seqs[i])
      <4>1. i # 1 /\ i - 1 = k
        BY <2>5, <3>1, <3>6
      <4>2. (IF i = 1 THEN 0 ELSE Len(f[i - 1])) = Len(f[k])
        BY <4>1
      <4> QED
        BY <3>4, <3>6, <4>2
    <3>7. \A i \in 1 .. k + 1 : i \in 1 .. k \/ i = k + 1
      BY <3>1
    <3>9. ASSUME NEW i \in 1 .. k + 1
          PROVE  Lies(f[k + 1], IF i = 1 THEN 0 ELSE Len(f[i - 1]), seqs[i])
      <4>1. CASE i \in 1 .. k
        BY <3>5, <4>1
      <4>2. CASE i = k + 1
        BY <3>6, <4>2
      <4> QED
        BY <3>7, <4>1, <4>2
    <3>8. Good(k + 1)
      BY <3>4, <3>9
    <3> QED
      BY <3>1, <3>8
  <2>6. \A m \in Nat : m \in T
    <3> HIDE DEF Good
    <3>1. 0 \in T
      BY <2>4
    <3>2. ASSUME NEW m \in Nat, m \in T PROVE m + 1 \in T
      <4>1. CASE m + 2 <= n
        <5>1. m + 1 \in 1 .. n - 1 /\ m + 1 <= n /\ m + 1 + 1 = m + 2
          BY <1>0, <4>1
        <5> QED
          BY <2>5, <3>2, <5>1
      <4>2. CASE ~ (m + 2 <= n)
        <5>1. m + 1 + 1 = m + 2
          OBVIOUS
        <5> QED
          BY <4>2, <5>1
      <4> QED
        BY <4>1, <4>2
    <3> HIDE DEF T
    <3> QED
      BY <3>1, <3>2, NatAll
  <2>7. \A m \in 1 .. n : Good(m)
    <3> HIDE DEF Good
    <3> TAKE m \in 1 .. n
    <3>1. m - 1 \in Nat /\ m - 1 + 1 = m /\ m <= n
      BY <1>0
    <3> QED
      BY <2>6, <3>1
  <2> DEFINE off == [i \in 0 .. n |-> IF i = 0 THEN 0 ELSE Len(f[i])]
  <2>8. n \in 1 .. n /\ \A m \in 1 .. n : f[m] \in Seq(S) /\ Len(f[m]) \in Nat
    BY <1>0, <1>2, <2>7, LenProperties
  <2>9. off \in [0 .. n -> Nat] /\ off[0] = 0 /\ off[n] = Len(f[n])
    BY <1>0, <1>2, <2>8
  <2>10. ASSUME NEW i \in 1 .. n
         PROVE  off[i] = off[i - 1] + Len(seqs[i]) /\ Lies(f[n], off[i - 1], seqs[i])
    <3>1. off[i - 1] = IF i = 1 THEN 0 ELSE Len(f[i - 1])
      BY <1>0
    <3>2. Lies(f[n], off[i - 1], seqs[i])
      BY <2>7, <2>8, <3>1
    <3>3. CASE i = 1
      <4>1. off[1] = Len(seqs[1]) /\ off[1 - 1] = 0 /\ Len(seqs[1]) \in Nat
        BY <1>0, <1>2, <2>3
      <4> HIDE DEF off
      <4> QED
        BY <3>2, <3>3, <4>1
    <3>4. CASE i # 1
      <4>1. i \in 2 .. n /\ i - 1 \in 1 .. n
        BY <1>0, <3>4
      <4>2. f[i] = f[i - 1] \o seqs[i]
        BY <2>3, <4>1
      <4>3. Len(f[i]) = Len(f[i - 1]) + Len(seqs[i])
        BY <1>0, <2>8, <4>1, <4>2, LiesFirst
      <4>4. off[i] = Len(f[i]) /\ off[i - 1] = Len(f[i - 1])
        BY <3>1, <3>4, <4>1
      <4> QED
        BY <3>2, <4>3, <4>4
    <3> QED
      BY <3>3, <3>4
  <2> HIDE DEF off
  <2>11. IsOffsets(f[n], seqs, off)
    BY <2>9, <2>10 DEF IsOffsets, n
  <2> QED
    BY <2>2, <2>8, <2>11
<1> QED
  BY <1>1, <1>2

AttributeValues == Machines \cup Dates \cup {NoDate, NoAddress, ""}
Kinds == {"declaration", "open", "attribute", "space", "slash", "gt", "end"}
Words == {"", "ConfigReseau", "Config", "date", "user", "ip", "hostname", "username", "os", "nbvideo"}
Pieces == [kind : Kinds, name : Words, value : AttributeValues, cut : BOOLEAN]
AttributeLists == Seq([name : Words, value : AttributeValues])

\* What the printer writes is made of Pieces.
LEMMA PieceKinds ==
    /\ Space \in Pieces
    /\ \A kind \in Kinds : Piece(kind) \in Pieces
    /\ \A kind \in Kinds, name \in Words : Named(kind, name) \in Pieces
    /\ \A a \in [name : Words, value : AttributeValues] : AttributePiece(a) \in Pieces
<1>0. "" \in AttributeValues
  BY DEF AttributeValues
<1> HIDE DEF AttributeValues
<1>1. \A kind \in Kinds, name \in Words : Named(kind, name) \in Pieces
  BY <1>0 DEF Named, Pieces
<1>5. "" \in Words /\ "space" \in Kinds /\ "attribute" \in Kinds
  BY DEF Words, Kinds
<1>2. \A kind \in Kinds : Piece(kind) \in Pieces
  BY <1>1, <1>5, Zenon DEF Piece
<1>3. Space \in Pieces
  BY <1>2, <1>5, Zenon DEF Space
<1>4. ASSUME NEW a \in [name : Words, value : AttributeValues] PROVE AttributePiece(a) \in Pieces
  <2>1. a.name \in Words /\ a.value \in AttributeValues
    OBVIOUS
  <2> DEFINE n == a.name
             v == a.value
  <2> HIDE DEF n, v
  <2>2. n \in Words /\ v \in AttributeValues
    BY <2>1 DEF n, v
  <2>3. [kind |-> "attribute", name |-> n, value |-> v, cut |-> FALSE] \in Pieces
    BY <1>5, <2>2 DEF Pieces
  <2> QED
    BY <2>3 DEF n, v, AttributePiece
<1> QED
  BY <1>1, <1>2, <1>3, <1>4

\* The fields of a piece as printed.
LEMMA PieceFields ==
    /\ \A kind : Piece(kind).kind = kind /\ ~ Piece(kind).cut
    /\ \A kind, name : Named(kind, name).kind = kind /\ Named(kind, name).name = name /\ ~ Named(kind, name).cut
    /\ \A a : /\ AttributePiece(a).kind = "attribute" /\ AttributePiece(a).name = a.name
              /\ AttributePiece(a).value = a.value /\ ~ AttributePiece(a).cut
    /\ Space.kind = "space" /\ ~ Space.cut
BY DEF AttributePiece, Named, Piece, Space

\* A sequence of two.
LEMMA Pair ==
    ASSUME NEW S, NEW x \in S, NEW y \in S
    PROVE  <<x, y>> \in Seq(S) /\ Len(<<x, y>>) = 2 /\ <<x, y>>[1] = x /\ <<x, y>>[2] = y
OBVIOUS

\* Attributes are printed as a space and the attribute, each.
LEMMA AttributesFlat ==
    ASSUME NEW attributes \in AttributeLists
    PROVE  LET b == FlattenSeq([k \in DOMAIN attributes |-> <<Space, AttributePiece(attributes[k])>>])
           IN  /\ b \in Seq(Pieces) /\ Len(b) = 2 * Len(attributes)
               /\ \A j \in 1 .. Len(attributes) : b[2 * j - 1] = Space /\ b[2 * j] = AttributePiece(attributes[j])
<1> DEFINE n == Len(attributes)
           seqs == [k \in DOMAIN attributes |-> <<Space, AttributePiece(attributes[k])>>]
           b == FlattenSeq(seqs)
<1>1. /\ n \in Nat /\ DOMAIN attributes = 1 .. n
      /\ \A k \in 1 .. n : attributes[k] \in [name : Words, value : AttributeValues]
  BY ElementOfSeq, LenProperties DEF AttributeLists
<1>2. ASSUME NEW k \in 1 .. n
      PROVE  /\ seqs[k] \in Seq(Pieces) /\ Len(seqs[k]) = 2
             /\ seqs[k][1] = Space /\ seqs[k][2] = AttributePiece(attributes[k])
  <2>1. Space \in Pieces /\ AttributePiece(attributes[k]) \in Pieces
    BY <1>1, PieceKinds
  <2>2. seqs[k] = <<Space, AttributePiece(attributes[k])>>
    BY <1>1
  <2> HIDE DEF seqs
  <2> QED
    BY <2>1, <2>2, Pair
<1>3. seqs \in Seq(Seq(Pieces)) /\ Len(seqs) = n
  <2>1. seqs \in [1 .. n -> Seq(Pieces)]
    BY <1>1, <1>2
  <2> HIDE DEF seqs, n
  <2> QED
    BY <1>1, <2>1, LenProperties
<1> HIDE DEF seqs, n
<1>4. b \in Seq(Pieces) /\ \E off : IsOffsets(b, seqs, off)
  BY <1>3, Flattened
<1>5. PICK off : IsOffsets(b, seqs, off)
  BY <1>4
<1> HIDE DEF b
<1>6. /\ off \in [0 .. n -> Nat] /\ off[0] = 0 /\ off[n] = Len(b)
      /\ \A i \in 1 .. n : off[i] = off[i - 1] + 2 /\ Lies(b, off[i - 1], seqs[i])
  BY <1>2, <1>3, <1>5 DEF IsOffsets
<1>7. \A i \in Nat : i \in 0 .. n => off[i] = 2 * i
  <2> DEFINE T == {i \in Nat : i \in 0 .. n => off[i] = 2 * i}
  <2>1. 0 \in T
    BY <1>6
  <2>2. ASSUME NEW i \in Nat, i \in T PROVE i + 1 \in T
    <3>1. CASE i + 1 \in 0 .. n
      <4> DEFINE j == i + 1
      <4>1. j \in 1 .. n /\ j - 1 = i /\ i \in 0 .. n /\ j \in Nat
        BY <1>1, <3>1
      <4>2. off[i] = 2 * i
        BY <2>2, <4>1
      <4> HIDE DEF j
      <4>3. off[j] = off[i] + 2
        BY <1>6, <4>1
      <4>4. off[j] = 2 * j
        BY <4>1, <4>2, <4>3
      <4> QED
        BY <4>1, <4>4 DEF j
    <3> QED
      BY <3>1
  <2>3. \A i \in Nat : i \in T
    <3> HIDE DEF T
    <3> QED
      BY <2>1, <2>2, NatAll
  <2> QED
    BY <2>3
<1>8. ASSUME NEW j \in 1 .. n
      PROVE  b[2 * j - 1] = Space /\ b[2 * j] = AttributePiece(attributes[j])
  <2>1. j - 1 \in Nat /\ j - 1 \in 0 .. n /\ 2 * (j - 1) + 1 = 2 * j - 1 /\ 2 * (j - 1) + 2 = 2 * j
    BY <1>1
  <2>2. off[j - 1] = 2 * (j - 1)
    BY <1>7, <2>1
  <2>3. Lies(b, 2 * (j - 1), seqs[j])
    BY <1>6, <2>2
  <2>4. b[2 * (j - 1) + 1] = seqs[j][1] /\ b[2 * (j - 1) + 2] = seqs[j][2]
    BY <1>2, <2>3 DEF Lies
  <2> QED
    BY <1>2, <2>1, <2>4
<1>9. Len(b) = 2 * n
  BY <1>1, <1>6, <1>7
<1> QED
  BY <1>4, <1>8, <1>9 DEF b, seqs, n

\* Where the children lie in what is printed of them.
IsPlaces(c, children, place) ==
    /\ place \in [0 .. Len(children) -> Nat] /\ place[0] = 0 /\ place[Len(children)] = Len(c)
    /\ \A k \in 1 .. Len(children) :
           /\ place[k] = place[k - 1] + 1 + Len(children[k])
           /\ Lies(c, place[k - 1], <<Space>> \o children[k])

\* Children are printed as a space and the child, each.
LEMMA ChildrenFlat ==
    ASSUME NEW children \in Seq(Seq(Pieces))
    PROVE  LET c == FlattenSeq([k \in DOMAIN children |-> <<Space>> \o children[k]])
           IN  c \in Seq(Pieces) /\ \E place : IsPlaces(c, children, place)
<1> DEFINE n == Len(children)
           seqs == [k \in DOMAIN children |-> <<Space>> \o children[k]]
           c == FlattenSeq(seqs)
<1>1. n \in Nat /\ DOMAIN children = 1 .. n /\ \A k \in 1 .. n : children[k] \in Seq(Pieces)
  BY ElementOfSeq, LenProperties
<1>2. ASSUME NEW k \in 1 .. n
      PROVE  seqs[k] = <<Space>> \o children[k] /\ seqs[k] \in Seq(Pieces) /\ Len(seqs[k]) = 1 + Len(children[k])
  <2>1. Space \in Pieces
    BY PieceKinds
  <2>2. seqs[k] = <<Space>> \o children[k]
    BY <1>1
  <2> HIDE DEF seqs
  <2>3. <<Space>> \in Seq(Pieces) /\ Len(<<Space>>) = 1
    BY <2>1
  <2> QED
    BY <1>1, <2>2, <2>3, LiesFirst
<1>3. seqs \in Seq(Seq(Pieces)) /\ Len(seqs) = n
  <2>1. seqs \in [1 .. n -> Seq(Pieces)]
    BY <1>1, <1>2
  <2> HIDE DEF seqs, n
  <2> QED
    BY <1>1, <2>1, LenProperties
<1> HIDE DEF seqs, n
<1>4. c \in Seq(Pieces) /\ \E off : IsOffsets(c, seqs, off)
  BY <1>3, Flattened
<1>5. PICK off : IsOffsets(c, seqs, off)
  BY <1>4
<1> HIDE DEF c
<1>6. /\ off \in [0 .. n -> Nat] /\ off[0] = 0 /\ off[n] = Len(c)
      /\ \A i \in 1 .. n : off[i] = off[i - 1] + Len(seqs[i]) /\ Lies(c, off[i - 1], seqs[i])
  BY <1>3, <1>5 DEF IsOffsets
<1>7. ASSUME NEW k \in 1 .. n
      PROVE  off[k] = off[k - 1] + 1 + Len(children[k]) /\ Lies(c, off[k - 1], <<Space>> \o children[k])
  <2>1. off[k - 1] \in Nat /\ Len(children[k]) \in Nat
    BY <1>1, <1>6, LenProperties
  <2>2. off[k] = off[k - 1] + (1 + Len(children[k]))
    BY <1>2, <1>6
  <2>3. off[k] = off[k - 1] + 1 + Len(children[k])
    <3> DEFINE x == off[k - 1]
               y == Len(children[k])
    <3>1. x \in Nat /\ y \in Nat /\ off[k] = x + (1 + y)
      BY <2>1, <2>2
    <3> HIDE DEF x, y
    <3>2. off[k] = x + 1 + y
      BY <3>1
    <3> QED
      BY <3>2 DEF x, y
  <2> QED
    BY <1>2, <1>6, <2>3
<1>8. IsPlaces(c, children, off)
  BY <1>6, <1>7 DEF IsPlaces, n
<1> QED
  BY <1>4, <1>8 DEF c, seqs

\* Where the pieces of a printed element e are.
IsLayout(e, name, attributes, children, place) ==
    /\ e \in Seq(Pieces)
    /\ e[1] = Named("open", name)
    /\ \A j \in 1 .. Len(attributes) :
           e[2 * j] = Space /\ e[2 * j + 1] = AttributePiece(attributes[j])
    /\ Len(children) = 0 =>
           /\ Len(e) = 2 * Len(attributes) + 4
           /\ e[2 * Len(attributes) + 2] = Space
           /\ e[2 * Len(attributes) + 3] = Piece("slash")
           /\ e[2 * Len(attributes) + 4] = Piece("gt")
    /\ Len(children) # 0 =>
           /\ e[2 * Len(attributes) + 2] = Piece("gt")
           /\ place \in [0 .. Len(children) -> Nat]
           /\ place[0] = 2 * Len(attributes) + 2
           /\ Len(e) = place[Len(children)] + 3
           /\ \A k \in 1 .. Len(children) :
                  /\ place[k] = place[k - 1] + 1 + Len(children[k])
                  /\ Lies(e, place[k - 1], <<Space>> \o children[k])
           /\ e[place[Len(children)] + 1] = Space
           /\ e[place[Len(children)] + 2] = Named("end", name)
           /\ e[place[Len(children)] + 3] = Piece("gt")

\* A sequence of three, and of one.
LEMMA Three ==
    ASSUME NEW S, NEW x \in S, NEW y \in S, NEW z \in S
    PROVE  /\ <<x, y, z>> \in Seq(S) /\ Len(<<x, y, z>>) = 3
           /\ <<x, y, z>>[1] = x /\ <<x, y, z>>[2] = y /\ <<x, y, z>>[3] = z
           /\ <<x>> \in Seq(S) /\ Len(<<x>>) = 1 /\ <<x>>[1] = x
OBVIOUS

\* Where the parts of an element are in its print.
LEMMA Layout ==
    ASSUME NEW name \in Words, NEW attributes \in AttributeLists, NEW children \in Seq(Seq(Pieces))
    PROVE  \E place : IsLayout(ElementPrint(name, attributes, children), name, attributes, children, place)
<1> DEFINE a == <<Named("open", name)>>
           b == FlattenSeq([k \in DOMAIN attributes |-> <<Space, AttributePiece(attributes[k])>>])
           c == FlattenSeq([k \in DOMAIN children |-> <<Space>> \o children[k]])
           x == <<Space, Piece("slash"), Piece("gt")>>
           y == <<Piece("gt")>>
           z == <<Space, Named("end", name), Piece("gt")>>
           e == ElementPrint(name, attributes, children)
           A == Len(attributes)
           n == Len(children)
<1>1. e = (a \o b) \o (IF children = <<>> THEN x ELSE (y \o c) \o z)
  BY DEF ElementPrint
<1>2. A \in Nat /\ n \in Nat /\ (children = <<>> <=> n = 0)
  BY LenProperties DEF AttributeLists
<1>3. /\ Space \in Pieces /\ Piece("slash") \in Pieces /\ Piece("gt") \in Pieces
      /\ Named("open", name) \in Pieces /\ Named("end", name) \in Pieces
  BY PieceKinds DEF Kinds
<1>4. /\ a \in Seq(Pieces) /\ Len(a) = 1 /\ a[1] = Named("open", name)
      /\ x \in Seq(Pieces) /\ Len(x) = 3 /\ x[1] = Space /\ x[2] = Piece("slash") /\ x[3] = Piece("gt")
      /\ y \in Seq(Pieces) /\ Len(y) = 1 /\ y[1] = Piece("gt")
      /\ z \in Seq(Pieces) /\ Len(z) = 3 /\ z[1] = Space /\ z[2] = Named("end", name) /\ z[3] = Piece("gt")
  BY <1>3, Three
<1>5. /\ b \in Seq(Pieces) /\ Len(b) = 2 * A
      /\ \A j \in 1 .. A : b[2 * j - 1] = Space /\ b[2 * j] = AttributePiece(attributes[j])
  BY AttributesFlat
<1>6. c \in Seq(Pieces) /\ \E place : IsPlaces(c, children, place)
  BY ChildrenFlat
<1> HIDE DEF a, b, c, x, y, z, e, A, n
<1> DEFINE h == a \o b
<1>7. h \in Seq(Pieces) /\ Len(h) = 2 * A + 1 /\ Lies(h, 0, a) /\ Lies(h, 1, b)
  <2>1. h \in Seq(Pieces) /\ Len(h) = Len(a) + Len(b) /\ Lies(h, 0, a) /\ Lies(h, Len(a), b)
    BY <1>4, <1>5, LiesFirst
  <2> HIDE DEF h
  <2> QED
    BY <1>2, <1>4, <1>5, <2>1
<1>8. h[1] = Named("open", name)
  BY <1>4, <1>7 DEF Lies
<1>9. ASSUME NEW j \in 1 .. A PROVE h[2 * j] = Space /\ h[2 * j + 1] = AttributePiece(attributes[j])
  <2>1. 2 * j - 1 \in 1 .. Len(b) /\ 2 * j \in 1 .. Len(b) /\ 1 + (2 * j - 1) = 2 * j /\ 1 + 2 * j = 2 * j + 1
    BY <1>2, <1>5
  <2>2. h[1 + (2 * j - 1)] = b[2 * j - 1] /\ h[1 + 2 * j] = b[2 * j]
    BY <1>7, <2>1 DEF Lies
  <2> QED
    BY <1>5, <2>1, <2>2
<1> HIDE DEF h
<1>10. ASSUME NEW w \in Seq(Pieces), e = h \o w
       PROVE  /\ e \in Seq(Pieces) /\ Len(e) = 2 * A + 1 + Len(w) /\ e[1] = Named("open", name)
              /\ \A j \in 1 .. A : e[2 * j] = Space /\ e[2 * j + 1] = AttributePiece(attributes[j])
              /\ Lies(e, 2 * A + 1, w)
  <2>1. e \in Seq(Pieces) /\ Len(e) = 2 * A + 1 + Len(w) /\ Lies(e, 0, h) /\ Lies(e, 2 * A + 1, w)
    BY <1>7, <1>10, LiesFirst
  <2>2. \A k \in 1 .. 2 * A + 1 : e[k] = h[k]
    <3> TAKE k \in 1 .. 2 * A + 1
    <3>1. k \in 1 .. Len(h) /\ 0 + k = k
      BY <1>2, <1>7
    <3>2. e[0 + k] = h[k]
      BY <2>1, <3>1 DEF Lies
    <3> QED
      BY <3>1, <3>2
  <2>3. 1 \in 1 .. 2 * A + 1 /\ \A j \in 1 .. A : 2 * j \in 1 .. 2 * A + 1 /\ 2 * j + 1 \in 1 .. 2 * A + 1
    BY <1>2
  <2> QED
    BY <1>8, <1>9, <2>1, <2>2, <2>3
<1>11. CASE n = 0
  <2>1. e = h \o x
    BY <1>1, <1>2, <1>11 DEF h
  <2>2. Len(e) = 2 * A + 4 /\ Lies(e, 2 * A + 1, x)
    <3>1. Len(e) = 2 * A + 1 + Len(x) /\ Lies(e, 2 * A + 1, x)
      BY <1>4, <1>10, <2>1
    <3> QED
      BY <1>2, <1>4, <3>1
  <2>3. e[2 * A + 2] = Space /\ e[2 * A + 3] = Piece("slash") /\ e[2 * A + 4] = Piece("gt")
    <3>1. /\ e[2 * A + 1 + 1] = x[1] /\ e[2 * A + 1 + 2] = x[2] /\ e[2 * A + 1 + 3] = x[3]
      BY <1>4, <2>2 DEF Lies
    <3>2. 2 * A + 1 + 1 = 2 * A + 2 /\ 2 * A + 1 + 2 = 2 * A + 3 /\ 2 * A + 1 + 3 = 2 * A + 4
      BY <1>2
    <3> QED
      BY <1>4, <3>1, <3>2
  <2>4. /\ e \in Seq(Pieces) /\ e[1] = Named("open", name)
        /\ \A j \in 1 .. A : e[2 * j] = Space /\ e[2 * j + 1] = AttributePiece(attributes[j])
    BY <1>4, <1>10, <2>1
  <2>5. IsLayout(e, name, attributes, children, 0)
    BY <1>11, <2>2, <2>3, <2>4 DEF IsLayout, A, n
  <2> QED
    BY <2>5 DEF e
<1>12. CASE n # 0
  <2> DEFINE yc == y \o c
             w == yc \o z
             B == 2 * A + 2
  <2>1. PICK place : IsPlaces(c, children, place)
    BY <1>6
  <2>2. /\ place \in [0 .. n -> Nat] /\ place[0] = 0 /\ place[n] = Len(c)
        /\ \A k \in 1 .. n : /\ place[k] = place[k - 1] + 1 + Len(children[k])
                             /\ Lies(c, place[k - 1], <<Space>> \o children[k])
    BY <2>1 DEF IsPlaces, n
  <2>3. Len(c) \in Nat /\ B \in Nat
    BY <1>2, <1>6, LenProperties
  <2>4. yc \in Seq(Pieces) /\ Len(yc) = 1 + Len(c) /\ Lies(yc, 0, y) /\ Lies(yc, 1, c)
    <3>1. yc \in Seq(Pieces) /\ Len(yc) = Len(y) + Len(c) /\ Lies(yc, 0, y) /\ Lies(yc, Len(y), c)
      BY <1>4, <1>6, LiesFirst
    <3> HIDE DEF yc
    <3> QED
      BY <1>4, <3>1
  <2>5. e = h \o w
    BY <1>1, <1>2, <1>12 DEF h
  <2> HIDE DEF yc
  <2>6. /\ w \in Seq(Pieces) /\ Len(w) = 1 + Len(c) + 3
        /\ Lies(w, 0, yc) /\ Lies(w, 1 + Len(c), z)
    <3>1. w \in Seq(Pieces) /\ Len(w) = Len(yc) + Len(z) /\ Lies(w, 0, yc) /\ Lies(w, Len(yc), z)
      BY <1>4, <2>4, LiesFirst
    <3> HIDE DEF w
    <3> QED
      BY <1>4, <2>4, <3>1
  <2> HIDE DEF w
  <2>7. /\ e \in Seq(Pieces) /\ Len(e) = 2 * A + 1 + Len(w) /\ e[1] = Named("open", name)
        /\ \A j \in 1 .. A : e[2 * j] = Space /\ e[2 * j + 1] = AttributePiece(attributes[j])
        /\ Lies(e, 2 * A + 1, w)
    BY <1>10, <2>5, <2>6
  <2>8. 2 * A + 1 \in Nat /\ 0 \in Nat /\ 2 * A + 1 + 0 = 2 * A + 1 /\ 1 \in Nat
    BY <1>2
  <2>9. Lies(e, 2 * A + 1, yc)
    <3>1. Lies(e, 2 * A + 1 + 0, yc)
      BY <2>4, <2>6, <2>7, <2>8, LiesWithin
    <3> QED
      BY <2>8, <3>1
  <2>10. Lies(e, B, c)
    <3>1. Lies(e, 2 * A + 1 + 1, c)
      BY <1>6, <2>4, <2>7, <2>8, <2>9, LiesWithin
    <3>2. 2 * A + 1 + 1 = B
      BY <1>2
    <3> QED
      BY <3>1, <3>2
  <2>11. Lies(e, B + Len(c), z)
    <3>1. 1 + Len(c) \in Nat /\ 2 * A + 1 + (1 + Len(c)) = B + Len(c)
      BY <1>2, <2>3
    <3>2. Lies(e, 2 * A + 1 + (1 + Len(c)), z)
      BY <1>4, <2>6, <2>7, <2>8, <3>1, LiesWithin
    <3> QED
      BY <3>1, <3>2
  <2>12. e[2 * A + 2] = Piece("gt")
    <3>1. e[2 * A + 1 + 1] = yc[1] /\ yc[0 + 1] = y[1]
      BY <1>4, <2>3, <2>4, <2>9 DEF Lies
    <3>2. 2 * A + 1 + 1 = 2 * A + 2 /\ 0 + 1 = 1
      BY <1>2
    <3> QED
      BY <1>4, <3>1, <3>2
  <2> DEFINE at == [k \in 0 .. n |-> B + place[k]]
  <2>13. at \in [0 .. n -> Nat] /\ at[0] = B /\ at[n] = B + Len(c)
    <3>1. \A k \in 0 .. n : B + place[k] \in Nat
      BY <2>2, <2>3
    <3>2. 0 \in 0 .. n /\ n \in 0 .. n /\ B + 0 = B
      BY <1>2, <2>3
    <3> HIDE DEF B
    <3> QED
      BY <2>2, <3>1, <3>2
  <2>14. ASSUME NEW k \in 1 .. n
         PROVE  /\ at[k] = at[k - 1] + 1 + Len(children[k])
                /\ Lies(e, at[k - 1], <<Space>> \o children[k])
    <3>1. k \in 0 .. n /\ k - 1 \in 0 .. n
      BY <1>2
    <3>2. children[k] \in Seq(Pieces) /\ Len(children[k]) \in Nat /\ <<Space>> \o children[k] \in Seq(Pieces)
      <4>1. children[k] \in Seq(Pieces)
        BY ElementOfSeq DEF n
      <4>2. <<Space>> \in Seq(Pieces)
        BY <1>3, Three
      <4> QED
        BY <4>1, <4>2, LiesFirst, LenProperties
    <3> DEFINE p == place[k - 1]
               l == Len(children[k])
    <3>3. at[k] = B + (p + 1 + l) /\ at[k - 1] = B + p /\ p \in Nat /\ l \in Nat
      BY <2>2, <3>1, <3>2
    <3>4. Lies(c, p, <<Space>> \o children[k])
      BY <2>2
    <3> HIDE DEF at, p, l, B
    <3>5. at[k] = at[k - 1] + 1 + l
      BY <2>3, <3>3
    <3>6. Lies(e, B + p, <<Space>> \o children[k])
      BY <1>6, <2>3, <2>7, <2>10, <3>2, <3>3, <3>4, LiesWithin
    <3> QED
      BY <3>3, <3>5, <3>6 DEF l
  <2>15. /\ Len(e) = at[n] + 3 /\ e[at[n] + 1] = Space
         /\ e[at[n] + 2] = Named("end", name) /\ e[at[n] + 3] = Piece("gt")
    <3>1. e[B + Len(c) + 1] = z[1] /\ e[B + Len(c) + 2] = z[2] /\ e[B + Len(c) + 3] = z[3]
      BY <1>4, <2>11 DEF Lies
    <3>2. Len(e) = B + Len(c) + 3
      BY <1>2, <2>3, <2>6, <2>7
    <3> HIDE DEF at, B
    <3> QED
      BY <1>4, <2>13, <3>1, <3>2
  <2> HIDE DEF at
  <2>16. IsLayout(e, name, attributes, children, at)
    BY <1>12, <2>7, <2>12, <2>13, <2>14, <2>15 DEF IsLayout, A, n
  <2> QED
    BY <2>16 DEF e
<1> QED
  BY <1>11, <1>12

(* A text that goes on as w behind its first m pieces, or ends in w. *)

Uncuttable == {"space", "slash", "gt"}
Agrees(t, q, x) == t[q] = x \/ (q = Len(t) /\ x.kind \notin Uncuttable /\ t[q] \in CutPiece(x))
Follows(t, m, w) == \A k \in 1 .. Len(w) : m + k <= Len(t) => Agrees(t, m + k, w[k])

\* What follows a text follows the parts of it.
LEMMA FollowsPart ==
    ASSUME NEW t \in Seq(Pieces), NEW v \in Seq(Pieces), NEW w \in Seq(Pieces), NEW m \in Nat, NEW n \in Nat,
           Follows(t, m, v), Lies(v, n, w)
    PROVE  Follows(t, m + n, w)
<1>1. Len(t) \in Nat /\ Len(v) \in Nat /\ Len(w) \in Nat
  BY LenProperties
<1>2. n + Len(w) <= Len(v) /\ \A k \in 1 .. Len(w) : v[n + k] = w[k]
  BY DEF Lies
<1>3. ASSUME NEW k \in 1 .. Len(w), m + n + k <= Len(t) PROVE Agrees(t, m + n + k, w[k])
  <2> DEFINE i == n + k
  <2>1. i \in 1 .. Len(v) /\ m + i = m + n + k /\ m + i <= Len(t)
    BY <1>1, <1>2, <1>3
  <2>2. v[i] = w[k]
    BY <1>2
  <2> HIDE DEF i
  <2>3. Agrees(t, m + i, v[i])
    BY <2>1 DEF Follows
  <2> QED
    BY <2>1, <2>2, <2>3
<1> QED
  BY <1>3 DEF Follows

\* A piece cut short keeps its kind, and its name or no name.
LEMMA CutPieces ==
    ASSUME NEW x \in Pieces, NEW y \in CutPiece(x)
    PROVE  /\ y.kind = x.kind /\ y.cut /\ y \in Pieces
           /\ y.name = x.name \/ (y.name = "" /\ x.kind \in {"open", "end"})
<1> HIDE DEF AttributeValues
<1>1. y = [x EXCEPT !.cut = TRUE] \/ (y = [x EXCEPT !.cut = TRUE, !.name = ""] /\ x.kind \in {"open", "end"})
  BY DEF CutPiece
<1>2. CASE y = [x EXCEPT !.cut = TRUE]
  BY <1>2 DEF Pieces
<1>3. CASE y = [x EXCEPT !.cut = TRUE, !.name = ""] /\ x.kind \in {"open", "end"}
  <2>1. "" \in Words
    BY DEF Words
  <2>2. y = [kind |-> x.kind, name |-> "", value |-> x.value, cut |-> TRUE]
    BY <1>3 DEF Pieces
  <2> QED
    BY <1>3, <2>1, <2>2 DEF Pieces
<1> QED
  BY <1>1, <1>2, <1>3

\* What is left of a piece in a text that may be cut.
LEMMA Agreed ==
    ASSUME NEW t \in Seq(Pieces), NEW q, NEW x \in Pieces, Agrees(t, q, x)
    PROVE  /\ t[q].kind = x.kind
           /\ q # Len(t) \/ x.kind \in Uncuttable => t[q] = x
           /\ t[q] = x \/ t[q].cut
           /\ t[q].name = x.name \/ (t[q].name = "" /\ t[q].cut /\ q = Len(t))
<1>1. CASE t[q] = x
  BY <1>1
<1>2. CASE q = Len(t) /\ x.kind \notin Uncuttable /\ t[q] \in CutPiece(x)
  BY <1>2, CutPieces
<1> QED
  BY <1>1, <1>2 DEF Agrees

\* Texts made of pieces: what is where in an element that t follows.
LEMMA FollowsAt ==
    ASSUME NEW t \in Seq(Pieces), NEW w \in Seq(Pieces), NEW m \in Nat, NEW k \in 1 .. Len(w),
           Follows(t, m, w), m + k <= Len(t)
    PROVE  /\ t[m + k].kind = w[k].kind
           /\ m + k # Len(t) \/ w[k].kind \in Uncuttable => t[m + k] = w[k]
           /\ t[m + k] = w[k] \/ t[m + k].cut
           /\ t[m + k].name = w[k].name \/ (t[m + k].name = "" /\ t[m + k].cut /\ m + k = Len(t))
<1>1. w[k] \in Pieces
  BY ElementOfSeq
<1>2. Agrees(t, m + k, w[k])
  BY DEF Follows
<1> QED
  BY <1>1, <1>2, Agreed

Different(attributes) ==
    \A i, j \in 1 .. Len(attributes) : attributes[i].name = attributes[j].name => i = j

\* A number is even or odd.
LEMMA Halves == \A n \in Nat : \E d \in Nat : n = 2 * d \/ n = 2 * d + 1
<1> DEFINE T == {n \in Nat : \E d \in Nat : n = 2 * d \/ n = 2 * d + 1}
<1>1. 0 \in T
  OBVIOUS
<1>2. ASSUME NEW n \in Nat, n \in T PROVE n + 1 \in T
  <2>1. PICK d \in Nat : n = 2 * d \/ n = 2 * d + 1
    BY <1>2
  <2>2. CASE n = 2 * d
    <3>1. n + 1 = 2 * d + 1
      BY <2>2
    <3> QED
      BY <3>1
  <2>3. CASE n = 2 * d + 1
    <3> DEFINE k == d + 1
    <3>1. n + 1 = 2 * k /\ k \in Nat
      BY <2>3
    <3> HIDE DEF k
    <3> QED
      BY <3>1
  <2> QED
    BY <2>1, <2>2, <2>3
<1>3. \A n \in Nat : n \in T
  <2> HIDE DEF T
  <2> QED
    BY <1>1, <1>2, NatAll
<1> QED
  BY <1>3

\* An attribute that something follows is read.
LEMMA AttributeRead ==
    ASSUME NEW t \in Seq(Pieces), NEW m \in Nat, NEW e \in Seq(Pieces), NEW attributes \in AttributeLists,
           Follows(t, m, e), Different(attributes), 2 * Len(attributes) + 1 <= Len(e),
           \A j \in 1 .. Len(attributes) :
               e[2 * j] = Space /\ e[2 * j + 1] = AttributePiece(attributes[j]),
           NEW j \in 1 .. Len(attributes), m + (2 * j + 1) < Len(t)
    PROVE  LET read == AttributesOf(t, m + 2)
               rest == read[m + (2 * j + 2)]
           IN  read[m + 2 * j] = Result(rest.p, <<attributes[j]>> \o rest.attributes, <<>>, rest.error)
<1> DEFINE L == Len(t)
           A == Len(attributes)
           at == m + 2 * j
           p == m + (2 * j + 1)
           next == m + (2 * j + 2)
           read == AttributesOf(t, m + 2)
           rest == read[next]
<1>1. L \in Nat /\ A \in Nat /\ Len(e) \in Nat /\ j \in 1 .. A /\ 2 * A + 1 <= Len(e)
  BY LenProperties DEF AttributeLists
<1>2. /\ at \in 1 .. L /\ at = m + 2 * j /\ p = at + 1 /\ p \in 1 .. L /\ p < L /\ next = p + 1
      /\ at \in 0 .. L + 1 /\ p # 0 /\ at # 0 /\ p - 1 = m + 2 * j /\ at <= L /\ p <= L
  BY <1>1
<1>3. ASSUME NEW k \in 1 .. 2 * A + 1, m + k < L
      PROVE  t[m + k] = e[k] /\ m + k # 0 /\ m + k <= L
  <2>1. k \in 1 .. Len(e) /\ m + k <= L /\ m + k # L /\ m + k # 0
    BY <1>1, <1>3
  <2> QED
    BY <2>1, FollowsAt
<1>4. \A k \in 1 .. A : 2 * k \in 1 .. 2 * A + 1 /\ 2 * k + 1 \in 1 .. 2 * A + 1
  BY <1>1
<1>5. t[at] = Space /\ t[p] = AttributePiece(attributes[j])
  <2>1. t[m + 2 * j] = e[2 * j] /\ t[m + (2 * j + 1)] = e[2 * j + 1]
    <3>1. m + 2 * j < L /\ m + (2 * j + 1) < L
      BY <1>1, <1>2
    <3> QED
      BY <1>1, <1>3, <1>4, <3>1
  <2> QED
    BY <2>1
<1>6. SkipWhiteSpace(t, at) = p
  <2>1. Readable(t, at) /\ Is(t, at, "space")
    BY <1>2, <1>5, PieceFields DEF Readable, Is, Nowhere
  <2> HIDE DEF at, p
  <2> QED
    BY <1>2, <2>1 DEF SkipWhiteSpace
<1>7. /\ Readable(t, p) /\ Is(t, p, "attribute") /\ ~ t[p].cut
      /\ ~ Is(t, p, "slash") /\ ~ Is(t, p, "gt")
      /\ t[p].name = attributes[j].name /\ t[p].value = attributes[j].value
  BY <1>2, <1>5, PieceFields DEF Readable, Is, Nowhere
<1>8. AttributeParse(t, p) = next /\ next # Nowhere
  BY <1>2, <1>7 DEF AttributeParse, Nowhere
<1>9. ASSUME NEW k \in (m + 2) .. p - 1, Is(t, k, "attribute"), t[k].name = t[p].name PROVE FALSE
  <2> DEFINE i == k - m
  <2>1. i \in 2 .. 2 * j /\ k = m + i /\ i \in 1 .. 2 * A + 1 /\ m + i < L
    BY <1>1, <1>2
  <2>2. t[k] = e[i]
    BY <1>3, <2>1
  <2>3. \E l \in 1 .. j : i = 2 * l \/ (i = 2 * l + 1 /\ l < j)
    <3>1. i \in Nat
      BY <1>1, <2>1
    <3>2. PICK d \in Nat : i = 2 * d \/ i = 2 * d + 1
      BY <3>1, Halves
    <3> HIDE DEF i
    <3>3. d \in 1 .. j /\ (i = 2 * d + 1 => d < j)
      BY <1>1, <2>1, <3>2
    <3> QED
      BY <3>2, <3>3
  <2>4. PICK l \in 1 .. j : i = 2 * l \/ (i = 2 * l + 1 /\ l < j)
    BY <2>3
  <2>5. l \in 1 .. A /\ j \in 1 .. A
    BY <1>1
  <2>6. CASE i = 2 * l
    <3>1. t[k] = Space
      BY <2>2, <2>5, <2>6
    <3> QED
      BY <1>9, <3>1, PieceFields DEF Is
  <2>7. CASE i = 2 * l + 1 /\ l < j
    <3>1. t[k] = AttributePiece(attributes[l])
      BY <2>2, <2>5, <2>7
    <3>2. attributes[l].name = attributes[j].name
      BY <1>7, <1>9, <3>1, PieceFields
    <3>3. l = j
      BY <2>5, <3>2 DEF Different
    <3> QED
      BY <1>1, <2>7, <3>3
  <2> QED
    BY <2>4, <2>6, <2>7
<1>10. read[at] = AttributesStep(t, m + 2, read, at)
  BY <1>2, AttributesIs
<1>11. Attribute(t[p].name, t[p].value) = attributes[j]
  <2>1. attributes[j] \in [name : Words, value : AttributeValues]
    BY ElementOfSeq DEF AttributeLists
  <2>2. attributes[j] = [name |-> attributes[j].name, value |-> attributes[j].value]
    BY <2>1
  <2> QED
    BY <1>7, <2>2 DEF Attribute
<1> HIDE DEF read, at, p, next
<1>12. AttributesStep(t, m + 2, read, at) =
           CASE ~ Readable(t, p) -> Failed
             [] Is(t, p, "slash") \/ Is(t, p, "gt") -> Result(p, <<>>, <<>>, FALSE)
             [] OTHER ->
                  IF \/ next = Nowhere
                     \/ \E k \in (m + 2) .. p - 1 : Is(t, k, "attribute") /\ t[k].name = t[p].name
                  THEN Failed
                  ELSE Result(rest.p, <<Attribute(t[p].name, t[p].value)>> \o rest.attributes,
                              <<>>, rest.error)
  BY <1>6, <1>8, Zenon DEF AttributesStep
<1> HIDE DEF rest
<1>13. AttributesStep(t, m + 2, read, at) =
           Result(rest.p, <<Attribute(t[p].name, t[p].value)>> \o rest.attributes, <<>>, rest.error)
  <2> DEFINE twice == \E k \in (m + 2) .. p - 1 : Is(t, k, "attribute") /\ t[k].name = t[p].name
             got == Result(rest.p, <<Attribute(t[p].name, t[p].value)>> \o rest.attributes, <<>>, rest.error)
  <2>1. ~ twice
    BY <1>9
  <2> HIDE DEF twice, got
  <2>2. AttributesStep(t, m + 2, read, at) =
           CASE ~ Readable(t, p) -> Failed
             [] Is(t, p, "slash") \/ Is(t, p, "gt") -> Result(p, <<>>, <<>>, FALSE)
             [] OTHER -> IF next = Nowhere \/ twice THEN Failed ELSE got
    BY <1>12 DEF twice, got
  <2>3. AttributesStep(t, m + 2, read, at) = got
    BY <1>7, <1>8, <2>1, <2>2
  <2> QED
    BY <2>3 DEF got
<1> QED
  BY <1>10, <1>11, <1>13 DEF rest, read, at, next

\* Behind m pieces, at least one piece of a printed element e follows in t.
Begun(t, m, e, name, attributes, children, place) ==
    /\ t \in Seq(Pieces) /\ m \in Nat /\ m < Len(t)
    /\ name \in Words \ {""} /\ attributes \in AttributeLists /\ Different(attributes)
    /\ children \in Seq(Seq(Pieces))
    /\ IsLayout(e, name, attributes, children, place)
    /\ Follows(t, m, e)

\* Where the loop over the attributes ends.
Stop(attributes, children) == 2 * Len(attributes) + (IF Len(children) = 0 THEN 3 ELSE 2)

\* The types and sizes of a print that has begun.
LEMMA BegunIs ==
    ASSUME NEW t, NEW m, NEW e, NEW name, NEW attributes, NEW children, NEW place,
           Begun(t, m, e, name, attributes, children, place)
    PROVE  /\ Len(t) \in Nat /\ Len(attributes) \in Nat /\ Len(children) \in Nat /\ Len(e) \in Nat
           /\ t \in Seq(Pieces) /\ e \in Seq(Pieces) /\ m \in Nat
           /\ Stop(attributes, children) \in Nat /\ Stop(attributes, children) \in 1 .. Len(e)
           /\ Stop(attributes, children) < Len(e)
           /\ 2 * Len(attributes) + 1 < Stop(attributes, children)
           /\ Stop(attributes, children) = 2 * Len(attributes) + (IF Len(children) = 0 THEN 3 ELSE 2)
<1> DEFINE A == Len(attributes)
           n == Len(children)
<1>1. /\ t \in Seq(Pieces) /\ e \in Seq(Pieces) /\ m \in Nat /\ attributes \in AttributeLists
      /\ children \in Seq(Seq(Pieces)) /\ IsLayout(e, name, attributes, children, place)
  BY DEF Begun, IsLayout
<1>2. Len(t) \in Nat /\ A \in Nat /\ n \in Nat /\ Len(e) \in Nat
  BY <1>1, LenProperties DEF AttributeLists
<1>3. n = 0 => Len(e) = 2 * A + 4
  BY <1>1 DEF IsLayout
<1>4. n # 0 => Len(e) >= 2 * A + 3
  <2> SUFFICES ASSUME n # 0 PROVE Len(e) >= 2 * A + 3
    OBVIOUS
  <2>1. /\ place \in [0 .. n -> Nat] /\ place[0] = 2 * A + 2 /\ Len(e) = place[n] + 3
        /\ \A k \in 1 .. n : place[k] = place[k - 1] + 1 + Len(children[k])
    BY <1>1 DEF IsLayout
  <2>2. ASSUME NEW k \in 1 .. n PROVE place[k] >= place[k - 1]
    <3>1. children[k] \in Seq(Pieces)
      BY <1>1, ElementOfSeq
    <3>2. Len(children[k]) \in Nat /\ place[k - 1] \in Nat
      <4>1. k - 1 \in 0 .. n
        BY <1>2
      <4>2. Len(children[k]) \in Nat
        BY <3>1, LenProperties
      <4> HIDE DEF n
      <4> QED
        BY <2>1, <4>1, <4>2
    <3>3. place[k] = place[k - 1] + 1 + Len(children[k])
      BY <2>1
    <3> DEFINE x == place[k - 1]
               y == Len(children[k])
    <3> HIDE DEF x, y
    <3>4. x \in Nat /\ y \in Nat /\ place[k] = x + 1 + y
      BY <3>2, <3>3 DEF x, y
    <3>5. place[k] >= x
      BY <3>4
    <3> QED
      BY <3>5 DEF x
  <2> DEFINE T == {k \in Nat : k <= n => place[k] >= 2 * A + 2}
  <2> HIDE DEF A, n
  <2>3. 0 \in T
    BY <1>2, <2>1
  <2>4. ASSUME NEW k \in Nat, k \in T PROVE k + 1 \in T
    <3>1. CASE k + 1 <= n
      <4> DEFINE i == k + 1
      <4>1. i \in 1 .. n /\ i - 1 = k /\ k \in 0 .. n /\ i \in 0 .. n /\ k <= n
        BY <1>2, <3>1
      <4>2. place[i - 1] >= 2 * A + 2
        BY <2>4, <4>1
      <4> HIDE DEF i
      <4>3. place[i] >= place[i - 1] /\ place[i] \in Nat /\ place[i - 1] \in Nat
        BY <2>1, <2>2, <4>1
      <4>4. place[i] >= 2 * A + 2
        BY <1>2, <4>2, <4>3
      <4> QED
        BY <4>4 DEF i
    <3> QED
      BY <3>1
  <2>5. \A k \in Nat : k \in T
    <3> HIDE DEF T
    <3> QED
      BY <2>3, <2>4, NatAll
  <2>6. place[n] >= 2 * A + 2 /\ place[n] \in Nat
    BY <1>2, <2>1, <2>5
  <2> QED
    BY <1>2, <2>1, <2>6
<1>5. Stop(attributes, children) = 2 * A + (IF n = 0 THEN 3 ELSE 2)
  BY DEF Stop
<1> HIDE DEF A, n
<1>6. CASE n = 0
  <2>1. Stop(attributes, children) = 2 * A + 3
    BY <1>5, <1>6
  <2> QED
    BY <1>1, <1>2, <1>3, <1>5, <1>6, <2>1 DEF A, n
<1>7. CASE n # 0
  <2>1. Stop(attributes, children) = 2 * A + 2
    BY <1>5, <1>7
  <2> QED
    BY <1>1, <1>2, <1>4, <1>5, <1>7, <2>1 DEF A, n
<1> QED
  BY <1>6, <1>7

\* Something follows each of the first J attributes.
Followed(t, m, J) == \A j \in 1 .. J : m + (2 * j + 1) < Len(t)

\* Attributes read up to a place are the first of those printed.
LEMMA AttributesRead ==
    ASSUME NEW t, NEW m, NEW e, NEW name, NEW attributes, NEW children, NEW place,
           Begun(t, m, e, name, attributes, children, place),
           NEW J \in 0 .. Len(attributes), Followed(t, m, J),
           NEW p, NEW failed \in BOOLEAN,
           AttributesOf(t, m + 2)[m + (2 * J + 2)] = Result(p, <<>>, <<>>, failed)
    PROVE  Attributes(t, m + 2) = Result(p, SubSeq(attributes, 1, J), <<>>, failed)
<1> DEFINE A == Len(attributes)
           L == Len(t)
           read == AttributesOf(t, m + 2)
           Good(j) == read[m + (2 * j + 2)] = Result(p, SubSeq(attributes, j + 1, J), <<>>, failed)
           T == {k \in Nat : k <= J => Good(J - k)}
<1>1. /\ L \in Nat /\ A \in Nat /\ m \in Nat /\ J \in 0 .. A /\ t \in Seq(Pieces) /\ e \in Seq(Pieces)
      /\ attributes \in AttributeLists /\ Different(attributes) /\ Follows(t, m, e)
      /\ 2 * A + 1 <= Len(e)
  <2>1. Len(e) \in Nat /\ 2 * A + 1 < Len(e) /\ A \in Nat
    BY BegunIs
  <2>2. /\ Len(t) \in Nat /\ m \in Nat /\ t \in Seq(Pieces) /\ e \in Seq(Pieces)
    BY BegunIs
  <2>3. attributes \in AttributeLists /\ Different(attributes) /\ Follows(t, m, e)
    BY DEF Begun
  <2>4. 2 * A + 1 <= Len(e)
    BY <2>1
  <2> QED
    BY <2>1, <2>2, <2>3, <2>4
<1>2. \A j \in 1 .. A : e[2 * j] = Space /\ e[2 * j + 1] = AttributePiece(attributes[j])
  BY DEF Begun, IsLayout
<1> HIDE DEF A, L, read
<1>3. 0 \in T
  <2>1. SubSeq(attributes, J + 1, J) = <<>>
    BY <1>1, SubSeqEmpty
  <2>2. J - 0 = J
    BY <1>1
  <2>3. Good(J)
    BY <2>1 DEF read
  <2> QED
    BY <2>2, <2>3
<1>4. ASSUME NEW k \in Nat, k \in T PROVE k + 1 \in T
  <2>1. CASE k + 1 <= J
    <3> DEFINE j == J - k
    <3>1. /\ j \in 1 .. J /\ j \in 1 .. A /\ J - (k + 1) = j - 1 /\ 2 * (j - 1) + 2 = 2 * j
          /\ j - 1 + 1 = j /\ k <= J
      BY <1>1, <2>1
    <3>2. Good(j)
      BY <1>4, <3>1
    <3> HIDE DEF j
    <3>3. m + (2 * j + 1) < L
      BY <3>1 DEF L, Followed
    <3>4. read[m + 2 * j] = Result(read[m + (2 * j + 2)].p, <<attributes[j]>> \o read[m + (2 * j + 2)].attributes,
                                   <<>>, read[m + (2 * j + 2)].error)
      BY <1>1, <1>2, <3>1, <3>3, AttributeRead DEF A, L, read
    <3>5. read[m + 2 * j] = Result(p, <<attributes[j]>> \o SubSeq(attributes, j + 1, J), <<>>, failed)
      BY <3>2, <3>4 DEF Result
    <3>6. SubSeq(attributes, j, J) = <<attributes[j]>> \o SubSeq(attributes, j + 1, J)
      <4>1. J \in j .. Len(attributes) /\ j \in 1 .. Len(attributes)
        BY <1>1, <3>1 DEF A
      <4> QED
        BY <1>1, <4>1, SubSeqRecursiveFirst DEF AttributeLists
    <3>7. Good(j - 1)
      BY <3>1, <3>5, <3>6
    <3> QED
      BY <3>1, <3>7
  <2> QED
    BY <2>1
<1>5. \A k \in Nat : k \in T
  <2> HIDE DEF T
  <2> QED
    BY <1>3, <1>4, NatAll
<1>6. Good(0)
  BY <1>1, <1>5
<1>7. read[m + 2] = Result(p, SubSeq(attributes, 1, J), <<>>, failed)
  BY <1>1, <1>6
<1> QED
  BY <1>1, <1>7, AttributesIs DEF read

\* What SkipWhiteSpace skips.
LEMMA SkipIs ==
    ASSUME NEW S, NEW t \in Seq(S), NEW q \in Nat
    PROVE  /\ q \in 1 .. Len(t) /\ t[q].kind = "space" => SkipWhiteSpace(t, q) = q + 1
           /\ q \in 1 .. Len(t) /\ t[q].kind # "space" => SkipWhiteSpace(t, q) = q
           /\ q \notin 1 .. Len(t) => SkipWhiteSpace(t, q) = 0
           /\ Readable(t, q) <=> q \in 1 .. Len(t)
<1>1. Len(t) \in Nat
  OBVIOUS
<1>2. Readable(t, q) <=> q \in 1 .. Len(t)
  BY <1>1 DEF Readable, Nowhere
<1>3. Is(t, q, "space") <=> q \in 1 .. Len(t) /\ t[q].kind = "space"
  BY <1>2 DEF Is
<1>4. CASE q \in 1 .. Len(t) /\ t[q].kind = "space"
  <2>1. SkipWhiteSpace(t, q) = q + 1
    BY <1>2, <1>3, <1>4 DEF SkipWhiteSpace
  <2> QED
    BY <1>2, <1>4, <2>1
<1>5. CASE q \in 1 .. Len(t) /\ t[q].kind # "space"
  <2>1. SkipWhiteSpace(t, q) = q
    BY <1>2, <1>3, <1>5 DEF SkipWhiteSpace
  <2> QED
    BY <1>2, <1>5, <2>1
<1>6. CASE q \notin 1 .. Len(t)
  <2>1. SkipWhiteSpace(t, q) = 0
    BY <1>2, <1>3, <1>6 DEF SkipWhiteSpace, Nowhere
  <2> QED
    BY <1>2, <1>6, <2>1
<1> QED
  BY <1>4, <1>5, <1>6

\* A piece left has its kind.
LEMMA AgreedKind ==
    ASSUME NEW t \in Seq(Pieces), NEW q, NEW x \in Pieces, Agrees(t, q, x)
    PROVE  t[q].kind = x.kind
<1>1. CASE t[q] = x
  BY <1>1
<1>2. CASE q = Len(t) /\ x.kind \notin Uncuttable /\ t[q] \in CutPiece(x)
  BY <1>2, CutPieces
<1> QED
  BY <1>1, <1>2 DEF Agrees

\* The same, by its place in the print.
LEMMA KindAt ==
    ASSUME NEW t \in Seq(Pieces), NEW w \in Seq(Pieces), NEW m \in Nat, NEW k \in 1 .. Len(w),
           Follows(t, m, w), NEW x, w[k] = x, NEW q, q = m + k, q <= Len(t)
    PROVE  t[q].kind = x.kind
<1>1. w[k] \in Pieces
  BY ElementOfSeq
<1>2. Agrees(t, m + k, w[k])
  BY DEF Follows
<1>3. Agrees(t, q, x) /\ x \in Pieces
  BY <1>1, <1>2, Zenon
<1> QED
  BY <1>3, AgreedKind

\* A piece that is not the last one left is whole.
LEMMA AgreedPiece ==
    ASSUME NEW t \in Seq(Pieces), NEW q, NEW x \in Pieces, Agrees(t, q, x)
    PROVE  q # Len(t) \/ x.kind \in Uncuttable => t[q] = x
<1>1. CASE t[q] = x
  BY <1>1
<1>2. CASE q = Len(t) /\ x.kind \notin Uncuttable /\ t[q] \in CutPiece(x)
  BY <1>2, CutPieces
<1> QED
  BY <1>1, <1>2 DEF Agrees

\* The same, by its place in the print.
LEMMA PieceAt ==
    ASSUME NEW t \in Seq(Pieces), NEW w \in Seq(Pieces), NEW m \in Nat, NEW k \in 1 .. Len(w),
           Follows(t, m, w), NEW x, w[k] = x, NEW q, q = m + k, q <= Len(t)
    PROVE  q # Len(t) \/ x.kind \in Uncuttable => t[q] = x
<1>1. w[k] \in Pieces
  BY ElementOfSeq
<1>2. Agrees(t, m + k, w[k])
  BY DEF Follows
<1>3. Agrees(t, q, x) /\ x \in Pieces
  BY <1>1, <1>2, Zenon
<1> QED
  BY <1>3, AgreedPiece


\* A piece left has its name, or is the last and has none.
LEMMA AgreedName ==
    ASSUME NEW t \in Seq(Pieces), NEW q, NEW x \in Pieces, Agrees(t, q, x)
    PROVE  t[q].name = x.name \/ (t[q].name = "" /\ t[q].cut /\ q = Len(t))
<1>1. CASE t[q] = x
  BY <1>1
<1>2. CASE q = Len(t) /\ x.kind \notin Uncuttable /\ t[q] \in CutPiece(x)
  BY <1>2, CutPieces
<1> QED
  BY <1>1, <1>2 DEF Agrees

\* The same, by its place in the print.
LEMMA NameAt ==
    ASSUME NEW t \in Seq(Pieces), NEW w \in Seq(Pieces), NEW m \in Nat, NEW k \in 1 .. Len(w),
           Follows(t, m, w), NEW x, w[k] = x, NEW q, q = m + k, q <= Len(t)
    PROVE  t[q].name = x.name \/ (t[q].name = "" /\ t[q].cut /\ q = Len(t))
<1>1. w[k] \in Pieces
  BY ElementOfSeq
<1>2. Agrees(t, m + k, w[k])
  BY DEF Follows
<1>3. Agrees(t, q, x) /\ x \in Pieces
  BY <1>1, <1>2, Zenon
<1> QED
  BY <1>3, AgreedName

\* One step of reading attributes, by what is met.
LEMMA AttributesStepIs ==
    ASSUME NEW S, NEW t \in Seq(S), NEW from, NEW read, NEW at \in 0 .. Len(t) + 1, NEW p \in Nat,
           SkipWhiteSpace(t, at) = p
    PROVE  /\ p \notin 1 .. Len(t) => AttributesStep(t, from, read, at) = Result(0, <<>>, <<>>, TRUE)
           /\ p \in 1 .. Len(t) /\ t[p].kind \in {"slash", "gt"} =>
                  AttributesStep(t, from, read, at) = Result(p, <<>>, <<>>, FALSE)
           /\ p = Len(t) /\ t[p].kind = "attribute" =>
                  AttributesStep(t, from, read, at) = Result(0, <<>>, <<>>, TRUE)
<1> DEFINE next == AttributeParse(t, p)
           twice == \E k \in from .. p - 1 : Is(t, k, "attribute") /\ t[k].name = t[p].name
           got == Result(read[next].p, <<Attribute(t[p].name, t[p].value)>> \o read[next].attributes, <<>>, read[next].error)
<1>1. AttributesStep(t, from, read, at) =
          CASE ~ Readable(t, p) -> Failed
            [] Is(t, p, "slash") \/ Is(t, p, "gt") -> Result(p, <<>>, <<>>, FALSE)
            [] OTHER -> IF next = Nowhere \/ twice THEN Failed ELSE got
  BY Zenon DEF AttributesStep
<1>2. Readable(t, p) <=> p \in 1 .. Len(t)
  BY SkipIs
<1>3. \A kind : Is(t, p, kind) <=> p \in 1 .. Len(t) /\ t[p].kind = kind
  BY <1>2 DEF Is
<1>4. Failed = Result(0, <<>>, <<>>, TRUE)
  BY DEF Failed, Nowhere
<1>5. p = Len(t) => next = Nowhere
  BY DEF AttributeParse
<1> HIDE DEF next, twice, got
<1>6. CASE p \notin 1 .. Len(t)
  <2>1. AttributesStep(t, from, read, at) = Failed
    <3>1. ~ Readable(t, p) /\ ~ Is(t, p, "slash") /\ ~ Is(t, p, "gt")
      BY <1>2, <1>6 DEF Is
    <3> QED
      BY <1>1, <3>1
  <2>2. ~ (p = Len(t) /\ t[p].kind = "attribute") \/ p = 0
    BY <1>6
  <2> QED
    BY <1>4, <1>6, <2>1
<1>7. CASE p \in 1 .. Len(t) /\ t[p].kind \in {"slash", "gt"}
  <2>1. AttributesStep(t, from, read, at) = Result(p, <<>>, <<>>, FALSE)
    BY <1>1, <1>2, <1>3, <1>7
  <2> QED
    BY <1>7, <2>1
<1>8. CASE p \in 1 .. Len(t) /\ p = Len(t) /\ t[p].kind = "attribute"
  <2>1. AttributesStep(t, from, read, at) = Failed
    <3>1. Readable(t, p) /\ ~ Is(t, p, "slash") /\ ~ Is(t, p, "gt") /\ next = Nowhere
      BY <1>2, <1>5, <1>8 DEF Is
    <3> QED
      BY <1>1, <3>1
  <2> QED
    BY <1>4, <1>8, <2>1
<1> QED
  BY <1>6, <1>7, <1>8

\* The end of the tag is there.
TagEnds(t, m, attributes, children) == m + Stop(attributes, children) <= Len(t)

\* What is at the end of the attributes.
LEMMA AtStop ==
    ASSUME NEW t, NEW m, NEW e, NEW name, NEW attributes, NEW children, NEW place,
           Begun(t, m, e, name, attributes, children, place)
    PROVE  LET A == Len(attributes)
               q == m + Stop(attributes, children)
           IN  /\ m + (2 * A + 2) \in Nat /\ q \in Nat
               /\ q <= Len(t) => t[q].kind = (IF Len(children) = 0 THEN "slash" ELSE "gt")
               /\ q > Len(t) => SkipWhiteSpace(t, m + (2 * A + 2)) \notin 1 .. Len(t)
                                /\ SkipWhiteSpace(t, m + (2 * A + 2)) \in Nat
               /\ q <= Len(t) => SkipWhiteSpace(t, m + (2 * A + 2)) = q
<1> DEFINE A == Len(attributes)
           L == Len(t)
           n == Len(children)
           q == m + Stop(attributes, children)
           at == m + (2 * A + 2)
<1>1. /\ L \in Nat /\ A \in Nat /\ n \in Nat /\ m \in Nat /\ t \in Seq(Pieces) /\ e \in Seq(Pieces)
      /\ 2 * A + 2 \in 1 .. Len(e) /\ Stop(attributes, children) \in 1 .. Len(e)
      /\ Stop(attributes, children) = 2 * A + (IF n = 0 THEN 3 ELSE 2)
      /\ at \in Nat /\ q \in Nat
  <2>1. /\ L \in Nat /\ A \in Nat /\ n \in Nat /\ m \in Nat /\ t \in Seq(Pieces) /\ e \in Seq(Pieces)
        /\ Len(e) \in Nat /\ Stop(attributes, children) \in 1 .. Len(e)
        /\ 2 * A + 1 < Stop(attributes, children)
        /\ Stop(attributes, children) = 2 * A + (IF n = 0 THEN 3 ELSE 2)
    BY BegunIs
  <2> HIDE DEF L, A, n
  <2> QED
    BY <2>1
<1>2. Follows(t, m, e) /\ IsLayout(e, name, attributes, children, place)
  BY DEF Begun
<1>3. Piece("slash").kind = "slash" /\ Piece("gt").kind = "gt" /\ Space.kind = "space"
  BY PieceFields
<1>4. CASE n = 0
  <2>1. e[2 * A + 2] = Space /\ e[2 * A + 3] = Piece("slash") /\ q = m + (2 * A + 3) /\ q = at + 1
        /\ 2 * A + 3 \in 1 .. Len(e)
    BY <1>1, <1>2, <1>4 DEF IsLayout
  <2>2. at <= L => t[at].kind = "space"
    BY <1>1, <1>2, <1>3, <2>1, KindAt
  <2>3. q <= L => t[q].kind = "slash"
    BY <1>1, <1>2, <1>3, <2>1, KindAt
  <2> HIDE DEF at, q, L, A
  <2>4. at \in 1 .. L => SkipWhiteSpace(t, at) = q
    <3> SUFFICES ASSUME at \in 1 .. L PROVE SkipWhiteSpace(t, at) = q
      OBVIOUS
    <3>1. at \in 1 .. Len(t) /\ t[at].kind = "space"
      BY <1>1, <2>2 DEF L
    <3>2. SkipWhiteSpace(t, at) = at + 1
      BY <1>1, <3>1, SkipIs
    <3> QED
      BY <2>1, <3>2
  <2>5. at \notin 1 .. L => SkipWhiteSpace(t, at) = 0
    BY <1>1, SkipIs DEF L
  <2>6. at # 0
    BY <1>1 DEF at
  <2> QED
    BY <1>1, <1>4, <2>1, <2>3, <2>4, <2>5, <2>6 DEF at, q, L, A, n
<1>5. CASE n # 0
  <2>1. e[2 * A + 2] = Piece("gt") /\ q = m + (2 * A + 2) /\ q = at
    BY <1>1, <1>2, <1>5 DEF IsLayout
  <2>2. q <= L => t[q].kind = "gt"
    BY <1>1, <1>2, <1>3, <2>1, KindAt
  <2> HIDE DEF at, q, L, A
  <2>3. at \in 1 .. L => SkipWhiteSpace(t, at) = at
    <3> SUFFICES ASSUME at \in 1 .. L PROVE SkipWhiteSpace(t, at) = at
      OBVIOUS
    <3>1. at \in 1 .. Len(t) /\ at <= L
      BY <1>1 DEF L
    <3>2. t[at].kind # "space"
      BY <2>1, <2>2, <3>1
    <3> QED
      BY <1>1, <3>1, <3>2, SkipIs
  <2>4. at \notin 1 .. L => SkipWhiteSpace(t, at) = 0
    BY <1>1, SkipIs DEF L
  <2>5. at # 0
    BY <1>1 DEF at
  <2> QED
    BY <1>1, <1>5, <2>1, <2>2, <2>3, <2>4, <2>5 DEF at, q, L, A, n
<1> QED
  BY <1>4, <1>5

\* The attributes a are read from p on, and end at q.
ReadTo(t, p, q, a) == Attributes(t, p) = Result(q, a, <<>>, FALSE)

\* All attributes are read when the end of the tag is there.
LEMMA AttributesWhole ==
    ASSUME NEW t, NEW m, NEW e, NEW name, NEW attributes, NEW children, NEW place,
           Begun(t, m, e, name, attributes, children, place),
           TagEnds(t, m, attributes, children)
    PROVE  ReadTo(t, m + 2, m + Stop(attributes, children), attributes)
<1> DEFINE A == Len(attributes)
           q == m + Stop(attributes, children)
           at == m + (2 * A + 2)
<1>1. /\ Len(t) \in Nat /\ A \in Nat /\ m \in Nat /\ t \in Seq(Pieces)
      /\ 2 * A + 1 < Stop(attributes, children) /\ Stop(attributes, children) \in Nat
  BY BegunIs
<1>2. q \in 1 .. Len(t) /\ at \in 0 .. Len(t) + 1 /\ at \in Nat /\ q \in Nat
  BY <1>1 DEF TagEnds
<1>3. t[q].kind \in {"slash", "gt"} /\ SkipWhiteSpace(t, at) = q
  BY AtStop DEF TagEnds
<1>4. AttributesOf(t, m + 2)[at] = Result(q, <<>>, <<>>, FALSE)
  <2>1. AttributesOf(t, m + 2)[at] = AttributesStep(t, m + 2, AttributesOf(t, m + 2), at)
    BY <1>1, <1>2, AttributesIs
  <2> HIDE DEF q, at
  <2>2. AttributesStep(t, m + 2, AttributesOf(t, m + 2), at) = Result(q, <<>>, <<>>, FALSE)
    BY <1>1, <1>2, <1>3, AttributesStepIs
  <2> QED
    BY <2>1, <2>2
<1>5. A \in 0 .. A /\ Followed(t, m, A)
  BY <1>1, <1>2 DEF Followed
<1>6. Attributes(t, m + 2) = Result(q, SubSeq(attributes, 1, A), <<>>, FALSE)
  <2> DEFINE failed == FALSE
             J == Len(attributes)
  <2>1. /\ failed \in BOOLEAN /\ AttributesOf(t, m + 2)[m + (2 * J + 2)] = Result(q, <<>>, <<>>, failed)
        /\ J \in 0 .. Len(attributes) /\ Followed(t, m, J)
    BY <1>4, <1>5
  <2> HIDE DEF q, at, failed, J
  <2>2. Attributes(t, m + 2) = Result(q, SubSeq(attributes, 1, J), <<>>, failed)
    BY <2>1, AttributesRead
  <2> QED
    BY <2>2 DEF failed, J
<1>7. SubSeq(attributes, 1, A) = attributes
  BY SubSeqFull DEF Begun, AttributeLists
<1> QED
  BY <1>6, <1>7 DEF ReadTo

\* The text ends behind the first J attributes.
LastRead(t, m, attributes, children, J) ==
    /\ J \in 0 .. Len(attributes) /\ Followed(t, m, J)
    /\ J < Len(attributes) => Len(t) <= m + (2 * J + 3)
    /\ J = Len(attributes) => ~ TagEnds(t, m, attributes, children)

\* The first j of a sequence.
Part(seq, j) == SubSeq(seq, 1, j)

\* The attributes a are read from p on, then comes an error.
ReadUpTo(t, p, a) == Attributes(t, p) = Result(0, a, <<>>, TRUE)

\* Then these are read.
LEMMA AttributesCut ==
    ASSUME NEW t, NEW m, NEW e, NEW name, NEW attributes, NEW children, NEW place,
           Begun(t, m, e, name, attributes, children, place),
           NEW J, LastRead(t, m, attributes, children, J)
    PROVE  ReadUpTo(t, m + 2, Part(attributes, J))
<1> DEFINE A == Len(attributes)
           L == Len(t)
           at == m + (2 * J + 2)
           p == SkipWhiteSpace(t, at)
<1>0. /\ J \in 0 .. A /\ Followed(t, m, J)
      /\ J < A => L <= m + (2 * J + 3)
      /\ J = A => ~ TagEnds(t, m, attributes, children)
  BY DEF LastRead
<1>1. /\ L \in Nat /\ A \in Nat /\ m \in Nat /\ t \in Seq(Pieces) /\ e \in Seq(Pieces) /\ Len(e) \in Nat
      /\ 2 * A + 1 < Len(e) /\ Stop(attributes, children) \in Nat
  BY BegunIs
<1>2. m < L /\ Follows(t, m, e) /\ IsLayout(e, name, attributes, children, place)
  BY DEF Begun
<1>3. at \in 0 .. L + 1 /\ at \in Nat /\ at # 0
  <2>1. CASE J = 0
    BY <1>0, <1>1, <1>2, <2>1
  <2>2. CASE J # 0
    <3>1. m + (2 * J + 1) < L
      BY <1>0, <1>1, <2>2 DEF Followed
    <3> QED
      BY <1>0, <1>1, <3>1
  <2> QED
    BY <2>1, <2>2
<1>4. p \in Nat /\ (p \notin 1 .. L \/ (p = L /\ t[p].kind = "attribute"))
  <2>1. CASE J = A
    <3>1. m + Stop(attributes, children) > L
      BY <1>0, <1>1, <2>1 DEF TagEnds
    <3> QED
      BY <2>1, <3>1, AtStop
  <2>2. CASE J < A
    <3>1. /\ 2 * J + 2 \in 1 .. Len(e) /\ 2 * J + 3 \in 1 .. Len(e) /\ J + 1 \in 1 .. A
          /\ 2 * (J + 1) = 2 * J + 2 /\ 2 * (J + 1) + 1 = 2 * J + 3 /\ m + (2 * J + 3) = at + 1
          /\ L <= m + (2 * J + 3)
      BY <1>0, <1>1, <2>2
    <3>2. e[2 * J + 2] = Space /\ e[2 * J + 3] = AttributePiece(attributes[J + 1])
      <4> DEFINE i == J + 1
      <4>1. i \in 1 .. Len(attributes) /\ 2 * i = 2 * J + 2 /\ 2 * i + 1 = 2 * J + 3
        BY <3>1
      <4> HIDE DEF i
      <4>2. e[2 * i] = Space /\ e[2 * i + 1] = AttributePiece(attributes[i])
        BY <1>2, <4>1 DEF IsLayout
      <4> QED
        BY <4>1, <4>2 DEF i
    <3>3. at <= L => t[at].kind = "space"
      <4> DEFINE x == Space
                 i == 2 * J + 2
      <4>1. x.kind = "space" /\ at = m + i /\ e[i] = x /\ i \in 1 .. Len(e)
        BY <3>1, <3>2, PieceFields
      <4> HIDE DEF at, x, i
      <4>2. at <= L => t[at].kind = x.kind
        BY <1>1, <1>2, <4>1, KindAt
      <4> QED
        BY <4>1, <4>2
    <3>4. at + 1 <= L => t[at + 1].kind = "attribute"
      <4> DEFINE q == at + 1
                 x == AttributePiece(attributes[J + 1])
                 i == 2 * J + 3
      <4>1. x.kind = "attribute" /\ q = m + (2 * J + 3) /\ e[2 * J + 3] = x
        BY <3>1, <3>2, PieceFields
      <4>4. i \in 1 .. Len(e) /\ e[i] = x /\ q = m + i
        BY <3>1, <4>1
      <4> HIDE DEF q, x, i
      <4>2. q <= L => t[q].kind = x.kind
        BY <1>1, <1>2, <4>4, KindAt
      <4>3. q <= L => t[q].kind = "attribute"
        BY <4>1, <4>2
      <4> QED
        BY <4>3 DEF q
    <3> HIDE DEF at
    <3>5. CASE at <= L
      <4>1. p = at + 1 /\ L <= at + 1
        <5>1. at \in 1 .. Len(t) /\ t[at].kind = "space" /\ L <= at + 1
          BY <1>1, <1>3, <3>1, <3>3, <3>5
        <5> QED
          BY <1>1, <1>3, <5>1, SkipIs
      <4> HIDE DEF p
      <4> QED
        BY <1>1, <1>3, <3>4, <4>1
    <3>6. CASE ~ (at <= L)
      <4>1. p = 0
        BY <1>1, <1>3, <3>6, SkipIs
      <4> QED
        BY <4>1
    <3> QED
      BY <3>5, <3>6
  <2> QED
    BY <1>0, <1>1, <2>1, <2>2
<1>5. AttributesOf(t, m + 2)[at] = Result(0, <<>>, <<>>, TRUE)
  <2>1. AttributesOf(t, m + 2)[at] = AttributesStep(t, m + 2, AttributesOf(t, m + 2), at)
    BY <1>1, <1>3, AttributesIs
  <2>2. AttributesStep(t, m + 2, AttributesOf(t, m + 2), at) = Result(0, <<>>, <<>>, TRUE)
    <3>1. SkipWhiteSpace(t, at) = p
      OBVIOUS
    <3> HIDE DEF p, at
    <3> QED
      BY <1>1, <1>3, <1>4, <3>1, AttributesStepIs
  <2> QED
    BY <2>1, <2>2
<1> DEFINE failed == TRUE
<1>6. failed \in BOOLEAN /\ AttributesOf(t, m + 2)[m + (2 * J + 2)] = Result(0, <<>>, <<>>, failed)
  BY <1>5
<1> HIDE DEF failed
<1>7. Attributes(t, m + 2) = Result(0, SubSeq(attributes, 1, J), <<>>, failed)
  BY <1>0, <1>6, AttributesRead
<1> QED
  BY <1>7 DEF failed, Part, ReadUpTo

\* What lies behind the first of a sequence.
LEMMA LiesBehind ==
    ASSUME NEW S, NEW e \in Seq(S), NEW x \in S, NEW w \in Seq(S), NEW m \in Nat, Lies(e, m, <<x>> \o w)
    PROVE  e[m + 1] = x /\ Lies(e, m + 1, w) /\ m + 1 + Len(w) <= Len(e)
<1> DEFINE s == <<x>>
           v == s \o w
<1>1. s \in Seq(S) /\ Len(s) = 1 /\ s[1] = x
  BY Three
<1>2. v \in Seq(S) /\ Len(v) = 1 + Len(w) /\ Lies(v, 0, s) /\ Lies(v, 1, w)
  <2>1. v \in Seq(S) /\ Len(v) = Len(s) + Len(w) /\ Lies(v, 0, s) /\ Lies(v, Len(s), w)
    BY <1>1, LiesFirst
  <2> HIDE DEF v, s
  <2> QED
    BY <1>1, <2>1
<1>3. Lies(e, m, v)
  OBVIOUS
<1> HIDE DEF v, s
<1>4. Lies(e, m + 1, w)
  BY <1>2, <1>3, LiesWithin
<1>5. Len(w) \in Nat /\ Len(e) \in Nat
  BY LenProperties
<1>6. v[1] = x
  <2>1. 1 \in 1 .. Len(s) /\ 0 + 1 = 1
    BY <1>1
  <2>2. v[0 + 1] = s[1]
    BY <1>2, <2>1 DEF Lies
  <2> QED
    BY <1>1, <2>1, <2>2
<1>7. e[m + 1] = v[1] /\ m + Len(v) <= Len(e)
  <2>1. 1 \in 1 .. Len(v)
    BY <1>2, <1>5
  <2> QED
    BY <1>3, <2>1 DEF Lies
<1>8. m + 1 + Len(w) <= Len(e)
  BY <1>4 DEF Lies
<1> QED
  BY <1>4, <1>6, <1>7, <1>8

\* The children of a printed element, each behind white space.
LEMMA PlacesAre ==
    ASSUME NEW t, NEW m, NEW e, NEW name, NEW attributes, NEW children, NEW place,
           Begun(t, m, e, name, attributes, children, place), Len(children) # 0
    PROVE  /\ place \in [0 .. Len(children) -> Nat]
           /\ place[0] = Stop(attributes, children)
           /\ Len(e) = place[Len(children)] + 3
           /\ \A k \in 1 .. Len(children) :
                  /\ children[k] \in Seq(Pieces) /\ Len(children[k]) \in Nat
                  /\ place[k] = place[k - 1] + 1 + Len(children[k])
                  /\ e[place[k - 1] + 1] = Space
                  /\ Lies(e, place[k - 1] + 1, children[k])
           /\ e[place[Len(children)] + 1] = Space
           /\ e[place[Len(children)] + 2] = Named("end", name)
           /\ e[place[Len(children)] + 3] = Piece("gt")
<1> DEFINE n == Len(children)
<1>1. IsLayout(e, name, attributes, children, place) /\ children \in Seq(Seq(Pieces)) /\ e \in Seq(Pieces)
  BY DEF Begun, IsLayout
<1>2. n \in Nat
  BY BegunIs
<1>3. /\ place \in [0 .. n -> Nat] /\ place[0] = 2 * Len(attributes) + 2 /\ Len(e) = place[n] + 3
      /\ \A k \in 1 .. n :
             /\ place[k] = place[k - 1] + 1 + Len(children[k])
             /\ Lies(e, place[k - 1], <<Space>> \o children[k])
      /\ e[place[n] + 1] = Space /\ e[place[n] + 2] = Named("end", name) /\ e[place[n] + 3] = Piece("gt")
  BY <1>1 DEF IsLayout
<1>4. ASSUME NEW k \in 1 .. n
      PROVE  /\ children[k] \in Seq(Pieces) /\ Len(children[k]) \in Nat
             /\ e[place[k - 1] + 1] = Space /\ Lies(e, place[k - 1] + 1, children[k])
  <2> DEFINE w == children[k]
             a == place[k - 1]
  <2>1. w \in Seq(Pieces)
    BY <1>1, ElementOfSeq
  <2>2. a \in Nat /\ Lies(e, a, <<Space>> \o w)
    <3>1. k - 1 \in 0 .. n
      BY <1>2
    <3> HIDE DEF n
    <3> QED
      BY <1>3, <3>1
  <2>3. Space \in Pieces
    BY PieceKinds
  <2> HIDE DEF w, a
  <2>4. e[a + 1] = Space /\ Lies(e, a + 1, w)
    BY <1>1, <2>1, <2>2, <2>3, LiesBehind
  <2>5. Len(w) \in Nat
    BY <2>1, LenProperties
  <2> QED
    BY <2>1, <2>4, <2>5 DEF w, a
<1>5. Stop(attributes, children) = 2 * Len(attributes) + 2
  BY DEF Stop
<1> QED
  BY <1>3, <1>4, <1>5

\* Children are printed one behind the other.
LEMMA PlacesGrow ==
    ASSUME NEW t, NEW m, NEW e, NEW name, NEW attributes, NEW children, NEW place,
           Begun(t, m, e, name, attributes, children, place), Len(children) # 0
    PROVE  \A i, j \in 0 .. Len(children) : i <= j => place[i] <= place[j]
<1> DEFINE n == Len(children)
<1>1. /\ n \in Nat /\ place \in [0 .. n -> Nat]
      /\ \A k \in 1 .. n : Len(children[k]) \in Nat /\ place[k] = place[k - 1] + 1 + Len(children[k])
  BY BegunIs, PlacesAre
<1> HIDE DEF n
<1>2. ASSUME NEW k \in 1 .. n PROVE place[k - 1] <= place[k]
  <2> DEFINE x == place[k - 1]
             y == Len(children[k])
  <2>1. k - 1 \in 0 .. n /\ k \in 0 .. n
    BY <1>1
  <2>2. x \in Nat /\ y \in Nat /\ place[k] = x + 1 + y
    BY <1>1, <2>1
  <2> HIDE DEF x, y
  <2>3. x <= place[k]
    BY <2>2
  <2> QED
    BY <2>3 DEF x
<1>3. ASSUME NEW i \in 0 .. n PROVE \A j \in 0 .. n : i <= j => place[i] <= place[j]
  <2> DEFINE T == {j \in Nat : j \in i .. n => place[i] <= place[j]}
  <2>1. 0 \in T
    BY <1>1
  <2>2. ASSUME NEW j \in Nat, j \in T PROVE j + 1 \in T
    <3> DEFINE k == j + 1
    <3>1. CASE k \in i .. n /\ k # i
      <4>1. k \in 1 .. n /\ k - 1 = j /\ j \in i .. n /\ j \in 0 .. n /\ k \in 0 .. n
        BY <1>1, <3>1
      <4>2. place[i] <= place[j]
        BY <2>2, <4>1
      <4> HIDE DEF k
      <4>3. place[k - 1] <= place[k]
        BY <1>2, <4>1
      <4>4. place[i] \in Nat /\ place[j] \in Nat /\ place[k] \in Nat
        BY <1>1, <4>1
      <4>5. place[i] <= place[k]
        BY <4>1, <4>2, <4>3, <4>4
      <4> QED
        BY <4>5 DEF k
    <3>2. CASE k = i
      <4>1. place[i] <= place[k]
        BY <1>1, <3>2
      <4> QED
        BY <4>1
    <3> QED
      BY <3>1, <3>2
  <2>3. \A j \in Nat : j \in T
    <3> HIDE DEF T
    <3> QED
      BY <2>1, <2>2, NatAll
  <2> QED
    BY <1>1, <2>3
<1> QED
  BY <1>3 DEF n

\* What NodeParse makes of what follows the first m pieces.
NodeAt(t, m) == NodeParse(t, ReadValue(t), m + 1)
Unknown == [type |-> "unknown"]

\* One step of reading children, by what is met.
LEMMA ValueAt ==
    ASSUME NEW t \in Seq(Pieces), NEW at \in Nat
    PROVE  /\ at \in 0 .. Len(t) + 1 /\ SkipWhiteSpace(t, at) \notin 1 .. Len(t) /\ SkipWhiteSpace(t, at) \in Nat =>
                  ReadValue(t)[at] = Result(0, <<>>, <<>>, TRUE)
           /\ \A p \in 1 .. Len(t) :
                  at \in 0 .. Len(t) + 1 /\ SkipWhiteSpace(t, at) = p =>
                      /\ t[p].kind = "end" /\ t[p].name # "" =>
                             ReadValue(t)[at] = Result(p, <<>>, <<>>, FALSE)
                      /\ t[p].kind # "end" \/ t[p].name = "" =>
                             ReadValue(t)[at] = WithChild(NodeParse(t, ReadValue(t), p),
                                                          ReadValue(t)[NodeParse(t, ReadValue(t), p).p])
<1> DEFINE value == ReadValue(t)
           q == SkipWhiteSpace(t, at)
           child == NodeParse(t, value, q)
           linked == WithChild(child, value[child.p])
<1>1. ASSUME at \in 0 .. Len(t) + 1
      PROVE  value[at] =
                 CASE ~ Readable(t, q) -> Failed
                   [] Is(t, q, "end") /\ t[q].name # "" -> Result(q, <<>>, <<>>, FALSE)
                   [] OTHER -> linked
  <2>1. value[at] = ValueStep(t, value, at)
    BY <1>1, ValueIs
  <2> HIDE DEF value
  <2>2. ValueStep(t, value, at) =
                 CASE ~ Readable(t, q) -> Failed
                   [] Is(t, q, "end") /\ t[q].name # "" -> Result(q, <<>>, <<>>, FALSE)
                   [] OTHER -> linked
    BY Zenon DEF ValueStep
  <2> QED
    BY <2>1, <2>2
<1>2. Failed = Result(0, <<>>, <<>>, TRUE)
  BY DEF Failed, Nowhere
<1> HIDE DEF value, q, linked
<1>3. ASSUME at \in 0 .. Len(t) + 1, q \notin 1 .. Len(t), q \in Nat PROVE value[at] = Result(0, <<>>, <<>>, TRUE)
  <2>1. ~ Readable(t, q) /\ ~ Is(t, q, "end")
    BY <1>3, SkipIs DEF Is
  <2> QED
    BY <1>1, <1>2, <1>3, <2>1
<1>4. ASSUME at \in 0 .. Len(t) + 1, NEW p \in 1 .. Len(t), q = p, t[p].kind = "end", t[p].name # ""
      PROVE  value[at] = Result(p, <<>>, <<>>, FALSE)
  <2>1. Readable(t, q) /\ Is(t, q, "end") /\ t[q].name # ""
    <3>0. q \in 1 .. Len(t)
      BY <1>4, Zenon
    <3>1. q \in 1 .. Len(t) /\ q \in Nat
      BY <3>0
    <3>2. t[q].kind = "end" /\ t[q].name # ""
      BY <1>4, Zenon
    <3>3. Readable(t, q)
      BY <3>1, SkipIs
    <3> QED
      BY <3>2, <3>3 DEF Is
  <2> QED
    BY <1>1, <1>4, <2>1
<1>5. ASSUME at \in 0 .. Len(t) + 1, NEW p \in 1 .. Len(t), q = p, t[p].kind # "end" \/ t[p].name = ""
      PROVE  value[at] = linked
  <2>1. Readable(t, q) /\ ~ (Is(t, q, "end") /\ t[q].name # "")
    <3>0. q \in 1 .. Len(t)
      BY <1>5, Zenon
    <3>1. q \in 1 .. Len(t) /\ q \in Nat
      BY <3>0
    <3>2. t[q].kind # "end" \/ t[q].name = ""
      BY <1>5, Zenon
    <3>3. Readable(t, q)
      BY <3>1, SkipIs
    <3> QED
      BY <3>2, <3>3 DEF Is
  <2> QED
    BY <1>1, <1>5, <2>1
<1>6. \A p : q = p => linked = WithChild(NodeParse(t, value, p), value[NodeParse(t, value, p).p])
  BY DEF linked
<1> QED
  BY <1>3, <1>4, <1>5, <1>6 DEF value, q

\* w is read as node when it is all there, ...
ReadsWhole(w, node) ==
    \A t \in Seq(Pieces), m \in Nat :
        m < Len(t) /\ Follows(t, m, w) /\ m + Len(w) <= Len(t) =>
            NodeAt(t, m) = Parsed(m + Len(w) + 1, node, FALSE)
\* ... and as one of allowed, or as nothing known, when the text ends in it.
ReadsCut(w, allowed) ==
    \A t \in Seq(Pieces), m \in Nat :
        m < Len(t) /\ Follows(t, m, w) /\ Len(t) < m + Len(w) =>
            \/ NodeAt(t, m) = Parsed(Len(t) + 1, Unknown, FALSE)
            \/ \E y \in allowed : NodeAt(t, m) = Parsed(0, y, TRUE)
Opens(w) == Len(w) >= 1 /\ w[1].kind = "open"

\* The step that meets a child.
LEMMA ChildAt ==
    ASSUME NEW t, NEW m, NEW e, NEW name, NEW attributes, NEW children, NEW place,
           Begun(t, m, e, name, attributes, children, place),
           NEW k \in 1 .. Len(children), Opens(children[k]), NEW at, at = m + (place[k - 1] + 1)
    PROVE  /\ at \in Nat /\ Follows(t, at, children[k])
           /\ at < Len(t) => ReadValue(t)[at] = WithChild(NodeAt(t, at), ReadValue(t)[NodeAt(t, at).p])
<1> DEFINE w == children[k]
           a == place[k - 1]
           L == Len(t)
<1>1. /\ L \in Nat /\ m \in Nat /\ t \in Seq(Pieces) /\ e \in Seq(Pieces) /\ Len(children) \in Nat /\ Len(e) \in Nat
  BY BegunIs
<1>2. Len(children) # 0 /\ k - 1 \in 0 .. Len(children)
  BY <1>1
<1>3. a \in Nat
  <2>1. place \in [0 .. Len(children) -> Nat]
    BY <1>2, PlacesAre
  <2> QED
    BY <1>2, <2>1
<1>4. w \in Seq(Pieces) /\ Len(w) \in Nat /\ e[a + 1] = Space /\ Lies(e, a + 1, w)
  BY <1>2, PlacesAre
<1> HIDE DEF w, a
<1>5. Follows(t, m, e)
  BY DEF Begun
<1>6. at \in Nat /\ at = m + (a + 1)
  BY <1>1, <1>3 DEF a
<1> DEFINE b == a + 1
<1>9. b \in Nat /\ at = m + b /\ e[b] = Space /\ Lies(e, b, w) /\ b = a + 1
  BY <1>3, <1>4, <1>6
<1> HIDE DEF b
<1>7. Follows(t, at, w)
  <2>1. Follows(t, m + b, w)
    BY <1>1, <1>4, <1>5, <1>9, FollowsPart
  <2> QED
    BY <1>9, <2>1
<1>8. ASSUME at < L
      PROVE  ReadValue(t)[at] = WithChild(NodeAt(t, at), ReadValue(t)[NodeAt(t, at).p])
  <2> DEFINE p == at + 1
  <2>1. at \in 1 .. L /\ at \in 0 .. L + 1 /\ p \in 1 .. L /\ p = at + 1
    BY <1>1, <1>3, <1>6, <1>8
  <2>2. a + 1 \in 1 .. Len(e) /\ 1 \in 1 .. Len(w)
    <3>1. 1 <= Len(w)
      BY DEF Opens, w
    <3>2. a + 1 + Len(w) <= Len(e)
      BY <1>4 DEF Lies
    <3> QED
      BY <1>1, <1>3, <1>4, <3>1, <3>2
  <2>3. t[at].kind = "space"
    <3> DEFINE x == Space
    <3>1. b \in 1 .. Len(e) /\ e[b] = x /\ at = m + b /\ at <= L
      BY <1>1, <1>9, <2>1, <2>2
    <3> HIDE DEF x
    <3>2. t[at].kind = x.kind
      BY <1>1, <1>5, <3>1, KindAt
    <3> QED
      BY <3>2, PieceFields DEF x
  <2> HIDE DEF p
  <2>4. t[p].kind = "open"
    <3> DEFINE i == 1
               x == w[i]
    <3>1. i \in 1 .. Len(w) /\ w[i] = x /\ p = at + i /\ p <= Len(t)
      BY <1>1, <2>1, <2>2
    <3>2. x.kind = "open"
      BY DEF Opens, w
    <3> HIDE DEF i, x
    <3>4. t \in Seq(Pieces) /\ w \in Seq(Pieces) /\ at \in Nat /\ Follows(t, at, w)
      BY <1>1, <1>4, <1>6, <1>7
    <3>5. x \in Pieces
      BY <3>1, <3>4, ElementOfSeq
    <3>6. Agrees(t, p, x)
      BY <3>1, <3>4, Zenon DEF Follows
    <3>3. t[p].kind = x.kind
      BY <3>4, <3>5, <3>6, AgreedKind
    <3> QED
      BY <3>2, <3>3
  <2>5. SkipWhiteSpace(t, at) = p
    <3>1. SkipWhiteSpace(t, at) = at + 1
      BY <1>1, <1>6, <2>1, <2>3, SkipIs
    <3> QED
      BY <2>1, <3>1
  <2>6. ReadValue(t)[at] = WithChild(NodeParse(t, ReadValue(t), p), ReadValue(t)[NodeParse(t, ReadValue(t), p).p])
    <3>1. t[p].kind # "end"
      BY <2>4
    <3> QED
      BY <1>1, <1>6, <2>1, <2>5, <3>1, ValueAt
  <2>7. NodeParse(t, ReadValue(t), p) = NodeAt(t, at)
    BY <2>1 DEF NodeAt
  <2> QED
    BY <2>6, <2>7
<1> QED
  BY <1>6, <1>7, <1>8 DEF w

\* The first K children are all there: the others follow them.
LEMMA ChildrenRead ==
    ASSUME NEW t, NEW m, NEW e, NEW name, NEW attributes, NEW children, NEW place,
           Begun(t, m, e, name, attributes, children, place), Len(children) # 0,
           NEW N, NEW nodes \in Seq(N), Len(nodes) = Len(children),
           \A k \in 1 .. Len(children) : Opens(children[k]) /\ ReadsWhole(children[k], nodes[k]),
           NEW K \in 0 .. Len(children), m + place[K] <= Len(t),
           NEW p, NEW c \in Seq(N), NEW failed \in BOOLEAN,
           ReadValue(t)[m + (place[K] + 1)] = Result(p, <<>>, c, failed)
    PROVE  ReadValue(t)[m + (place[0] + 1)] = Result(p, <<>>, SubSeq(nodes, 1, K) \o c, failed)
<1> DEFINE L == Len(t)
           n == Len(children)
           value == ReadValue(t)
           Good(j) == value[m + (place[j] + 1)] = Result(p, <<>>, SubSeq(nodes, j + 1, K) \o c, failed)
           T == {k \in Nat : k <= K => Good(K - k)}
<1>1. /\ L \in Nat /\ n \in Nat /\ m \in Nat /\ t \in Seq(Pieces)
      /\ place \in [0 .. n -> Nat]
  BY BegunIs, PlacesAre
<1>2. \A j \in 0 .. K : m + place[j] <= L
  <2> TAKE j \in 0 .. K
  <2>1. j \in 0 .. n /\ K \in 0 .. n /\ j <= K
    BY <1>1
  <2>2. place[j] <= place[K]
    BY <2>1, PlacesGrow
  <2>3. place[j] \in Nat /\ place[K] \in Nat
    BY <1>1, <2>1
  <2> QED
    BY <1>1, <2>2, <2>3
<1> HIDE DEF value
<1>3. 0 \in T
  <2>1. SubSeq(nodes, K + 1, K) = <<>>
    BY <1>1, SubSeqEmpty
  <2>2. <<>> \o c = c
    BY ConcatEmptySeq
  <2>3. Good(K)
    BY <2>1, <2>2 DEF value
  <2>4. K - 0 = K
    BY <1>1
  <2> QED
    BY <2>3, <2>4
<1>4. ASSUME NEW j \in Nat, j \in T PROVE j + 1 \in T
  <2>1. CASE j + 1 <= K
    <3> DEFINE k == K - j
               w == children[k]
               at == m + (place[k - 1] + 1)
               s == SubSeq(nodes, k + 1, K)
    <3>1. k \in 1 .. K /\ k \in 1 .. n /\ K - (j + 1) = k - 1 /\ k - 1 + 1 = k /\ j <= K /\ k \in 0 .. K /\ k - 1 \in 0 .. n
          /\ k \in 0 .. n /\ K \in k .. n
      BY <1>1, <2>1
    <3>2. Good(k)
      BY <1>4, <3>1
    <3> HIDE DEF k
    <3>3. /\ w \in Seq(Pieces) /\ Len(w) \in Nat /\ Opens(w) /\ ReadsWhole(w, nodes[k])
          /\ place[k] = place[k - 1] + 1 + Len(w) /\ place[k - 1] \in Nat /\ place[k] \in Nat
      <4>1. w \in Seq(Pieces) /\ Len(w) \in Nat /\ place[k] = place[k - 1] + 1 + Len(w)
        BY <3>1, PlacesAre
      <4>2. Opens(w) /\ ReadsWhole(w, nodes[k])
        BY <3>1
      <4> HIDE DEF n, w
      <4> QED
        BY <1>1, <3>1, <4>1, <4>2
    <3>4. m + place[k] <= L
      BY <1>2, <3>1
    <3>5. at \in Nat /\ at < L /\ at + Len(w) <= L /\ at + Len(w) + 1 = m + (place[k] + 1)
      <4> DEFINE a == place[k - 1]
                 b == place[k]
                 l == Len(w)
      <4>1. a \in Nat /\ b \in Nat /\ l \in Nat /\ l >= 1 /\ b = a + 1 + l /\ m + b <= L
        BY <3>3, <3>4 DEF Opens
      <4>2. at = m + (a + 1)
        OBVIOUS
      <4> HIDE DEF a, b, l, at
      <4>3. at \in Nat /\ at < L /\ at + l <= L /\ at + l + 1 = m + (b + 1)
        BY <1>1, <4>1, <4>2
      <4> QED
        BY <4>3 DEF b, l
    <3>6. /\ Follows(t, at, w)
          /\ value[at] = WithChild(NodeAt(t, at), value[NodeAt(t, at).p])
      <4>1. at = m + (place[k - 1] + 1) /\ k \in 1 .. Len(children) /\ Opens(children[k])
        BY <3>1, <3>3
      <4> HIDE DEF at
      <4>2. /\ Follows(t, at, children[k])
            /\ at < Len(t) => ReadValue(t)[at] = WithChild(NodeAt(t, at), ReadValue(t)[NodeAt(t, at).p])
        BY <4>1, ChildAt
      <4> QED
        BY <3>5, <4>2 DEF value
    <3> HIDE DEF at, w
    <3>7. NodeAt(t, at) = Parsed(at + Len(w) + 1, nodes[k], FALSE)
      BY <1>1, <3>3, <3>5, <3>6 DEF ReadsWhole
    <3>8. NodeAt(t, at).p = m + (place[k] + 1)
      BY <3>5, <3>7 DEF Parsed
    <3>9. value[NodeAt(t, at).p] = Result(p, <<>>, s \o c, failed)
      BY <3>2, <3>8
    <3>10. value[at] = Result(p, <<>>, <<nodes[k]>> \o (s \o c), failed)
      <4> DEFINE d == s \o c
      <4> HIDE DEF d
      <4>1. value[at] = WithChild(Parsed(at + Len(w) + 1, nodes[k], FALSE), Result(p, <<>>, d, failed))
        BY <3>6, <3>7, <3>9 DEF d
      <4>2. value[at] = Result(p, <<>>, <<nodes[k]>> \o d, failed \/ FALSE)
        BY <4>1 DEF WithChild, Parsed, Result
      <4>3. (failed \/ FALSE) = failed
        OBVIOUS
      <4> QED
        BY <4>2, <4>3 DEF d
    <3>11. <<nodes[k]>> \o (s \o c) = SubSeq(nodes, k, K) \o c
      <4>1. nodes[k] \in N /\ k \in 1 .. Len(nodes) /\ K \in k .. Len(nodes)
        BY <3>1, ElementOfSeq
      <4>2. <<nodes[k]>> \in Seq(N)
        BY <4>1, Three
      <4>3. s \in Seq(N)
        <5>1. \A i \in k + 1 .. K : nodes[i] \in N
          <6> TAKE i \in k + 1 .. K
          <6>1. i \in 1 .. Len(nodes)
            BY <1>1, <3>1
          <6> QED
            BY <6>1, ElementOfSeq
        <5>2. k + 1 \in Int /\ K \in Int
          BY <3>1
        <5> QED
          BY <5>1, <5>2, SubSeqProperties
      <4>4. SubSeq(nodes, k, K) = <<nodes[k]>> \o s
        BY <4>1, SubSeqRecursiveFirst
      <4> DEFINE a == <<nodes[k]>>
      <4> HIDE DEF s, a
      <4>5. (a \o s) \o c = a \o (s \o c)
        BY <4>2, <4>3, ConcatAssociative DEF a
      <4> QED
        BY <4>4, <4>5, Zenon DEF a
    <3>12. Good(k - 1)
      BY <3>1, <3>10, <3>11 DEF at
    <3> QED
      BY <3>1, <3>12
  <2> QED
    BY <2>1
<1>5. \A k \in Nat : k \in T
  <2> HIDE DEF T
  <2> QED
    BY <1>3, <1>4, NatAll
<1>6. Good(0)
  <2>1. K \in Nat /\ K <= K /\ K - K = 0
    BY <1>1
  <2>2. Good(K - K)
    <3> HIDE DEF Good
    <3> QED
      BY <1>5, <2>1
  <2> QED
    BY <2>1, <2>2
<1>7. value[m + (place[0] + 1)] = Result(p, <<>>, SubSeq(nodes, 1, K) \o c, failed)
  BY <1>6
<1> QED
  BY <1>7 DEF value

\* All of w is read as node, a part of it, or nothing known.
WholeAt(t, m, w, node) == NodeAt(t, m) = Parsed(m + Len(w) + 1, node, FALSE)
BrokenAt(t, m, node) == NodeAt(t, m) = Parsed(0, node, TRUE)
LostAt(t, m) == NodeAt(t, m) = Parsed(Len(t) + 1, Unknown, FALSE)

\* The piece an element begins with.
LEMMA OpenAt ==
    ASSUME NEW t, NEW m, NEW e, NEW name, NEW attributes, NEW children, NEW place,
           Begun(t, m, e, name, attributes, children, place)
    PROVE  /\ m + 1 \in 1 .. Len(t) /\ m + 1 \in Nat
           /\ t[m + 1].kind = "open"
           /\ t[m + 1].name = name \/ (t[m + 1].name = "" /\ m + 1 = Len(t))
           /\ m + 1 # Len(t) \/ t[m + 1] = e[1] => t[m + 1].name = name /\ ~ t[m + 1].cut
<1> DEFINE i == 1
           x == Named("open", name)
           q == m + i
<1>1. /\ Len(t) \in Nat /\ m \in Nat /\ t \in Seq(Pieces) /\ e \in Seq(Pieces) /\ Len(e) \in Nat
      /\ Stop(attributes, children) \in 1 .. Len(e)
  BY BegunIs
<1>2. m < Len(t) /\ Follows(t, m, e) /\ name \in Words \ {""} /\ e[i] = x
  BY DEF Begun, IsLayout
<1>3. x.kind = "open" /\ x.name = name /\ ~ x.cut
  BY PieceFields
<1>4. i \in 1 .. Len(e) /\ q = m + i /\ q <= Len(t) /\ q \in 1 .. Len(t) /\ q \in Nat
  <2>1. 1 <= Len(e)
    BY <1>1
  <2>2. m < Len(t)
    BY <1>2
  <2> QED
    BY <1>1, <2>1, <2>2
<1>5. x \in Pieces
  BY <1>2, PieceKinds DEF Kinds
<1> HIDE DEF x
<1>6. q = m + 1 /\ e[1] = x
  BY <1>2
<1> HIDE DEF i, q
<1>7. Agrees(t, q, x)
  BY <1>1, <1>2, <1>4, Zenon DEF Follows
<1>8. t[q].kind = x.kind
  BY <1>1, <1>5, <1>7, AgreedKind
<1>9. q # Len(t) \/ x.kind \in Uncuttable => t[q] = x
  BY <1>1, <1>5, <1>7, AgreedPiece
<1>10. t[q].name = x.name \/ (t[q].name = "" /\ t[q].cut /\ q = Len(t))
  BY <1>1, <1>5, <1>7, AgreedName
<1>11. t[q].name = name \/ (t[q].name = "" /\ q = Len(t))
  BY <1>3, <1>10
<1>12. q # Len(t) \/ t[q] = x => t[q].name = name /\ ~ t[q].cut
  BY <1>3, <1>9
<1>13. t[q].kind = "open"
  BY <1>3, <1>8
<1> QED
  BY <1>4, <1>6, <1>11, <1>12, <1>13

\* What is read at a start tag.
LEMMA NodeIs ==
    ASSUME NEW t \in Seq(Pieces), NEW m \in Nat, m < Len(t), t[m + 1].kind = "open"
    PROVE  /\ t[m + 1].name = "" => NodeAt(t, m) = Parsed(m + 2, Unknown, FALSE)
           /\ t[m + 1].name # "" => NodeAt(t, m) = ElementParse(t, ReadValue(t), m + 1)
<1> DEFINE p == m + 1
           value == ReadValue(t)
<1>1. p \in 1 .. Len(t) /\ p \in Nat /\ p + 1 = m + 2
  OBVIOUS
<1>2. Readable(t, p)
  BY <1>1, SkipIs
<1>3. t[p].kind = "open"
  OBVIOUS
<1> HIDE DEF p, value
<1>4. Identify(t, p) = IF t[p].name # "" THEN "element" ELSE "unknown"
  <2>1. ~ Is(t, p, "declaration") /\ Is(t, p, "open")
    BY <1>2, <1>3 DEF Is
  <2> QED
    BY <2>1 DEF Identify
<1>5. NodeParse(t, value, p) =
          CASE Identify(t, p) = "element" -> ElementParse(t, value, p)
            [] Identify(t, p) = "declaration" -> Parsed(p + 1, [type |-> "declaration"], FALSE)
            [] OTHER -> Parsed(p + 1, [type |-> "unknown"], FALSE)
  BY DEF NodeParse
<1>6. t[p].name = "" => NodeParse(t, value, p) = Parsed(p + 1, Unknown, FALSE)
  BY <1>4, <1>5 DEF Unknown
<1>7. t[p].name # "" => NodeParse(t, value, p) = ElementParse(t, value, p)
  BY <1>4, <1>5
<1> QED
  BY <1>1, <1>6, <1>7 DEF NodeAt, p, value

\* The text ends before the attributes do.
LEMMA TagCut ==
    ASSUME NEW t, NEW m, NEW e, NEW name, NEW attributes, NEW children, NEW place,
           Begun(t, m, e, name, attributes, children, place),
           ~ TagEnds(t, m, attributes, children)
    PROVE  /\ \/ LostAt(t, m)
              \/ \E j \in 0 .. Len(attributes) :
                     BrokenAt(t, m, Element(name, Part(attributes, j), <<>>))
           /\ \A j : t[m + 1] = e[1] /\ LastRead(t, m, attributes, children, j) =>
                         BrokenAt(t, m, Element(name, Part(attributes, j), <<>>))
<1> DEFINE A == Len(attributes)
           L == Len(t)
           p == m + 1
           value == ReadValue(t)
           node(j) == Parsed(0, Element(name, Part(attributes, j), <<>>), TRUE)
<1>1. /\ L \in Nat /\ A \in Nat /\ m \in Nat /\ t \in Seq(Pieces) /\ Stop(attributes, children) \in Nat
      /\ 2 * A + 1 < Stop(attributes, children)
  BY BegunIs
<1>2. m < L /\ name # ""
  BY DEF Begun
<1>3. /\ p \in 1 .. L /\ p \in Nat /\ p + 1 = m + 2
      /\ t[p].kind = "open"
      /\ t[p].name = name \/ (t[p].name = "" /\ p = L)
      /\ p # L \/ t[p] = e[1] => t[p].name = name /\ ~ t[p].cut
  <2>1. p + 1 = m + 2
    BY <1>1
  <2>2. /\ p \in 1 .. L /\ p \in Nat
        /\ t[p].kind = "open"
        /\ t[p].name = name \/ (t[p].name = "" /\ p = L)
        /\ p # L \/ t[p] = e[1] => t[p].name = name /\ ~ t[p].cut
    BY OpenAt, Zenon
  <2> QED
    BY <2>1, <2>2
<1>4. t[p].name = "" => NodeAt(t, m) = Parsed(L + 1, Unknown, FALSE)
  <2> SUFFICES ASSUME t[p].name = "" PROVE NodeAt(t, m) = Parsed(L + 1, Unknown, FALSE)
    OBVIOUS
  <2>1. m + 2 = L + 1
    BY <1>1, <1>2, <1>3
  <2>2. NodeAt(t, m) = Parsed(m + 2, Unknown, FALSE)
    BY <1>1, <1>2, <1>3, NodeIs
  <2> QED
    BY <2>1, <2>2
<1>5. t[p].name = name => NodeAt(t, m) = ElementParse(t, value, p)
  BY <1>1, <1>2, <1>3, NodeIs
<1> HIDE DEF value
<1>6. Part(attributes, 0) = <<>>
  BY SubSeqEmpty DEF Part
<1>7. t[p].name = name /\ t[p].cut => NodeAt(t, m) = node(0)
  <2> SUFFICES ASSUME t[p].name = name, t[p].cut PROVE NodeAt(t, m) = node(0)
    OBVIOUS
  <2>1. ElementParse(t, value, p) = Unended(name, <<>>, <<>>)
    BY ElementCases
  <2> QED
    BY <1>5, <1>6, <2>1 DEF Unended, Nowhere
<1>8. ASSUME NEW j, t[p].name = name, ~ t[p].cut, LastRead(t, m, attributes, children, j)
      PROVE  NodeAt(t, m) = node(j)
  <2>1. ReadUpTo(t, m + 2, Part(attributes, j))
    BY <1>8, AttributesCut
  <2>2. Attributes(t, p + 1).error /\ Attributes(t, p + 1).attributes = Part(attributes, j)
    <3>1. Attributes(t, p + 1) = Result(0, Part(attributes, j), <<>>, TRUE)
      BY <1>3, <2>1 DEF ReadUpTo
    <3> HIDE DEF p
    <3> QED
      BY <3>1 DEF Result
  <2> HIDE DEF p
  <2>3. ElementParse(t, value, p) = Unended(name, Part(attributes, j), <<>>)
    BY <1>8, <2>2, ElementCases
  <2> QED
    BY <1>5, <1>8, <2>3 DEF Unended, Nowhere
<1>9. \E j \in 0 .. A : LastRead(t, m, attributes, children, j)
  <2> DEFINE K == {j \in 0 .. A : j = 0 \/ m + (2 * j + 1) < L}
             j == Latest(K)
  <2> USE DEF LastRead
  <2>0. \A k : k \in 0 .. A /\ Followed(t, m, k) /\ (k < A => L <= m + (2 * k + 3)) =>
            LastRead(t, m, attributes, children, k)
    OBVIOUS
  <2> HIDE DEF A, LastRead
  <2>1. 0 \in K /\ K \in SUBSET (0 .. A)
    BY <1>1
  <2>2. j \in K /\ \A i \in K : i <= j
    <3> HIDE DEF K
    <3> QED
      BY <1>1, <2>1, LatestIs
  <2>3. j \in 0 .. A /\ (j = 0 \/ m + (2 * j + 1) < L)
    BY <2>2
  <2>4. j < A => ~ (m + (2 * (j + 1) + 1) < L)
    <3> SUFFICES ASSUME j < A, m + (2 * (j + 1) + 1) < L PROVE FALSE
      OBVIOUS
    <3> DEFINE k == j + 1
    <3>1. k \in 0 .. A /\ m + (2 * k + 1) < L /\ ~ (k <= j)
      BY <1>1, <2>3
    <3> HIDE DEF k, j
    <3>2. k \in K
      BY <3>1
    <3> QED
      BY <2>2, <3>1, <3>2
  <2> HIDE DEF j, K
  <2>5. Followed(t, m, j)
    BY <1>1, <2>3 DEF Followed
  <2>6. j < A => L <= m + (2 * j + 3)
    BY <1>1, <2>3, <2>4
  <2> QED
    BY <2>0, <2>3, <2>5, <2>6
<1> HIDE DEF node
<1>10. NodeAt(t, m) = Parsed(L + 1, Unknown, FALSE) \/ \E j \in 0 .. A : NodeAt(t, m) = node(j)
  <2>1. CASE t[p].name = ""
    BY <1>4, <2>1
  <2>2. CASE t[p].name = name /\ t[p].cut
    <3>1. 0 \in 0 .. A
      BY <1>1
    <3> QED
      BY <1>7, <2>2, <3>1
  <2>3. CASE t[p].name = name /\ ~ t[p].cut
    BY <1>8, <1>9, <2>3
  <2> QED
    BY <1>3, <2>1, <2>2, <2>3
<1>11. ASSUME NEW j, t[p] = e[1], LastRead(t, m, attributes, children, j)
       PROVE  NodeAt(t, m) = node(j)
  <2>1. t[p].name = name /\ ~ t[p].cut
    BY <1>3, <1>11
  <2> QED
    BY <1>8, <1>11, <2>1
<1> QED
  BY <1>10, <1>11 DEF node, LostAt, BrokenAt

\* An element with children, where inside is what ReadValue gives.
ElementIs(t, m, name, attributes, inside) ==
    NodeAt(t, m) = IF EndTagFollows(t, name, inside)
                   THEN Parsed(inside.p + 2, Element(name, attributes, inside.children), inside.error)
                   ELSE Unended(name, attributes, inside.children)

\* The tag is there, and all its attributes.
LEMMA TagWhole ==
    ASSUME NEW t, NEW m, NEW e, NEW name, NEW attributes, NEW children, NEW place,
           Begun(t, m, e, name, attributes, children, place),
           TagEnds(t, m, attributes, children)
    PROVE  /\ NodeAt(t, m) = ElementParse(t, ReadValue(t), m + 1)
           /\ t[m + 1].name = name /\ ~ t[m + 1].cut
           /\ Attributes(t, m + 1 + 1).p = m + Stop(attributes, children)
           /\ Attributes(t, m + 1 + 1).attributes = attributes
           /\ ~ Attributes(t, m + 1 + 1).error
<1>1. /\ Len(t) \in Nat /\ m \in Nat /\ t \in Seq(Pieces) /\ Stop(attributes, children) \in Nat
      /\ Len(attributes) \in Nat /\ 2 * Len(attributes) + 1 < Stop(attributes, children)
  BY BegunIs
<1>2. m < Len(t) /\ m + Stop(attributes, children) <= Len(t) /\ name # ""
  BY DEF Begun, TagEnds
<1>3. m + 1 # Len(t) /\ m + 1 + 1 = m + 2
  <2> DEFINE s == Stop(attributes, children)
             A == Len(attributes)
             L == Len(t)
  <2>1. s \in Nat /\ A \in Nat /\ L \in Nat /\ m \in Nat /\ 2 * A + 1 < s /\ m + s <= L
    BY <1>1, <1>2
  <2> HIDE DEF s, A, L
  <2>2. m + 1 # L /\ m + 1 + 1 = m + 2
    BY <2>1
  <2> QED
    BY <2>2 DEF L
<1> DEFINE p == m + 1
<1>4. /\ t[p].kind = "open"
      /\ p # Len(t) \/ t[p] = e[1] => t[p].name = name /\ ~ t[p].cut
  BY OpenAt, Zenon
<1>5. t[p].kind = "open" /\ t[p].name = name /\ ~ t[p].cut
  BY <1>3, <1>4
<1>6. NodeAt(t, m) = ElementParse(t, ReadValue(t), m + 1)
  BY <1>1, <1>2, <1>5, NodeIs
<1>7. ReadTo(t, m + 2, m + Stop(attributes, children), attributes)
  BY AttributesWhole
<1>8. /\ Attributes(t, m + 2).p = m + Stop(attributes, children)
      /\ Attributes(t, m + 2).attributes = attributes
      /\ ~ Attributes(t, m + 2).error
  BY <1>7 DEF Result, ReadTo
<1> QED
  BY <1>3, <1>5, <1>6, <1>8

\* An element without children, once its tag is read.
LEMMA NoChild ==
    ASSUME NEW t, NEW m, NEW e, NEW name, NEW attributes, NEW children, NEW place,
           Begun(t, m, e, name, attributes, children, place),
           TagEnds(t, m, attributes, children), Len(children) = 0
    PROVE  IF m + Len(e) <= Len(t)
           THEN WholeAt(t, m, e, Element(name, attributes, <<>>))
           ELSE BrokenAt(t, m, Element(name, attributes, <<>>))
<1> DEFINE A == Len(attributes)
           L == Len(t)
           q == m + Stop(attributes, children)
           next == q + 1
           x == Piece("gt")
           i == 2 * A + 4
           node == Element(name, attributes, <<>>)
<1>1. /\ L \in Nat /\ A \in Nat /\ m \in Nat /\ t \in Seq(Pieces) /\ e \in Seq(Pieces) /\ Len(e) \in Nat
      /\ Stop(attributes, children) = 2 * A + 3
  BY BegunIs
<1>2. /\ Len(e) = i /\ e[i] = x /\ Follows(t, m, e)
  BY DEF Begun, IsLayout
<1>3. q \in 1 .. L /\ q \in Nat /\ next \in Nat /\ next = m + i /\ i \in 1 .. Len(e) /\ q + 2 = m + Len(e) + 1
  BY <1>1, <1>2 DEF TagEnds
<1>4. t[q].kind = "slash"
  BY <1>3, AtStop
<1>5. Is(t, q, "slash")
  BY <1>1, <1>3, <1>4, SkipIs DEF Is
<1>6. Is(t, next, "gt") <=> next <= L
  <2>1. Readable(t, next) <=> next <= L
    <3>1. next \in 1 .. L <=> next <= L
      BY <1>1, <1>3
    <3> HIDE DEF next
    <3> QED
      BY <1>1, <1>3, <3>1, SkipIs
  <2>2. next <= L => t[next].kind = "gt"
    <3>1. x.kind = "gt"
      BY PieceFields
    <3> HIDE DEF x, next, i
    <3>2. ASSUME next <= Len(t) PROVE t[next].kind = x.kind
      <4>1. i \in 1 .. Len(e) /\ e[i] = x /\ next = m + i
        BY <1>2, <1>3
      <4>2. t \in Seq(Pieces) /\ e \in Seq(Pieces) /\ m \in Nat
        BY <1>1
      <4>3. Follows(t, m, e)
        BY <1>2
      <4> QED
        BY <3>2, <4>1, <4>2, <4>3, KindAt
    <3> QED
      BY <3>1, <3>2
  <2> QED
    BY <2>1, <2>2 DEF Is
<1> DEFINE p == m + 1
           value == ReadValue(t)
<1>7. /\ NodeAt(t, m) = ElementParse(t, value, p)
      /\ t[p].name = name /\ ~ t[p].cut
      /\ Attributes(t, p + 1).p = q
      /\ Attributes(t, p + 1).attributes = attributes
      /\ ~ Attributes(t, p + 1).error
  BY TagWhole
<1> HIDE DEF p, value
<1>8. NodeAt(t, m) = IF Is(t, next, "gt") THEN Parsed(q + 2, node, FALSE) ELSE Unended(name, attributes, <<>>)
  <2> HIDE DEF q
  <2>1. ElementParse(t, value, p) =
                      IF Is(t, Attributes(t, p + 1).p + 1, "gt")
                      THEN Parsed(Attributes(t, p + 1).p + 2, Element(t[p].name, Attributes(t, p + 1).attributes, <<>>), FALSE)
                      ELSE Unended(t[p].name, Attributes(t, p + 1).attributes, <<>>)
    BY <1>5, <1>7, ElementCases, Zenon
  <2> QED
    BY <1>7, <2>1
<1>9. next <= L <=> m + Len(e) <= L
  BY <1>2, <1>3
<1>10. m + Len(e) <= L => WholeAt(t, m, e, node)
  BY <1>3, <1>6, <1>8, <1>9 DEF WholeAt
<1>11. ~ (m + Len(e) <= L) => BrokenAt(t, m, node)
  BY <1>6, <1>8, <1>9 DEF BrokenAt, Unended, Nowhere
<1> QED
  BY <1>10, <1>11

\* An element with children is read by reading them behind its tag.
LEMMA InsideTag ==
    ASSUME NEW t, NEW m, NEW e, NEW name, NEW attributes, NEW children, NEW place,
           Begun(t, m, e, name, attributes, children, place),
           TagEnds(t, m, attributes, children), Len(children) # 0
    PROVE  ElementIs(t, m, name, attributes, ReadValue(t)[m + (place[0] + 1)])
<1> DEFINE L == Len(t)
           q == m + Stop(attributes, children)
           p == m + 1
           value == ReadValue(t)
<1>1. /\ L \in Nat /\ m \in Nat /\ t \in Seq(Pieces) /\ Stop(attributes, children) \in 1 .. Len(e)
      /\ Len(e) \in Nat
  BY BegunIs
<1>2. place[0] = Stop(attributes, children)
  BY PlacesAre
<1>3. q \in 1 .. L /\ q \in Nat /\ m + (place[0] + 1) = q + 1
  BY <1>1, <1>2 DEF TagEnds
<1>4. t[q].kind = "gt"
  BY <1>3, AtStop
<1>5. ~ Is(t, q, "slash")
  BY <1>1, <1>3, <1>4, SkipIs DEF Is
<1>6. /\ NodeAt(t, m) = ElementParse(t, value, p)
      /\ t[p].name = name /\ ~ t[p].cut
      /\ Attributes(t, p + 1).p = q
      /\ Attributes(t, p + 1).attributes = attributes
      /\ ~ Attributes(t, p + 1).error
  BY TagWhole
<1> HIDE DEF p, value
<1>7. NodeAt(t, m) = IF EndTagFollows(t, name, value[q + 1])
                     THEN Parsed(value[q + 1].p + 2, Element(name, attributes, value[q + 1].children), value[q + 1].error)
                     ELSE Unended(name, attributes, value[q + 1].children)
  <2> HIDE DEF q
  <2>1. ElementParse(t, value, p) =
                      IF EndTagFollows(t, t[p].name, value[Attributes(t, p + 1).p + 1])
                      THEN Parsed(value[Attributes(t, p + 1).p + 1].p + 2,
                                  Element(t[p].name, Attributes(t, p + 1).attributes, value[Attributes(t, p + 1).p + 1].children),
                                  value[Attributes(t, p + 1).p + 1].error)
                      ELSE Unended(t[p].name, Attributes(t, p + 1).attributes, value[Attributes(t, p + 1).p + 1].children)
    BY <1>5, <1>6, ElementCases, Zenon
  <2> QED
    BY <1>6, <2>1
<1> DEFINE at == m + (place[0] + 1)
<1>8. at = q + 1
  BY <1>3
<1> HIDE DEF at, q
<1>9. ElementIs(t, m, name, attributes, value[at])
  BY <1>7, <1>8 DEF ElementIs
<1> QED
  BY <1>9 DEF at, value

\* Nothing is left to read at a position.
FailsAt(t, at) == ReadValue(t)[at] = Result(0, <<>>, <<>>, TRUE)

\* Where nothing is left, reading children fails.
LEMMA NothingLeft ==
    ASSUME NEW t \in Seq(Pieces), NEW at \in Nat,
           at = 0 \/ at = Len(t) + 1 \/ (at = Len(t) /\ t[at].kind = "space")
    PROVE  FailsAt(t, at)
<1>1. Len(t) \in Nat
  BY LenProperties
<1>2. at \in 0 .. Len(t) + 1
  BY <1>1
<1>3. SkipWhiteSpace(t, at) \notin 1 .. Len(t) /\ SkipWhiteSpace(t, at) \in Nat
  <2>1. CASE at \notin 1 .. Len(t)
    BY <2>1, SkipIs
  <2>2. CASE at \in 1 .. Len(t)
    <3>1. SkipWhiteSpace(t, at) = at + 1 /\ at = Len(t)
      BY <1>1, <2>2, SkipIs
    <3> QED
      BY <1>1, <3>1
  <2> QED
    BY <2>1, <2>2
<1> QED
  BY <1>2, <1>3, ValueAt DEF FailsAt

\* From a position on, c is read, up to an end tag at q, or the end of the text.
InsideEnds(t, at, q, c) == ReadValue(t)[at] = Result(q, <<>>, c, FALSE)
InsideBreaks(t, at, c) == ReadValue(t)[at] = Result(0, <<>>, c, TRUE)

\* The children, which start a tag each, are read as nodes.
Kids(children, nodes, N) ==
    /\ nodes \in Seq(N) /\ Len(nodes) = Len(children)
    /\ \A k \in 1 .. Len(children) : Opens(children[k]) /\ ReadsWhole(children[k], nodes[k])

\* Behind whole children, a failure leaves those children and what it met.
LEMMA ChildrenBreak ==
    ASSUME NEW t, NEW m, NEW e, NEW name, NEW attributes, NEW children, NEW place,
           Begun(t, m, e, name, attributes, children, place), Len(children) # 0,
           NEW N, NEW nodes, Kids(children, nodes, N),
           NEW K \in 0 .. Len(children), m + place[K] <= Len(t),
           NEW c \in Seq(N), InsideBreaks(t, m + (place[K] + 1), c)
    PROVE  InsideBreaks(t, m + (place[0] + 1), Part(nodes, K) \o c)
<1> DEFINE failed == TRUE
           p == 0
<1>1. failed \in BOOLEAN /\ ReadValue(t)[m + (place[K] + 1)] = Result(p, <<>>, c, failed)
  BY DEF InsideBreaks
<1>2. /\ nodes \in Seq(N) /\ Len(nodes) = Len(children)
      /\ \A k \in 1 .. Len(children) : Opens(children[k]) /\ ReadsWhole(children[k], nodes[k])
  BY DEF Kids
<1> HIDE DEF failed, p
<1>3. ReadValue(t)[m + (place[0] + 1)] = Result(p, <<>>, SubSeq(nodes, 1, K) \o c, failed)
  BY <1>1, <1>2, ChildrenRead
<1> QED
  BY <1>3 DEF failed, p, InsideBreaks, Part

\* Behind whole children, an end tag gives those children.
LEMMA ChildrenEnd ==
    ASSUME NEW t, NEW m, NEW e, NEW name, NEW attributes, NEW children, NEW place,
           Begun(t, m, e, name, attributes, children, place), Len(children) # 0,
           NEW N, NEW nodes, Kids(children, nodes, N),
           NEW K \in 0 .. Len(children), m + place[K] <= Len(t),
           NEW c \in Seq(N), NEW q, InsideEnds(t, m + (place[K] + 1), q, c)
    PROVE  InsideEnds(t, m + (place[0] + 1), q, Part(nodes, K) \o c)
<1> DEFINE failed == FALSE
<1>1. failed \in BOOLEAN /\ ReadValue(t)[m + (place[K] + 1)] = Result(q, <<>>, c, failed)
  BY DEF InsideEnds
<1>2. /\ nodes \in Seq(N) /\ Len(nodes) = Len(children)
      /\ \A k \in 1 .. Len(children) : Opens(children[k]) /\ ReadsWhole(children[k], nodes[k])
  BY DEF Kids
<1> HIDE DEF failed
<1>3. ReadValue(t)[m + (place[0] + 1)] = Result(q, <<>>, SubSeq(nodes, 1, K) \o c, failed)
  BY <1>1, <1>2, ChildrenRead
<1> QED
  BY <1>3 DEF failed, InsideEnds, Part

\* What is left of an element whose children break off.
LEMMA BrokenInside ==
    ASSUME NEW t, NEW m, NEW e, NEW name, NEW attributes, NEW children, NEW place,
           Begun(t, m, e, name, attributes, children, place),
           TagEnds(t, m, attributes, children), Len(children) # 0,
           NEW c, InsideBreaks(t, m + (place[0] + 1), c)
    PROVE  BrokenAt(t, m, Element(name, attributes, c))
<1> DEFINE inside == ReadValue(t)[m + (place[0] + 1)]
<1>1. ElementIs(t, m, name, attributes, inside)
  BY InsideTag
<1>2. inside.p = 0 /\ inside.children = c
  BY DEF InsideBreaks, Result
<1> HIDE DEF inside
<1>3. ~ EndTagFollows(t, name, inside)
  BY <1>2 DEF EndTagFollows, Nowhere
<1>4. NodeAt(t, m) = Unended(name, attributes, c)
  BY <1>1, <1>2, <1>3 DEF ElementIs
<1> QED
  BY <1>4 DEF Unended, BrokenAt, Nowhere

\* An element with children whose end tag is met.
LEMMA EndedInside ==
    ASSUME NEW t, NEW m, NEW e, NEW name, NEW attributes, NEW children, NEW place,
           Begun(t, m, e, name, attributes, children, place),
           TagEnds(t, m, attributes, children), Len(children) # 0,
           NEW c, NEW q \in Nat, InsideEnds(t, m + (place[0] + 1), q, c), q # 0, t[q].name = name,
           ~ t[q].cut /\ Is(t, q + 1, "gt") <=> m + Len(e) <= Len(t),
           q + 2 = m + Len(e) + 1
    PROVE  IF m + Len(e) <= Len(t)
           THEN WholeAt(t, m, e, Element(name, attributes, c))
           ELSE BrokenAt(t, m, Element(name, attributes, c))
<1> DEFINE inside == ReadValue(t)[m + (place[0] + 1)]
<1>1. ElementIs(t, m, name, attributes, inside)
  BY InsideTag
<1>2. inside.p = q /\ inside.children = c /\ inside.error = FALSE
  BY DEF InsideEnds, Result
<1> HIDE DEF inside
<1>3. EndTagFollows(t, name, inside) <=> m + Len(e) <= Len(t)
  BY <1>2 DEF EndTagFollows, Nowhere
<1>4. EndTagFollows(t, name, inside) =>
          NodeAt(t, m) = Parsed(q + 2, Element(name, attributes, c), inside.error)
  BY <1>1, <1>2 DEF ElementIs
<1>5. EndTagFollows(t, name, inside) => NodeAt(t, m) = Parsed(m + Len(e) + 1, Element(name, attributes, c), FALSE)
  BY <1>2, <1>4
<1>6. ~ EndTagFollows(t, name, inside) => NodeAt(t, m) = Unended(name, attributes, c)
  BY <1>1, <1>2 DEF ElementIs
<1> QED
  BY <1>3, <1>5, <1>6 DEF Unended, BrokenAt, WholeAt, Nowhere

\* The text ends in the white space before a child or in the child.
LEMMA LastChild ==
    ASSUME NEW t, NEW m, NEW e, NEW name, NEW attributes, NEW children, NEW place,
           Begun(t, m, e, name, attributes, children, place), Len(children) # 0,
           NEW k \in 1 .. Len(children), Opens(children[k]),
           NEW allowed, ReadsCut(children[k], allowed),
           m + place[k - 1] <= Len(t), Len(t) < m + place[k]
    PROVE  \/ InsideBreaks(t, m + (place[k - 1] + 1), <<>>)
           \/ InsideBreaks(t, m + (place[k - 1] + 1), <<Unknown>>)
           \/ \E y \in allowed : InsideBreaks(t, m + (place[k - 1] + 1), <<y>>)
<1> DEFINE L == Len(t)
           w == children[k]
           a == place[k - 1]
           at == m + (a + 1)
           value == ReadValue(t)
<1>1. /\ L \in Nat /\ m \in Nat /\ t \in Seq(Pieces) /\ e \in Seq(Pieces) /\ Len(e) \in Nat
      /\ Len(children) \in Nat /\ Follows(t, m, e)
  BY BegunIs DEF Begun
<1>2. /\ place \in [0 .. Len(children) -> Nat] /\ w \in Seq(Pieces) /\ Len(w) \in Nat
      /\ place[k] = a + 1 + Len(w) /\ e[a + 1] = Space /\ Lies(e, a + 1, w)
  BY PlacesAre
<1>3. a \in Nat /\ at \in Nat /\ at # 0 /\ at <= L + 1 /\ L < at + Len(w)
  <2>1. k - 1 \in 0 .. Len(children)
    BY <1>1
  <2>2. a \in Nat
    BY <1>2, <2>1
  <2> DEFINE l == Len(w)
  <2>3. l \in Nat /\ L < m + (a + 1 + l) /\ m + a <= L
    BY <1>2
  <2> HIDE DEF a, l
  <2>4. at \in Nat /\ at # 0 /\ at <= L + 1 /\ L < at + l
    BY <1>1, <2>2, <2>3
  <2> QED
    BY <2>2, <2>4 DEF l, a
<1>4. at <= L => t[at].kind = "space"
  <2> SUFFICES ASSUME at <= Len(t) PROVE t[at].kind = "space"
    OBVIOUS
  <2> DEFINE x == Space
             i == a + 1
  <2>1. i \in 1 .. Len(e)
    <3> DEFINE l == Len(w)
    <3>1. l \in Nat /\ i + l <= Len(e) /\ a \in Nat
      BY <1>2, <1>3 DEF Lies
    <3> HIDE DEF l, a
    <3> QED
      BY <1>1, <3>1
  <2>2. x.kind = "space" /\ e[i] = x /\ at = m + i
    BY <1>2, PieceFields
  <2> HIDE DEF x, i, at
  <2>3. t[at].kind = x.kind
    BY <1>1, <2>1, <2>2, KindAt
  <2> QED
    BY <2>2, <2>3
<1>5. CASE at >= L
  <2>1. at = L + 1 \/ (at = L /\ t[at].kind = "space")
    BY <1>1, <1>3, <1>4, <1>5
  <2> HIDE DEF at
  <2>2. FailsAt(t, at)
    BY <1>1, <1>3, <2>1, NothingLeft
  <2> QED
    BY <2>2 DEF FailsAt, InsideBreaks, at
<1>6. CASE at < L
  <2> HIDE DEF at
  <2>1. at = m + (place[k - 1] + 1)
    BY DEF at
  <2>2. /\ Follows(t, at, children[k])
        /\ at < Len(t) => ReadValue(t)[at] = WithChild(NodeAt(t, at), ReadValue(t)[NodeAt(t, at).p])
    BY <2>1, ChildAt
  <2>3. value[at] = WithChild(NodeAt(t, at), value[NodeAt(t, at).p])
    BY <1>6, <2>2
  <2>4. \/ NodeAt(t, at) = Parsed(L + 1, Unknown, FALSE)
        \/ \E y \in allowed : NodeAt(t, at) = Parsed(0, y, TRUE)
    BY <1>1, <1>3, <1>6, <2>2 DEF ReadsCut
  <2>5. ASSUME NEW p \in {0, L + 1}, NEW y, NEW failed \in BOOLEAN, NodeAt(t, at) = Parsed(p, y, failed)
        PROVE  InsideBreaks(t, at, <<y>>)
    <3>1. FailsAt(t, p)
      <4>1. p \in Nat /\ (p = 0 \/ p = Len(t) + 1)
        BY <1>1
      <4> QED
        BY <1>1, <4>1, NothingLeft
    <3>2. NodeAt(t, at).p = p
      BY <2>5, ResultFields
    <3>3. value[p] = Result(0, <<>>, <<>>, TRUE)
      BY <3>1 DEF FailsAt
    <3> HIDE DEF value
    <3>4. value[at] = WithChild(Parsed(p, y, failed), Result(0, <<>>, <<>>, TRUE))
      BY <2>3, <2>5, <3>2, <3>3
    <3>5. value[at] = Result(0, <<>>, <<y>> \o <<>>, TRUE \/ failed)
      BY <3>4 DEF WithChild, Parsed, Result
    <3>6. <<y>> \o <<>> = <<y>>
      BY ConcatEmptySeq
    <3>7. value[at] = Result(0, <<>>, <<y>>, TRUE)
      BY <3>5, <3>6
    <3> QED
      BY <3>7 DEF InsideBreaks, value
  <2>6. CASE NodeAt(t, at) = Parsed(L + 1, Unknown, FALSE)
    <3>1. InsideBreaks(t, at, <<Unknown>>)
      BY <2>5, <2>6
    <3> QED
      BY <2>1, <3>1
  <2>7. CASE \E y \in allowed : NodeAt(t, at) = Parsed(0, y, TRUE)
    <3>1. PICK y \in allowed : NodeAt(t, at) = Parsed(0, y, TRUE)
      BY <2>7
    <3>2. InsideBreaks(t, at, <<y>>)
      BY <2>5, <3>1
    <3> QED
      BY <2>1, <3>2
  <2> QED
    BY <2>4, <2>6, <2>7
<1>7. at \in Nat /\ L \in Nat
  BY <1>1, <1>3
<1> HIDE DEF at, L
<1>8. at >= L \/ at < L
  BY <1>7
<1> QED
  BY <1>5, <1>6, <1>8

\* The end tag of the element name is read at q.
TagCloses(t, q, name) == ~ t[q].cut /\ Is(t, q + 1, "gt")
EndTagRead(t, m, e, name, at, q) ==
    /\ InsideEnds(t, at, q, <<>>) /\ t[q].name = name
    /\ TagCloses(t, q, name) <=> m + Len(e) <= Len(t)

\* The text ends behind all children.
LEMMA LastTag ==
    ASSUME NEW t, NEW m, NEW e, NEW name, NEW attributes, NEW children, NEW place,
           Begun(t, m, e, name, attributes, children, place), Len(children) # 0,
           m + place[Len(children)] <= Len(t)
    PROVE  LET at == m + (place[Len(children)] + 1)
           IN  \/ ~ (m + Len(e) <= Len(t)) /\ InsideBreaks(t, at, <<>>)
               \/ ~ (m + Len(e) <= Len(t)) /\ InsideBreaks(t, at, <<Unknown>>)
               \/ EndTagRead(t, m, e, name, at, at + 1)
<1> DEFINE L == Len(t)
           n == Len(children)
           at == m + (place[n] + 1)
           a == place[n]
           q == at + 1
           value == ReadValue(t)
           x == Space
           y == Named("end", name)
           z == Piece("gt")
           i == a + 1
           j == a + 2
           k == a + 3
<1>1. /\ L \in Nat /\ m \in Nat /\ t \in Seq(Pieces) /\ e \in Seq(Pieces) /\ Len(e) \in Nat
      /\ n \in Nat /\ Follows(t, m, e)
  BY BegunIs DEF Begun
<1>0. name # ""
  BY DEF Begun
<1> HIDE DEF n
<1>2. place \in [0 .. n -> Nat] /\ Len(e) = a + 3 /\ e[i] = x /\ e[j] = y /\ e[k] = z
  BY PlacesAre DEF n
<1>3. x.kind = "space" /\ y.kind = "end" /\ y.name = name /\ ~ y.cut /\ z.kind = "gt"
  BY PieceFields
<1> HIDE DEF x, y, z
<1>4. /\ a \in Nat /\ at \in Nat /\ at # 0 /\ q \in Nat /\ q # 0 /\ at <= L + 1
      /\ i \in 1 .. Len(e) /\ j \in 1 .. Len(e) /\ k \in 1 .. Len(e)
      /\ at = m + i /\ q = m + j /\ q + 1 = m + k /\ m + Len(e) = q + 1
  <2>0. n \in 0 .. n
    BY <1>1
  <2>1. a \in Nat
    BY <1>2, <2>0
  <2>2. at = m + (a + 1) /\ m + a <= L
    BY DEF n
  <2> DEFINE l == Len(e)
  <2>3. l = a + 3
    BY <1>2
  <2> HIDE DEF a, at, L, l
  <2>4. /\ at \in Nat /\ at # 0 /\ at + 1 \in Nat /\ at + 1 # 0 /\ at <= L + 1
        /\ a + 1 \in 1 .. l /\ a + 2 \in 1 .. l /\ a + 3 \in 1 .. l
        /\ at = m + (a + 1) /\ at + 1 = m + (a + 2) /\ at + 1 + 1 = m + (a + 3) /\ m + l = at + 1 + 1
    BY <1>1, <2>1, <2>2, <2>3
  <2> QED
    BY <2>1, <2>4 DEF l
<1> HIDE DEF a, i, j, k, q, at
<1>5. q = at + 1
  BY DEF q
<1> DEFINE r == q + 1
           G == \/ ~ (m + Len(e) <= Len(t)) /\ InsideBreaks(t, at, <<>>)
                \/ ~ (m + Len(e) <= Len(t)) /\ InsideBreaks(t, at, <<Unknown>>)
                \/ EndTagRead(t, m, e, name, at, at + 1)
<1>11. i \in 1 .. Len(e) /\ e[i] = x /\ at = m + i
  BY <1>2, <1>4
<1>12. j \in 1 .. Len(e) /\ e[j] = y /\ q = m + j
  BY <1>2, <1>4
<1>13. k \in 1 .. Len(e) /\ e[k] = z /\ r = m + k
  BY <1>2, <1>4
<1>14. t \in Seq(Pieces) /\ e \in Seq(Pieces) /\ m \in Nat /\ Follows(t, m, e)
  BY <1>1
<1>6. at <= Len(t) => t[at].kind = "space"
  <2> SUFFICES ASSUME at <= Len(t) PROVE t[at].kind = "space"
    OBVIOUS
  <2>0. at <= Len(t)
    OBVIOUS
  <2>1. t[at].kind = x.kind
    BY <1>14, <1>11, <2>0, KindAt
  <2> QED
    BY <1>3, <2>1
<1>7. ASSUME at >= L PROVE G
  <2>1. at = L + 1 \/ (at = L /\ t[at].kind = "space")
    BY <1>1, <1>4, <1>6, <1>7
  <2>2. FailsAt(t, at)
    BY <1>1, <1>4, <2>1, NothingLeft
  <2>3. ~ (m + Len(e) <= Len(t))
    BY <1>1, <1>4, <1>5, <1>7
  <2> QED
    BY <2>2, <2>3 DEF FailsAt, InsideBreaks
<1>8. ASSUME at < L PROVE G
  <2>1. q <= Len(t) /\ q \in 1 .. Len(t) /\ at \in 1 .. Len(t) /\ at \in 0 .. Len(t) + 1
    BY <1>1, <1>4, <1>5, <1>8
  <2>2. SkipWhiteSpace(t, at) = q
    BY <1>1, <1>4, <1>5, <1>6, <2>1, SkipIs
  <2>3. t[q].kind = "end"
    <3>0. q <= Len(t)
      BY <2>1
    <3>1. t[q].kind = y.kind
      BY <1>14, <1>12, <3>0, KindAt
    <3> QED
      BY <1>3, <3>1
  <2>4. t[q].name = name \/ (t[q].name = "" /\ q = Len(t))
    <3>0. q <= Len(t)
      BY <2>1
    <3>1. t[q].name = y.name \/ (t[q].name = "" /\ t[q].cut /\ q = Len(t))
      BY <1>14, <1>12, <3>0, NameAt
    <3> QED
      BY <1>3, <3>1
  <2>5. q # Len(t) => ~ t[q].cut
    <3>0. q <= Len(t)
      BY <2>1
    <3>1. q # Len(t) \/ y.kind \in Uncuttable => t[q] = y
      BY <1>14, <1>12, <3>0, PieceAt
    <3> QED
      BY <1>3, <3>1
  <2>6. ASSUME t[q].name = name PROVE G
    <3>1. t[q].name # ""
      BY <1>0, <2>6
    <3>2. value[at] = Result(q, <<>>, <<>>, FALSE)
      BY <1>1, <1>4, <2>1, <2>2, <2>3, <3>1, ValueAt
    <3>3. Is(t, q + 1, "gt") <=> q + 1 <= Len(t)
      <4>1. r \in Nat /\ r = m + k /\ (r \in 1 .. Len(t) <=> r <= Len(t))
        BY <1>1, <1>4
      <4> HIDE DEF r
      <4>2. Readable(t, r) <=> r <= Len(t)
        BY <1>1, <4>1, SkipIs
      <4>3. ASSUME r <= Len(t) PROVE t[r].kind = "gt"
        <5>1. t[r].kind = z.kind
          BY <1>14, <1>13, <4>3, KindAt
        <5> QED
          BY <1>3, <5>1
      <4>4. Is(t, r, "gt") <=> r <= Len(t)
        BY <4>2, <4>3 DEF Is
      <4> QED
        BY <4>4 DEF r
    <3>4. q + 1 <= Len(t) => q # Len(t)
      BY <1>1, <1>4
    <3>5. TagCloses(t, q, name) <=> m + Len(e) <= Len(t)
      BY <1>4, <2>5, <3>3, <3>4 DEF TagCloses
    <3>6. EndTagRead(t, m, e, name, at, q)
      BY <2>6, <3>2, <3>5 DEF EndTagRead, InsideEnds
    <3> QED
      BY <1>5, <3>6
  <2>7. ASSUME t[q].name = "", q = Len(t) PROVE G
    <3>0. q = Len(t)
      BY <2>7
    <3>1. ~ (m + Len(e) <= Len(t))
      BY <1>1, <1>4, <3>0
    <3> DEFINE child == NodeParse(t, value, q)
    <3>2. value[at] = WithChild(child, value[child.p])
      BY <1>1, <1>4, <2>1, <2>2, <2>7, ValueAt
    <3>3. child = Parsed(q + 1, Unknown, FALSE)
      <4>1. Identify(t, q) = "unknown"
        <5>1. ~ Is(t, q, "declaration") /\ ~ Is(t, q, "open")
          BY <2>3 DEF Is
        <5> QED
          BY <5>1 DEF Identify
      <4> HIDE DEF value
      <4> QED
        BY <4>1 DEF NodeParse, Unknown
    <3> HIDE DEF child
    <3>4. child.p = q + 1
      BY <3>3 DEF Parsed
    <3>5. FailsAt(t, q + 1)
      <4>1. r \in Nat /\ r = Len(t) + 1
        BY <1>1, <1>4, <3>0
      <4> HIDE DEF r
      <4>2. FailsAt(t, r)
        BY <1>1, <4>1, NothingLeft
      <4> QED
        BY <4>2 DEF r
    <3>6. value[child.p] = Result(0, <<>>, <<>>, TRUE)
      BY <3>4, <3>5 DEF FailsAt
    <3> HIDE DEF value
    <3>7. value[at] = WithChild(Parsed(q + 1, Unknown, FALSE), Result(0, <<>>, <<>>, TRUE))
      BY <3>2, <3>3, <3>6
    <3>8. value[at] = Result(0, <<>>, <<Unknown>> \o <<>>, TRUE \/ FALSE)
      <4> DEFINE u == Unknown
      <4> HIDE DEF u
      <4>1. value[at] = WithChild(Parsed(q + 1, u, FALSE), Result(0, <<>>, <<>>, TRUE))
        BY <3>7 DEF u
      <4>2. value[at] = Result(0, <<>>, <<u>> \o <<>>, TRUE \/ FALSE)
        BY <4>1 DEF WithChild, Parsed, Result
      <4> QED
        BY <4>2 DEF u
    <3>9. <<Unknown>> \o <<>> = <<Unknown>>
      BY ConcatEmptySeq
    <3>10. value[at] = Result(0, <<>>, <<Unknown>>, TRUE)
      BY <3>8, <3>9
    <3> QED
      BY <3>1, <3>10 DEF InsideBreaks, value
  <2> QED
    BY <2>4, <2>6, <2>7
<1>9. at \in Nat /\ L \in Nat
  BY <1>1, <1>4
<1> HIDE DEF L
<1>10. at >= L \/ at < L
  BY <1>9
<1>15. G
  <2> HIDE DEF G
  <2> QED
    BY <1>7, <1>8, <1>10
<1> QED
  BY <1>15 DEF at, n

\* What the children are read as when the text ends in them.
KidsCut(children, parts, N) ==
    /\ Unknown \in N
    /\ \A k \in 1 .. Len(children) : parts[k] \subseteq N /\ ReadsCut(children[k], parts[k])

\* What an element is read as when the text ends in it.
PartsOf(name, attributes, nodes, parts) ==
    {Element(name, Part(attributes, j), <<>>) : j \in 0 .. Len(attributes)} \cup
    {Element(name, attributes, Part(nodes, K) \o c) : K \in 0 .. Len(nodes), c \in {<<>>, <<Unknown>>}} \cup
    UNION {{Element(name, attributes, Part(nodes, k - 1) \o <<y>>) : y \in parts[k]} : k \in 1 .. Len(nodes)}

\* Parts of a cut element.
LEMMA InParts ==
    ASSUME NEW name, NEW attributes, NEW nodes, NEW parts
    PROVE  /\ \A j \in 0 .. Len(attributes) :
                  Element(name, Part(attributes, j), <<>>) \in PartsOf(name, attributes, nodes, parts)
           /\ \A K \in 0 .. Len(nodes), c \in {<<>>, <<Unknown>>} :
                  Element(name, attributes, Part(nodes, K) \o c) \in PartsOf(name, attributes, nodes, parts)
           /\ \A k \in 1 .. Len(nodes) : \A y \in parts[k] :
                  Element(name, attributes, Part(nodes, k - 1) \o <<y>>) \in PartsOf(name, attributes, nodes, parts)
<1> DEFINE I == 0 .. Len(attributes)
           J == 0 .. Len(nodes)
           H == 1 .. Len(nodes)
           C == {<<>>, <<Unknown>>}
           f(j) == Element(name, Part(attributes, j), <<>>)
           g(K, c) == Element(name, attributes, Part(nodes, K) \o c)
           h(k, y) == Element(name, attributes, Part(nodes, k - 1) \o <<y>>)
<1>1. PartsOf(name, attributes, nodes, parts) =
          {f(j) : j \in I} \cup {g(K, c) : K \in J, c \in C} \cup UNION {{h(k, y) : y \in parts[k]} : k \in H}
  BY DEF PartsOf
<1> HIDE DEF I, J, H, C, f, g, h
<1>2. \A j \in I : f(j) \in PartsOf(name, attributes, nodes, parts)
  BY <1>1
<1>3. \A K \in J, c \in C : g(K, c) \in PartsOf(name, attributes, nodes, parts)
  BY <1>1
<1>4. \A k \in H : \A y \in parts[k] : h(k, y) \in PartsOf(name, attributes, nodes, parts)
  BY <1>1
<1> QED
  BY <1>2, <1>3, <1>4 DEF I, J, H, C, f, g, h

\* The text ends behind all children, or goes on.
LEMMA AllChildren ==
    ASSUME NEW t, NEW m, NEW e, NEW name, NEW attributes, NEW children, NEW place,
           Begun(t, m, e, name, attributes, children, place), Len(children) # 0,
           TagEnds(t, m, attributes, children),
           NEW N, NEW nodes, Kids(children, nodes, N), Unknown \in N,
           m + place[Len(children)] <= Len(t)
    PROVE  IF m + Len(e) <= Len(t)
           THEN WholeAt(t, m, e, Element(name, attributes, nodes))
           ELSE \E c \in {<<>>, <<Unknown>>} :
                    BrokenAt(t, m, Element(name, attributes, Part(nodes, Len(nodes)) \o c))
<1> DEFINE n == Len(children)
           at == m + (place[n] + 1)
           q == at + 1
           K == n
           whole == m + Len(e) <= Len(t)
<1>1. \/ ~ whole /\ InsideBreaks(t, at, <<>>)
      \/ ~ whole /\ InsideBreaks(t, at, <<Unknown>>)
      \/ EndTagRead(t, m, e, name, at, q)
  BY LastTag
<1>2. nodes \in Seq(N) /\ Len(nodes) = n
  BY DEF Kids
<1>3. n \in Nat
  BY BegunIs
<1>4. K \in 0 .. Len(children) /\ m + place[K] <= Len(t) /\ at = m + (place[K] + 1) /\ K = Len(nodes)
  BY <1>2, <1>3
<1>5. <<>> \in Seq(N) /\ <<Unknown>> \in Seq(N)
  <2>1. <<>> \in Seq(N)
    BY EmptySeq
  <2> QED
    BY <2>1, Three
<1>6. ASSUME NEW c \in Seq(N), InsideBreaks(t, at, c)
      PROVE  BrokenAt(t, m, Element(name, attributes, Part(nodes, K) \o c))
  <2>1. InsideBreaks(t, m + (place[K] + 1), c)
    BY <1>4, <1>6
  <2> HIDE DEF K, at
  <2>2. InsideBreaks(t, m + (place[0] + 1), Part(nodes, K) \o c)
    BY <1>4, <1>6, <2>1, ChildrenBreak
  <2> QED
    BY <2>2, BrokenInside
<1>7. CASE InsideBreaks(t, at, <<>>) /\ ~ whole
  <2>1. BrokenAt(t, m, Element(name, attributes, Part(nodes, Len(nodes)) \o <<>>))
    BY <1>4, <1>5, <1>6, <1>7
  <2> QED
    BY <1>7, <2>1
<1>8. CASE InsideBreaks(t, at, <<Unknown>>) /\ ~ whole
  <2>1. BrokenAt(t, m, Element(name, attributes, Part(nodes, Len(nodes)) \o <<Unknown>>))
    BY <1>4, <1>5, <1>6, <1>8
  <2> QED
    BY <1>8, <2>1
<1>9. CASE EndTagRead(t, m, e, name, at, q)
  <2> DEFINE c == Part(nodes, K) \o <<>>
             d == <<>>
  <2>1. InsideEnds(t, m + (place[K] + 1), q, d) /\ d \in Seq(N)
    BY <1>4, <1>5, <1>9 DEF EndTagRead
  <2>2. InsideEnds(t, m + (place[0] + 1), q, Part(nodes, K) \o d)
    <3> HIDE DEF K, q, d
    <3> QED
      BY <1>4, <2>1, ChildrenEnd
  <2>3. InsideEnds(t, m + (place[0] + 1), q, c)
    BY <2>2
  <2>4. t[q].name = name /\ (~ t[q].cut /\ Is(t, q + 1, "gt") <=> m + Len(e) <= Len(t))
    BY <1>9 DEF EndTagRead, TagCloses
  <2>5. q \in Nat /\ q # 0 /\ q + 2 = m + Len(e) + 1
    <3> DEFINE a == place[n]
               l == Len(e)
    <3>1. m \in Nat
      BY BegunIs
    <3>2. place \in [0 .. n -> Nat] /\ l = a + 3
      BY PlacesAre
    <3>3. n \in 0 .. n
      BY <1>3
    <3>4. a \in Nat
      BY <3>2, <3>3
    <3>5. q = m + (a + 1) + 1
      OBVIOUS
    <3> HIDE DEF a, l, q
    <3>6. q \in Nat /\ q # 0 /\ q + 2 = m + l + 1
      BY <3>1, <3>2, <3>4, <3>5
    <3> QED
      BY <3>6 DEF l
  <2>6. c = Part(nodes, Len(nodes)) \o <<>>
    BY <1>4
  <2>7. c = nodes
    <3>1. Part(nodes, K) = nodes
      BY <1>2, SubSeqFull DEF Part
    <3> QED
      BY <1>2, <3>1, ConcatEmptySeq
  <2> HIDE DEF c, q
  <2>8. IF m + Len(e) <= Len(t)
        THEN WholeAt(t, m, e, Element(name, attributes, c))
        ELSE BrokenAt(t, m, Element(name, attributes, c))
    BY <2>3, <2>4, <2>5, EndedInside
  <2>9. whole => WholeAt(t, m, e, Element(name, attributes, nodes))
    BY <2>7, <2>8
  <2>10. ~ whole => BrokenAt(t, m, Element(name, attributes, Part(nodes, Len(nodes)) \o <<>>))
    BY <2>6, <2>8
  <2> QED
    BY <2>9, <2>10
<1> QED
  BY <1>1, <1>7, <1>8, <1>9

\* The text ends before all children are there.
LEMMA SomeChildren ==
    ASSUME NEW t, NEW m, NEW e, NEW name, NEW attributes, NEW children, NEW place,
           Begun(t, m, e, name, attributes, children, place), Len(children) # 0,
           TagEnds(t, m, attributes, children),
           NEW N, NEW nodes, Kids(children, nodes, N), NEW parts, KidsCut(children, parts, N),
           ~ (m + place[Len(children)] <= Len(t))
    PROVE  \E y \in PartsOf(name, attributes, nodes, parts) : BrokenAt(t, m, y)
<1> DEFINE L == Len(t)
           n == Len(children)
           S == {k \in 0 .. n : m + place[k] <= L}
           K == Latest(S)
           k == K + 1
           at == m + (place[K] + 1)
<1>1. L \in Nat /\ n \in Nat /\ m \in Nat
  BY BegunIs
<1>2. place \in [0 .. n -> Nat] /\ place[0] = Stop(attributes, children)
  BY PlacesAre
<1>3. m + place[0] <= L
  BY <1>2 DEF TagEnds
<1>4. /\ K \in 0 .. n /\ m + place[K] <= L /\ k \in 1 .. n /\ k - 1 = K /\ L < m + place[k]
      /\ K \in Nat
  <2>1. 0 \in S /\ S \in SUBSET (0 .. n)
    BY <1>1, <1>3
  <2>2. K \in S /\ \A i \in S : i <= K
    <3> HIDE DEF S
    <3> QED
      BY <1>1, <2>1, LatestIs
  <2>3. K \in 0 .. n /\ m + place[K] <= L
    BY <2>2
  <2>4. K # n
    BY <2>3
  <2>5. k \in 0 .. n /\ k \in 1 .. n /\ k - 1 = K /\ ~ (k <= K) /\ K \in Nat
    <3> HIDE DEF K
    <3> QED
      BY <1>1, <2>3, <2>4
  <2>6. ~ (m + place[k] <= L)
    <3>1. k \notin S
      BY <2>2, <2>5
    <3> HIDE DEF k, K
    <3> QED
      BY <2>5, <3>1
  <2>7. place[k] \in Nat
    BY <1>2, <2>5
  <2>8. L < m + place[k]
    <3> DEFINE b == place[k]
    <3>1. b \in Nat /\ ~ (m + b <= L)
      BY <2>6, <2>7
    <3> HIDE DEF b
    <3>2. L < m + b
      BY <1>1, <3>1
    <3> QED
      BY <3>2 DEF b
  <2> QED
    BY <2>3, <2>5, <2>8
<1> HIDE DEF K, S
<1>5. /\ nodes \in Seq(N) /\ Len(nodes) = n
      /\ \A i \in 1 .. n : Opens(children[i])
  BY DEF Kids
<1>6. Unknown \in N /\ \A i \in 1 .. n : parts[i] \subseteq N /\ ReadsCut(children[i], parts[i])
  BY DEF KidsCut
<1>7. ASSUME NEW c \in Seq(N), InsideBreaks(t, at, c)
      PROVE  BrokenAt(t, m, Element(name, attributes, Part(nodes, K) \o c))
  <2>1. InsideBreaks(t, m + (place[K] + 1), c)
    BY <1>7
  <2> HIDE DEF at
  <2>2. InsideBreaks(t, m + (place[0] + 1), Part(nodes, K) \o c)
    BY <1>4, <1>7, <2>1, ChildrenBreak
  <2> QED
    BY <2>2, BrokenInside
<1>8. \/ InsideBreaks(t, at, <<>>)
      \/ InsideBreaks(t, at, <<Unknown>>)
      \/ \E y \in parts[k] : InsideBreaks(t, at, <<y>>)
  <2>1. /\ k \in 1 .. Len(children) /\ Opens(children[k]) /\ ReadsCut(children[k], parts[k])
        /\ m + place[k - 1] <= Len(t) /\ Len(t) < m + place[k]
    BY <1>4, <1>5, <1>6
  <2>2. at = m + (place[k - 1] + 1)
    BY <1>4
  <2> DEFINE allowed == parts[k]
  <2> HIDE DEF k, at, allowed
  <2>3. ReadsCut(children[k], allowed)
    BY <2>1 DEF allowed
  <2>4. \/ InsideBreaks(t, m + (place[k - 1] + 1), <<>>)
        \/ InsideBreaks(t, m + (place[k - 1] + 1), <<Unknown>>)
        \/ \E y \in allowed : InsideBreaks(t, m + (place[k - 1] + 1), <<y>>)
    BY <2>1, <2>3, LastChild
  <2> QED
    BY <2>2, <2>4 DEF allowed
<1>9. <<>> \in Seq(N) /\ \A y \in N : <<y>> \in Seq(N)
  <2>1. <<>> \in Seq(N)
    BY EmptySeq
  <2> QED
    BY <2>1, Three
<1> HIDE DEF at
<1>10. ASSUME NEW c \in {<<>>, <<Unknown>>}, InsideBreaks(t, at, c)
       PROVE  \E y \in PartsOf(name, attributes, nodes, parts) : BrokenAt(t, m, y)
  <2>1. c \in Seq(N)
    BY <1>6, <1>9
  <2>2. BrokenAt(t, m, Element(name, attributes, Part(nodes, K) \o c))
    BY <1>7, <1>10, <2>1
  <2>3. K \in 0 .. Len(nodes)
    BY <1>4, <1>5
  <2>4. Element(name, attributes, Part(nodes, K) \o c) \in PartsOf(name, attributes, nodes, parts)
    BY <2>3, InParts
  <2> QED
    BY <2>2, <2>4
<1>11. ASSUME NEW z \in parts[k], InsideBreaks(t, at, <<z>>)
       PROVE  \E y \in PartsOf(name, attributes, nodes, parts) : BrokenAt(t, m, y)
  <2>1. <<z>> \in Seq(N)
    BY <1>4, <1>6, <1>9
  <2>2. BrokenAt(t, m, Element(name, attributes, Part(nodes, K) \o <<z>>))
    BY <1>7, <1>11, <2>1
  <2>3. k \in 1 .. Len(nodes) /\ K = k - 1
    BY <1>4, <1>5
  <2> HIDE DEF k
  <2>4. Element(name, attributes, Part(nodes, k - 1) \o <<z>>) \in PartsOf(name, attributes, nodes, parts)
    BY <2>3, InParts
  <2> QED
    BY <2>2, <2>3, <2>4
<1> QED
  BY <1>8, <1>10, <1>11

\* w is what is printed of an element.
PrintOf(w, name, attributes, children, place) ==
    /\ name \in Words \ {""} /\ attributes \in AttributeLists /\ Different(attributes)
    /\ children \in Seq(Seq(Pieces))
    /\ IsLayout(w, name, attributes, children, place)

\* The print of an element is read as the element when all of it is there; of a beginning of it
\* ElementParse makes an unknown node or one of the parts, with the error set.
LEMMA BegunReads ==
    ASSUME NEW t, NEW m, NEW e, NEW name, NEW attributes, NEW children, NEW place,
           Begun(t, m, e, name, attributes, children, place),
           NEW N, NEW nodes, Kids(children, nodes, N), NEW parts, KidsCut(children, parts, N)
    PROVE  IF m + Len(e) <= Len(t)
           THEN WholeAt(t, m, e, Element(name, attributes, nodes))
           ELSE \/ NodeAt(t, m) = Parsed(Len(t) + 1, Unknown, FALSE)
                \/ \E y \in PartsOf(name, attributes, nodes, parts) : BrokenAt(t, m, y)
<1> DEFINE L == Len(t)
           n == Len(children)
           whole == m + Len(e) <= L
           parts0 == PartsOf(name, attributes, nodes, parts)
           Broken == \/ NodeAt(t, m) = Parsed(L + 1, Unknown, FALSE)
                     \/ \E y \in parts0 : BrokenAt(t, m, y)
<1>1. /\ L \in Nat /\ n \in Nat /\ m \in Nat /\ Len(e) \in Nat /\ Stop(attributes, children) \in Nat
      /\ Stop(attributes, children) < Len(e) /\ Len(attributes) \in Nat
  BY BegunIs
<1>2. nodes \in Seq(N) /\ Len(nodes) = n
  BY DEF Kids
<1>3. Unknown \in N
  BY DEF KidsCut
<1>4. CASE ~ TagEnds(t, m, attributes, children)
  <2>1. ~ whole
    BY <1>1, <1>4 DEF TagEnds
  <2>2. \/ LostAt(t, m)
        \/ \E j \in 0 .. Len(attributes) : BrokenAt(t, m, Element(name, Part(attributes, j), <<>>))
    BY <1>4, TagCut
  <2>3. \A j \in 0 .. Len(attributes) : Element(name, Part(attributes, j), <<>>) \in parts0
    BY InParts
  <2>4. Broken
    BY <2>2, <2>3 DEF LostAt
  <2> QED
    BY <2>1, <2>4
<1>5. CASE TagEnds(t, m, attributes, children) /\ n = 0
  <2>1. nodes = <<>>
    BY <1>2, <1>5, EmptySeq
  <2>2. IF m + Len(e) <= Len(t)
        THEN WholeAt(t, m, e, Element(name, attributes, <<>>))
        ELSE BrokenAt(t, m, Element(name, attributes, <<>>))
    BY <1>5, NoChild
  <2>3. Element(name, attributes, <<>>) \in parts0
    <3>1. Len(attributes) \in 0 .. Len(attributes)
      BY <1>1
    <3>2. Part(attributes, Len(attributes)) = attributes
      BY SubSeqFull DEF Part, Begun, AttributeLists
    <3> QED
      BY <3>1, <3>2, InParts
  <2>4. ~ whole => Broken
    BY <2>2, <2>3
  <2>5. whole => WholeAt(t, m, e, Element(name, attributes, nodes))
    BY <2>1, <2>2
  <2> QED
    BY <2>4, <2>5
<1>6. CASE TagEnds(t, m, attributes, children) /\ n # 0 /\ m + place[n] <= L
  <2>1. IF m + Len(e) <= Len(t)
        THEN WholeAt(t, m, e, Element(name, attributes, nodes))
        ELSE \E c \in {<<>>, <<Unknown>>} :
                    BrokenAt(t, m, Element(name, attributes, Part(nodes, Len(nodes)) \o c))
    BY <1>3, <1>6, AllChildren
  <2>2. Len(nodes) \in 0 .. Len(nodes)
    BY <1>1, <1>2
  <2>3. \A c \in {<<>>, <<Unknown>>} : Element(name, attributes, Part(nodes, Len(nodes)) \o c) \in parts0
    BY <2>2, InParts
  <2>4. ~ whole => Broken
    BY <2>1, <2>3
  <2> QED
    BY <2>1, <2>4
<1>7. CASE TagEnds(t, m, attributes, children) /\ n # 0 /\ ~ (m + place[n] <= L)
  <2>1. \E y \in parts0 : BrokenAt(t, m, y)
    BY <1>7, SomeChildren
  <2>2. ~ whole
    <3> DEFINE a == place[n]
               l == Len(e)
    <3>1. place \in [0 .. n -> Nat] /\ l = a + 3
      BY <1>7, PlacesAre
    <3>2. n \in 0 .. n
      BY <1>1
    <3>3. a \in Nat /\ ~ (m + a <= L) /\ l \in Nat
      BY <1>1, <1>7, <3>1, <3>2
    <3> HIDE DEF a, l
    <3>4. ~ (m + l <= L)
      BY <1>1, <3>1, <3>3
    <3> QED
      BY <3>4 DEF l
  <2> QED
    BY <2>1, <2>2
<1> QED
  BY <1>4, <1>5, <1>6, <1>7

\* What is printed of an element is read as the element, and as a part of it when the
\* text ends before its end.
LEMMA ElementReads ==
    ASSUME NEW w, NEW name, NEW attributes, NEW children, NEW place,
           PrintOf(w, name, attributes, children, place),
           NEW N, NEW nodes, Kids(children, nodes, N), NEW parts, KidsCut(children, parts, N)
    PROVE  /\ ReadsWhole(w, Element(name, attributes, nodes))
           /\ ReadsCut(w, PartsOf(name, attributes, nodes, parts))
<1>1. ASSUME NEW t \in Seq(Pieces), NEW m \in Nat, m < Len(t), Follows(t, m, w)
      PROVE  IF m + Len(w) <= Len(t)
             THEN WholeAt(t, m, w, Element(name, attributes, nodes))
             ELSE \/ NodeAt(t, m) = Parsed(Len(t) + 1, Unknown, FALSE)
                  \/ \E y \in PartsOf(name, attributes, nodes, parts) : BrokenAt(t, m, y)
  <2>1. Begun(t, m, w, name, attributes, children, place)
    BY <1>1 DEF Begun, PrintOf
  <2> QED
    BY <2>1, BegunReads
<1>2. ReadsWhole(w, Element(name, attributes, nodes))
  BY <1>1 DEF ReadsWhole, WholeAt
<1>3. ReadsCut(w, PartsOf(name, attributes, nodes, parts))
  <2> DEFINE parts0 == PartsOf(name, attributes, nodes, parts)
  <2> SUFFICES ASSUME NEW t \in Seq(Pieces), NEW m \in Nat,
                      m < Len(t), Follows(t, m, w), Len(t) < m + Len(w)
               PROVE  \/ NodeAt(t, m) = Parsed(Len(t) + 1, Unknown, FALSE)
                      \/ \E y \in parts0 : NodeAt(t, m) = Parsed(0, y, TRUE)
    BY DEF ReadsCut
  <2>1. ~ (m + Len(w) <= Len(t))
    <3>1. w \in Seq(Pieces)
      BY DEF PrintOf, IsLayout
    <3> DEFINE l == Len(w)
               L == Len(t)
    <3>2. l \in Nat /\ L \in Nat /\ L < m + l
      BY <3>1, LenProperties
    <3> HIDE DEF l, L
    <3>3. ~ (m + l <= L)
      BY <3>2
    <3> QED
      BY <3>3 DEF l, L
  <2> HIDE DEF parts0
  <2>2. \/ NodeAt(t, m) = Parsed(Len(t) + 1, Unknown, FALSE)
        \/ \E y \in parts0 : BrokenAt(t, m, y)
    BY <1>1, <2>1 DEF parts0
  <2> QED
    BY <2>2 DEF BrokenAt
<1> QED
  BY <1>2, <1>3

\* The loop of Elements.
MetStep(nodes, met, k) ==
    CASE k = 0 -> <<>>
      [] k > 0 /\ nodes[k].type = "element" -> Append(met[k - 1], nodes[k])
      [] OTHER -> met[k - 1]
IsMet(nodes, met) == met = [k \in 0 .. Len(nodes) |-> MetStep(nodes, met, k)]

\* When the elements among nodes are those behind a up to b, these are met.
LEMMA ElementsSlice ==
    ASSUME NEW S, NEW nodes \in Seq(S), NEW a \in Nat, NEW b \in Nat, a <= b, b <= Len(nodes),
           \A k \in 1 .. Len(nodes) : nodes[k].type = "element" <=> k \in a + 1 .. b
    PROVE  Elements(nodes) = SubSeq(nodes, a + 1, b)
<1> DEFINE L == Len(nodes)
           upto(k) == IF k <= b THEN k ELSE b
           f == [k \in 0 .. L |-> SubSeq(nodes, a + 1, upto(k))]
<1>1. L \in Nat
  BY LenProperties
<1>2. \A k \in 0 .. L : f[k] = SubSeq(nodes, a + 1, upto(k))
  OBVIOUS
<1>3. ASSUME NEW k \in 0 .. L, NEW g, k = 0 \/ g[k - 1] = f[k - 1]
      PROVE  MetStep(nodes, g, k) = f[k]
  <2>1. CASE k = 0
    <3>1. f[k] = <<>>
      <4>1. a + 1 \in Int /\ upto(k) \in Int /\ upto(k) < a + 1
        BY <2>1
      <4> HIDE DEF upto
      <4> QED
        BY <1>2, <4>1, SubSeqEmpty
    <3> QED
      BY <2>1, <3>1 DEF MetStep
  <2>2. CASE k > 0
    <3>1. k \in 1 .. L /\ k \in Nat /\ k - 1 \in 0 .. L /\ k # 0
      BY <1>1, <2>2
    <3>2. g[k - 1] = f[k - 1] /\ f[k - 1] = SubSeq(nodes, a + 1, upto(k - 1))
      BY <1>2, <1>3, <3>1
    <3>3. f[k] = SubSeq(nodes, a + 1, upto(k))
      BY <1>2
    <3> HIDE DEF f
    <3>4. CASE k \in a + 1 .. b
      <4>1. upto(k) = k /\ upto(k - 1) = k - 1 /\ a + 1 \in 1 .. L /\ k \in a + 1 .. L
        BY <1>1, <3>1, <3>4
      <4>2. SubSeq(nodes, a + 1, k) = SubSeq(nodes, a + 1, k - 1) \o <<nodes[k]>>
        BY <4>1, SubSeqRecursiveSecond
      <4>3. SubSeq(nodes, a + 1, k - 1) \in Seq(S) /\ nodes[k] \in S
        <5>1. \A i \in a + 1 .. k - 1 : nodes[i] \in S
          <6> TAKE i \in a + 1 .. k - 1
          <6>1. i \in 1 .. Len(nodes)
            BY <1>1, <3>1
          <6> QED
            BY <6>1, ElementOfSeq
        <5>2. a + 1 \in Int /\ k - 1 \in Int
          BY <3>1
        <5>3. nodes[k] \in S
          BY <3>1, ElementOfSeq
        <5> QED
          BY <5>1, <5>2, <5>3, SubSeqProperties
      <4>4. Append(SubSeq(nodes, a + 1, k - 1), nodes[k]) = SubSeq(nodes, a + 1, k - 1) \o <<nodes[k]>>
        BY <4>3, AppendIsConcat
      <4>5. nodes[k].type = "element"
        BY <3>1, <3>4
      <4>6. MetStep(nodes, g, k) = Append(g[k - 1], nodes[k])
        BY <2>2, <3>1, <4>5 DEF MetStep
      <4> HIDE DEF upto
      <4>7. MetStep(nodes, g, k) = Append(SubSeq(nodes, a + 1, k - 1), nodes[k])
        BY <3>2, <4>1, <4>6
      <4> QED
        BY <3>3, <4>1, <4>2, <4>4, <4>7
    <3>5. CASE k \notin a + 1 .. b
      <4>1. nodes[k].type # "element"
        BY <3>1, <3>5
      <4>2. MetStep(nodes, g, k) = g[k - 1]
        BY <2>2, <3>1, <4>1 DEF MetStep
      <4>3. f[k - 1] = f[k]
        <5>1. CASE k > b
          <6>1. upto(k) = b /\ upto(k - 1) = b
            BY <3>1, <5>1
          <6> HIDE DEF upto
          <6> QED
            BY <3>2, <3>3, <6>1
        <5>2. CASE k <= b
          <6>1. /\ upto(k) \in Int /\ upto(k - 1) \in Int /\ upto(k) < a + 1 /\ upto(k - 1) < a + 1
                /\ a + 1 \in Int
            BY <3>1, <3>5, <5>2
          <6> HIDE DEF upto
          <6>2. SubSeq(nodes, a + 1, upto(k)) = <<>>
            BY <6>1, SubSeqEmpty
          <6>3. SubSeq(nodes, a + 1, upto(k - 1)) = <<>>
            BY <6>1, SubSeqEmpty
          <6> QED
            BY <3>2, <3>3, <6>2, <6>3
        <5> QED
          BY <3>1, <5>1, <5>2
      <4> QED
        BY <3>2, <4>2, <4>3
    <3> QED
      BY <3>4, <3>5
  <2> QED
    BY <1>1, <2>1, <2>2
<1>4. IsMet(nodes, f)
  <2>1. \A k \in 0 .. L : MetStep(nodes, f, k) = f[k]
    <3> HIDE DEF f
    <3> QED
      BY <1>3
  <2>2. f = [k \in 0 .. L |-> f[k]]
    OBVIOUS
  <2> HIDE DEF f
  <2>3. f = [k \in 0 .. L |-> MetStep(nodes, f, k)]
    BY <2>1, <2>2
  <2> QED
    BY <2>3 DEF IsMet
<1> DEFINE met == CHOOSE g : IsMet(nodes, g)
<1>5. IsMet(nodes, met)
  <2> HIDE DEF f
  <2> QED
    BY <1>4
<1> HIDE DEF met, f
<1>6. \A k \in 0 .. L : met[k] = MetStep(nodes, met, k)
  BY <1>5 DEF IsMet
<1> DEFINE T == {k \in Nat : k <= L => met[k] = f[k]}
<1>7. 0 \in T
  <2>1. 0 \in 0 .. L
    BY <1>1
  <2>2. met[0] = f[0]
    BY <1>3, <1>6, <2>1
  <2> QED
    BY <2>2
<1>8. ASSUME NEW k \in Nat, k \in T PROVE k + 1 \in T
  <2>1. CASE k + 1 <= L
    <3> DEFINE i == k + 1
    <3>1. i \in 0 .. L /\ i - 1 = k /\ k <= L
      BY <1>1, <2>1
    <3>2. met[k] = f[k]
      BY <1>8, <3>1
    <3> HIDE DEF i
    <3>3. met[i - 1] = f[i - 1]
      BY <3>1, <3>2
    <3>4. met[i] = f[i]
      BY <1>3, <1>6, <3>1, <3>3
    <3> QED
      BY <3>4 DEF i
  <2> QED
    BY <2>1
<1>9. \A k \in Nat : k \in T
  <2> HIDE DEF T
  <2> QED
    BY <1>7, <1>8, NatAll
<1>10. met[L] = f[L]
  BY <1>1, <1>9
<1>11. Elements(nodes) = met[L]
  BY DEF Elements, met, IsMet, MetStep
<1>12. upto(L) = b /\ L \in 0 .. L
  BY <1>1
<1> QED
  BY <1>2, <1>10, <1>11, <1>12

AttributePairs == [name : Words, value : AttributeValues]
GoodUsers == {[ip |-> NoAddress, rest |-> FALSE]} \cup {[ip |-> a, rest |-> b] : a \in Machines, b \in BOOLEAN}

\* A user without an address has nothing else.
LEMMA GoodUsersAre ==
    ASSUME NEW u \in GoodUsers
    PROVE  /\ u \in [ip : Machines \cup {NoAddress}, rest : BOOLEAN]
           /\ u.ip = NoAddress => ~ u.rest /\ u = [ip |-> NoAddress, rest |-> FALSE]
           /\ u.ip # NoAddress => u.ip \in Machines
<1>1. NoAddress \notin Machines
  BY FileAssumption
<1>2. CASE u = [ip |-> NoAddress, rest |-> FALSE]
  BY <1>2
<1>3. CASE u \in {[ip |-> a, rest |-> b] : a \in Machines, b \in BOOLEAN}
  <2>1. PICK a \in Machines, b \in BOOLEAN : u = [ip |-> a, rest |-> b]
    BY <1>3
  <2>2. u.ip = a /\ u.rest = b
    BY <2>1
  <2> QED
    BY <1>1, <2>1, <2>2
<1> QED
  BY <1>2, <1>3 DEF GoodUsers

\* The other attributes of a user differ from each other and from ip.
LEMMA RestIs ==
    /\ Rest \in Seq(Words) /\ Len(Rest) = 4 /\ DOMAIN Rest = 1 .. 4
    /\ \A k \in 1 .. 4 : Rest[k] \in Words /\ Rest[k] # "ip"
    /\ \A i, j \in 1 .. 4 : Rest[i] = Rest[j] => i = j
<1>1. Rest[1] = "hostname" /\ Rest[2] = "username" /\ Rest[3] = "os" /\ Rest[4] = "nbvideo"
  BY DEF Rest
<1>2. Len(Rest) = 4 /\ DOMAIN Rest = 1 .. 4
  BY DEF Rest
<1>3. \A k \in 1 .. 4 : k = 1 \/ k = 2 \/ k = 3 \/ k = 4
  OBVIOUS
<1>4. \A k \in 1 .. 4 : Rest[k] \in Words /\ Rest[k] # "ip"
  BY <1>1, <1>3 DEF Words
<1>5. \A i, j \in 1 .. 4 : Rest[i] = Rest[j] => i = j
  BY <1>1, <1>3
<1>6. Rest \in Seq(Words)
  BY <1>1, <1>4 DEF Words, Rest
<1> QED
  BY <1>2, <1>4, <1>5, <1>6

\* A function on 1 .. n is a sequence.
LEMMA Sequenced ==
    ASSUME NEW S, NEW n \in Nat, NEW g \in [1 .. n -> S]
    PROVE  g \in Seq(S) /\ Len(g) = n
BY LenProperties

\* The fields of an attribute.
LEMMA Attributed ==
    ASSUME NEW name \in Words, NEW value \in AttributeValues
    PROVE  /\ Attribute(name, value) \in AttributePairs
           /\ Attribute(name, value).name = name /\ Attribute(name, value).value = value
BY DEF Attribute, AttributePairs

\* The attributes of a user: the address, then the others.
LEMMA UserAttributesAre ==
    ASSUME NEW u \in GoodUsers
    PROVE  LET attributes == UserAttributes(u)
           IN  /\ attributes \in AttributeLists
               /\ Len(attributes) = (IF u.ip = NoAddress THEN 0 ELSE 1) + (IF u.rest THEN 4 ELSE 0)
               /\ u.ip # NoAddress => attributes[1].name = "ip" /\ attributes[1].value = u.ip
               /\ u.rest => \A k \in 1 .. 4 : attributes[k + 1].name = Rest[k]
<1> DEFINE f == IF u.ip = NoAddress THEN <<>> ELSE <<Attribute("ip", u.ip)>>
           n == IF u.rest THEN 4 ELSE 0
           g == [k \in 1 .. n |-> Attribute(Rest[k], "")]
           l == IF u.ip = NoAddress THEN 0 ELSE 1
<1>1. /\ u.ip = NoAddress => ~ u.rest
      /\ u.ip # NoAddress => u.ip \in Machines
      /\ u.rest \in BOOLEAN
  BY GoodUsersAre
<1>2. n \in Nat /\ n <= 4 /\ l \in Nat
  OBVIOUS
<1>3. f \in Seq(AttributePairs) /\ Len(f) = l /\ (u.ip # NoAddress => f[1] = Attribute("ip", u.ip))
  <2>1. CASE u.ip = NoAddress
    BY <2>1, EmptySeq
  <2>2. CASE u.ip # NoAddress
    <3> DEFINE x == Attribute("ip", u.ip)
    <3>1. x \in AttributePairs
      <4>1. "ip" \in Words /\ u.ip \in AttributeValues
        BY <1>1, <2>2 DEF Words, AttributeValues
      <4> QED
        BY <4>1, Attributed
    <3> HIDE DEF x
    <3>2. <<x>> \in Seq(AttributePairs) /\ Len(<<x>>) = 1 /\ <<x>>[1] = x
      BY <3>1, Three
    <3> QED
      BY <2>2, <3>2 DEF x
  <2> QED
    BY <2>1, <2>2
<1>4. g \in Seq(AttributePairs) /\ Len(g) = n /\ \A k \in 1 .. n : g[k] = Attribute(Rest[k], "")
  <2>1. \A k \in 1 .. n : Attribute(Rest[k], "") \in AttributePairs
    <3> TAKE k \in 1 .. n
    <3>1. k \in 1 .. 4
      OBVIOUS
    <3>2. Rest[k] \in Words /\ "" \in AttributeValues
      BY <3>1, RestIs DEF AttributeValues
    <3> QED
      BY <3>2, Attributed
  <2> HIDE DEF n
  <2>2. g \in [1 .. n -> AttributePairs]
    BY <2>1
  <2>3. \A k \in 1 .. n : g[k] = Attribute(Rest[k], "")
    OBVIOUS
  <2> HIDE DEF g
  <2>4. g \in Seq(AttributePairs) /\ Len(g) = n
    BY <1>2, <2>2, Sequenced
  <2> QED
    BY <2>3, <2>4
<1>5. UserAttributes(u) = f \o g
  BY DEF UserAttributes
<1> HIDE DEF f, g
<1>6. /\ f \o g \in Seq(AttributePairs) /\ Len(f \o g) = l + n
      /\ \A i \in 1 .. l + n : (f \o g)[i] = (IF i <= l THEN f[i] ELSE g[i - l])
  <2>1. /\ f \o g \in Seq(AttributePairs) /\ Len(f \o g) = Len(f) + Len(g)
        /\ \A i \in 1 .. Len(f) + Len(g) : (f \o g)[i] = (IF i <= Len(f) THEN f[i] ELSE g[i - Len(f)])
    BY <1>3, <1>4, ConcatProperties
  <2>2. Len(f) = l /\ Len(g) = n
    BY <1>3, <1>4
  <2> DEFINE h == f \o g
  <2> HIDE DEF l, n, h
  <2> QED
    BY <2>1, <2>2, Zenon
<1>7. UserAttributes(u) \in AttributeLists /\ Len(UserAttributes(u)) = l + n
  BY <1>5, <1>6 DEF AttributeLists, AttributePairs
<1>8. u.ip # NoAddress => UserAttributes(u)[1].name = "ip" /\ UserAttributes(u)[1].value = u.ip
  <2> SUFFICES ASSUME u.ip # NoAddress
               PROVE  UserAttributes(u)[1].name = "ip" /\ UserAttributes(u)[1].value = u.ip
    OBVIOUS
  <2>1. (f \o g)[1] = f[1]
    <3>1. 1 \in 1 .. l + n /\ 1 <= l
      BY <1>2
    <3> HIDE DEF l, n
    <3> QED
      BY <1>6, <3>1
  <2>2. f[1] = Attribute("ip", u.ip)
    BY <1>3
  <2> QED
    BY <1>5, <2>1, <2>2 DEF Attribute
<1>9. u.rest => \A k \in 1 .. 4 : UserAttributes(u)[k + 1].name = Rest[k]
  <2> SUFFICES ASSUME u.rest, NEW k \in 1 .. 4 PROVE UserAttributes(u)[k + 1].name = Rest[k]
    OBVIOUS
  <2>1. n = 4 /\ l = 1 /\ u.ip # NoAddress
    BY <1>1
  <2> HIDE DEF n, l
  <2>2. k + 1 \in 1 .. l + n /\ ~ (k + 1 <= l) /\ k + 1 - l = k /\ k \in 1 .. n
    BY <2>1
  <2>3. (f \o g)[k + 1] = g[k]
    <3> DEFINE i == k + 1
    <3>1. i \in 1 .. l + n /\ ~ (i <= l) /\ i - l = k
      BY <2>1
    <3> HIDE DEF i
    <3>2. (f \o g)[i] = (IF i <= l THEN f[i] ELSE g[i - l])
      BY <1>6, <3>1
    <3>3. (f \o g)[i] = g[i - l]
      BY <3>1, <3>2
    <3> QED
      BY <3>1, <3>3 DEF i
  <2>4. g[k] = Attribute(Rest[k], "")
    BY <1>4, <2>2
  <2> QED
    <3> DEFINE a == UserAttributes(u)[k + 1]
    <3>1. a = Attribute(Rest[k], "")
      BY <1>5, <2>3, <2>4
    <3> HIDE DEF a
    <3>2. a.name = Rest[k]
      BY <3>1 DEF Attribute
    <3> QED
      BY <3>2 DEF a
<1> QED
  BY <1>7, <1>8, <1>9

UserNode(u) == Element("user", UserAttributes(u), <<>>)
UserParts(u) == PartsOf("user", UserAttributes(u), <<>>, <<>>)

\* No two attributes of a user have a name in common.
LEMMA UserDifferent ==
    ASSUME NEW u \in GoodUsers
    PROVE  Different(UserAttributes(u))
<1> DEFINE a == UserAttributes(u)
<1>1. /\ Len(a) = (IF u.ip = NoAddress THEN 0 ELSE 1) + (IF u.rest THEN 4 ELSE 0)
      /\ u.ip # NoAddress => a[1].name = "ip"
      /\ u.rest => \A k \in 1 .. 4 : a[k + 1].name = Rest[k]
  BY UserAttributesAre
<1>2. u.ip = NoAddress => ~ u.rest
  BY GoodUsersAre
<1> HIDE DEF a
<1>3. CASE u.rest
  <2>1. Len(a) = 5 /\ a[1].name = "ip"
    BY <1>1, <1>2, <1>3
  <2>2. \A k \in 2 .. 5 : a[k].name = Rest[k - 1] /\ k - 1 \in 1 .. 4
    <3> TAKE k \in 2 .. 5
    <3> DEFINE i == k - 1
    <3>1. i \in 1 .. 4 /\ i + 1 = k
      OBVIOUS
    <3> HIDE DEF i
    <3>2. a[i + 1].name = Rest[i]
      BY <1>1, <1>3, <3>1
    <3>3. a[k].name = Rest[i]
      BY <3>1, <3>2
    <3> QED
      BY <3>1, <3>3 DEF i
  <2>3. ASSUME NEW i \in 1 .. 5, NEW j \in 1 .. 5, a[i].name = a[j].name PROVE i = j
    <3>1. CASE i = 1 /\ j # 1
      <4>1. j \in 2 .. 5
        BY <3>1
      <4>2. a[j].name = Rest[j - 1] /\ Rest[j - 1] # "ip"
        BY <2>2, <4>1, RestIs
      <4> QED
        BY <2>1, <2>3, <3>1, <4>2
    <3>2. CASE i # 1 /\ j = 1
      <4>1. i \in 2 .. 5
        BY <3>2
      <4>2. a[i].name = Rest[i - 1] /\ Rest[i - 1] # "ip"
        BY <2>2, <4>1, RestIs
      <4> QED
        BY <2>1, <2>3, <3>2, <4>2
    <3>3. CASE i # 1 /\ j # 1
      <4>1. i \in 2 .. 5 /\ j \in 2 .. 5
        BY <3>3
      <4>2. Rest[i - 1] = Rest[j - 1] /\ i - 1 \in 1 .. 4 /\ j - 1 \in 1 .. 4
        BY <2>2, <2>3, <4>1
      <4>3. i - 1 = j - 1
        BY <4>2, RestIs
      <4> QED
        BY <4>3
    <3> QED
      BY <3>1, <3>2, <3>3
  <2> QED
    BY <2>1, <2>3 DEF Different, a
<1>4. CASE ~ u.rest
  <2>1. Len(a) = 0 \/ Len(a) = 1
    BY <1>1, <1>4
  <2>2. \A i, j \in 1 .. Len(a) : i = j
    <3> DEFINE l == Len(a)
    <3>1. l = 0 \/ l = 1
      BY <2>1
    <3> HIDE DEF l
    <3>2. \A i, j \in 1 .. l : i = j
      BY <3>1
    <3> QED
      BY <3>2 DEF l
  <2> QED
    BY <2>2 DEF Different, a
<1> QED
  BY <1>3, <1>4

\* The print of a user, laid out.
LEMMA UserIsPrinted ==
    ASSUME NEW u \in GoodUsers
    PROVE  \E place : PrintOf(UserPrint(u), "user", UserAttributes(u), <<>>, place)
<1> DEFINE name == "user"
           attributes == UserAttributes(u)
           children == <<>>
<1>1. name \in Words /\ name # ""
  BY DEF Words
<1>2. attributes \in AttributeLists /\ Different(attributes)
  BY UserAttributesAre, UserDifferent
<1>3. children \in Seq(Seq(Pieces))
  BY EmptySeq
<1>4. UserPrint(u) = ElementPrint(name, attributes, children)
  BY DEF UserPrint
<1> HIDE DEF name, attributes, children
<1>5. \E place : IsLayout(ElementPrint(name, attributes, children), name, attributes, children, place)
  BY <1>1, <1>2, <1>3, Layout
<1>6. \E place : PrintOf(UserPrint(u), name, attributes, children, place)
  BY <1>1, <1>2, <1>3, <1>4, <1>5 DEF PrintOf
<1> QED
  BY <1>6 DEF name, attributes, children

\* A print starts with its start tag.
LEMMA PrintOpens ==
    ASSUME NEW w, NEW name, NEW attributes, NEW children, NEW place,
           PrintOf(w, name, attributes, children, place)
    PROVE  w \in Seq(Pieces) /\ Len(w) \in Nat /\ Opens(w) /\ w[1] = Named("open", name)
<1>1. w \in Seq(Pieces) /\ w[1] = Named("open", name)
  BY DEF PrintOf, IsLayout
<1>2. w[1].kind = "open"
  BY <1>1, PieceFields
<1> DEFINE t == <<w[1]>>
<1>3. Len(w) \in Nat
  BY <1>1, LenProperties
<1>4. Len(w) >= 1
  <2>1. /\ attributes \in AttributeLists /\ children \in Seq(Seq(Pieces))
        /\ Len(children) = 0 => Len(w) = 2 * Len(attributes) + 4
        /\ Len(children) # 0 => /\ place \in [0 .. Len(children) -> Nat]
                                /\ Len(w) = place[Len(children)] + 3
    BY DEF PrintOf, IsLayout
  <2>2. Len(attributes) \in Nat /\ Len(children) \in Nat /\ Len(children) \in 0 .. Len(children)
    BY <2>1, LenProperties DEF AttributeLists
  <2>3. CASE Len(children) = 0
    BY <2>1, <2>2, <2>3
  <2>4. CASE Len(children) # 0
    <3> DEFINE b == place[Len(children)]
    <3>1. b \in Nat /\ Len(w) = b + 3
      BY <2>1, <2>2, <2>4
    <3> HIDE DEF b
    <3> QED
      BY <3>1
  <2> QED
    BY <2>3, <2>4
<1> QED
  BY <1>1, <1>2, <1>3, <1>4 DEF Opens

\* A user is read back, whole or cut.
LEMMA UserReads ==
    ASSUME NEW u \in GoodUsers
    PROVE  /\ UserPrint(u) \in Seq(Pieces) /\ Opens(UserPrint(u))
           /\ ReadsWhole(UserPrint(u), UserNode(u))
           /\ ReadsCut(UserPrint(u), UserParts(u))
<1>1. PICK place : PrintOf(UserPrint(u), "user", UserAttributes(u), <<>>, place)
  BY UserIsPrinted
<1> DEFINE N == {Unknown}
           name == "user"
           none == <<>>
<1>2. none \in Seq(N) /\ Len(none) = 0 /\ 1 .. 0 = {}
  BY EmptySeq
<1>3. Kids(none, none, N)
  BY <1>2 DEF Kids
<1>4. KidsCut(none, none, N)
  BY <1>2 DEF KidsCut
<1>5. PrintOf(UserPrint(u), name, UserAttributes(u), none, place)
  BY <1>1
<1> HIDE DEF N, name, none
<1>6. /\ ReadsWhole(UserPrint(u), Element(name, UserAttributes(u), none))
      /\ ReadsCut(UserPrint(u), PartsOf(name, UserAttributes(u), none, none))
  BY <1>3, <1>4, <1>5, ElementReads
<1>7. UserPrint(u) \in Seq(Pieces) /\ Opens(UserPrint(u))
  BY <1>5, PrintOpens
<1> QED
  BY <1>6, <1>7 DEF name, none, UserNode, UserParts

\* The first j attributes of a user, as the program sees them.
LEMMA UserSeenPart ==
    ASSUME NEW u \in GoodUsers, NEW j \in 0 .. Len(UserAttributes(u)), NEW e,
           e.attributes = Part(UserAttributes(u), j)
    PROVE  UserSeen(e) = IF j = 0 THEN [ip |-> NoAddress, rest |-> FALSE]
                         ELSE [ip |-> u.ip, rest |-> j = 5]
<1> DEFINE full == UserAttributes(u)
           a == Part(full, j)
<1>1. /\ full \in Seq(AttributePairs)
      /\ Len(full) = (IF u.ip = NoAddress THEN 0 ELSE 1) + (IF u.rest THEN 4 ELSE 0)
      /\ u.ip # NoAddress => full[1].name = "ip" /\ full[1].value = u.ip
      /\ u.rest => \A k \in 1 .. 4 : full[k + 1].name = Rest[k]
  BY UserAttributesAre DEF AttributeLists, AttributePairs
<1>2. /\ u.ip = NoAddress => ~ u.rest
      /\ u.rest \in BOOLEAN
  BY GoodUsersAre
<1> HIDE DEF full
<1>3. j \in Nat /\ j <= Len(full) /\ j <= 5 /\ (u.ip = NoAddress => j = 0) /\ (j > 1 => u.rest)
  <2> DEFINE l == Len(full)
  <2>1. j \in 0 .. l
    BY DEF full
  <2>2. l = (IF u.ip = NoAddress THEN 0 ELSE 1) + (IF u.rest THEN 4 ELSE 0)
    BY <1>1
  <2> HIDE DEF l
  <2>3. u.ip = NoAddress => l = 0
    BY <1>2, <2>2
  <2>4. ~ u.rest => l <= 1
    BY <2>2
  <2>5. l <= 5 /\ l \in Nat
    BY <2>2
  <2> QED
    BY <2>1, <2>3, <2>4, <2>5 DEF l
<1>4. a \in Seq(AttributePairs) /\ Len(a) = j /\ DOMAIN a = 1 .. j /\ \A k \in 1 .. j : a[k] = full[k]
  <2>1. \A k \in 1 .. j : full[k] \in AttributePairs
    <3> TAKE k \in 1 .. j
    <3>1. k \in 1 .. Len(full)
      <4> DEFINE l == Len(full)
      <4>1. l \in Nat /\ j <= l
        BY <1>1, <1>3, LenProperties
      <4> HIDE DEF l
      <4> QED
        BY <1>3, <4>1 DEF l
    <3> QED
      BY <1>1, <3>1, ElementOfSeq
  <2>2. 1 \in Int /\ j \in Int
    BY <1>3
  <2>3. /\ SubSeq(full, 1, j) \in Seq(AttributePairs)
        /\ Len(SubSeq(full, 1, j)) = IF 1 <= j THEN j - 1 + 1 ELSE 0
        /\ \A i \in 1 .. j - 1 + 1 : SubSeq(full, 1, j)[i] = full[1 + i - 1]
    BY <2>1, <2>2, SubSeqProperties
  <2>4. (IF 1 <= j THEN j - 1 + 1 ELSE 0) = j /\ j - 1 + 1 = j /\ \A i \in 1 .. j : 1 + i - 1 = i
    BY <1>3
  <2>5. a \in Seq(AttributePairs) /\ Len(a) = j /\ \A i \in 1 .. j : a[i] = full[i]
    BY <2>3, <2>4 DEF Part
  <2> HIDE DEF a
  <2> QED
    BY <2>5, LenProperties
<1>5. e.attributes = a
  BY DEF full
<1> HIDE DEF a
<1>6. j >= 1 => a[1].name = "ip" /\ a[1].value = u.ip /\ u.ip # NoAddress
  <2> SUFFICES ASSUME j >= 1 PROVE a[1].name = "ip" /\ a[1].value = u.ip /\ u.ip # NoAddress
    OBVIOUS
  <2>1. u.ip # NoAddress /\ 1 \in 1 .. j
    BY <1>3
  <2> QED
    BY <1>1, <1>4, <2>1
<1>7. \A k \in 2 .. j : a[k].name = Rest[k - 1] /\ k - 1 \in 1 .. 4 /\ Rest[k - 1] # "ip"
  <2> TAKE k \in 2 .. j
  <2> DEFINE i == k - 1
  <2>1. k \in 1 .. j /\ i \in 1 .. 4 /\ i + 1 = k /\ j > 1
    BY <1>3
  <2> HIDE DEF i
  <2>2. full[i + 1].name = Rest[i]
    BY <1>1, <1>3, <2>1
  <2>3. a[k].name = Rest[i]
    BY <1>4, <2>1, <2>2
  <2>4. Rest[i] # "ip"
    BY <2>1, RestIs
  <2> QED
    BY <2>1, <2>3, <2>4 DEF i
<1>8. Value(e, "ip", NoAddress) = IF j = 0 THEN NoAddress ELSE u.ip
  <2> DEFINE K == {k \in DOMAIN e.attributes : e.attributes[k].name = "ip"}
  <2>1. Value(e, "ip", NoAddress) = IF K = {} THEN NoAddress ELSE e.attributes[First(K)].value
    BY DEF Value
  <2>2. CASE j = 0
    <3>1. K = {}
      BY <1>3, <1>4, <1>5, <2>2
    <3> QED
      BY <2>1, <2>2, <3>1
  <2>3. CASE j # 0
    <3>1. K = {1}
      <4>1. \A k \in K : k = 1
        <5> SUFFICES ASSUME NEW k \in K, k # 1 PROVE FALSE
          OBVIOUS
        <5>1. k \in 1 .. j /\ a[k].name = "ip"
          BY <1>4, <1>5
        <5>2. k \in 2 .. j
          BY <1>3, <5>1
        <5> QED
          BY <1>7, <5>1, <5>2
      <4>2. 1 \in K
        <5>1. 1 \in 1 .. j /\ j >= 1
          BY <1>3, <2>3
        <5> QED
          BY <1>4, <1>5, <1>6, <5>1
      <4> HIDE DEF K
      <4> QED
        BY <4>1, <4>2
    <3> HIDE DEF K
    <3>2. First(K) = 1
      BY <3>1 DEF First
    <3>3. j >= 1
      BY <1>3, <2>3
    <3>4. Value(e, "ip", NoAddress) = a[1].value
      BY <1>5, <2>1, <3>1, <3>2
    <3> QED
      BY <1>6, <2>3, <3>3, <3>4
  <2> QED
    BY <2>2, <2>3
<1>9. (\A k \in DOMAIN Rest : Has(e, Rest[k])) <=> j = 5
  <2>1. DOMAIN Rest = 1 .. 4
    BY RestIs
  <2>2. ASSUME j = 5, NEW k \in 1 .. 4 PROVE Has(e, Rest[k])
    <3> DEFINE i == k + 1
    <3>1. i \in 2 .. j /\ i \in 1 .. j /\ i - 1 = k
      BY <2>2
    <3> HIDE DEF i
    <3>2. a[i].name = Rest[k]
      BY <1>7, <3>1
    <3> QED
      BY <1>4, <1>5, <3>1, <3>2 DEF Has
  <2>3. ASSUME Has(e, Rest[4]) PROVE j = 5
    <3>1. PICK k \in DOMAIN e.attributes : e.attributes[k].name = Rest[4]
      BY <2>3 DEF Has
    <3>2. k \in 1 .. j /\ a[k].name = Rest[4] /\ j >= 1
      <4>1. k \in 1 .. j /\ a[k].name = Rest[4]
        BY <1>4, <1>5, <3>1
      <4> QED
        BY <1>3, <4>1
    <3>3. k # 1
      <4>1. Rest[4] # "ip"
        BY RestIs
      <4> QED
        BY <1>6, <3>2, <4>1
    <3>4. k \in 2 .. j
      BY <1>3, <3>2, <3>3
    <3>5. Rest[k - 1] = Rest[4] /\ k - 1 \in 1 .. 4
      BY <1>7, <3>2, <3>4
    <3>6. k - 1 = 4
      BY <3>5, RestIs
    <3> QED
      BY <1>3, <3>4, <3>6
  <2>4. 4 \in 1 .. 4
    OBVIOUS
  <2>5. j = 5 => \A k \in 1 .. 4 : Has(e, Rest[k])
    BY <2>2
  <2> QED
    BY <2>1, <2>3, <2>4, <2>5
<1>10. UserSeen(e) = [ip |-> IF j = 0 THEN NoAddress ELSE u.ip, rest |-> j = 5]
  <2> DEFINE x == Value(e, "ip", NoAddress)
             b == \A k \in DOMAIN Rest : Has(e, Rest[k])
             c == j = 5
  <2>1. UserSeen(e) = [ip |-> x, rest |-> b]
    BY DEF UserSeen
  <2>2. b \in BOOLEAN /\ c \in BOOLEAN /\ (b <=> c)
    BY <1>9
  <2>3. x = IF j = 0 THEN NoAddress ELSE u.ip
    BY <1>8
  <2> HIDE DEF x, b, c
  <2>4. b = c
    BY <2>2
  <2>5. UserSeen(e) = [ip |-> IF j = 0 THEN NoAddress ELSE u.ip, rest |-> c]
    BY <2>1, <2>3, <2>4
  <2> QED
    BY <2>5 DEF c
<1>11. j = 0 => (j = 5) = FALSE
  OBVIOUS
<1> QED
  BY <1>10, <1>11

OnePart(y, name, attributes, nodes, parts, n) ==
    \/ \E j \in 0 .. Len(attributes) : y = Element(name, Part(attributes, j), <<>>)
    \/ \E K \in 0 .. n, x \in {<<>>, <<Unknown>>} : y = Element(name, attributes, Part(nodes, K) \o x)
    \/ \E k \in 1 .. n : \E z \in parts[k] : y = Element(name, attributes, Part(nodes, k - 1) \o <<z>>)

\* What a part of a cut element can be.
LEMMA OutOfParts ==
    ASSUME NEW name, NEW attributes, NEW nodes, NEW parts, NEW y \in PartsOf(name, attributes, nodes, parts)
    PROVE  OnePart(y, name, attributes, nodes, parts, Len(nodes))
<1> DEFINE I == 0 .. Len(attributes)
           J == 0 .. Len(nodes)
           H == 1 .. Len(nodes)
           C == {<<>>, <<Unknown>>}
           f(j) == Element(name, Part(attributes, j), <<>>)
           g(K, c) == Element(name, attributes, Part(nodes, K) \o c)
           h(k, z) == Element(name, attributes, Part(nodes, k - 1) \o <<z>>)
<1>1. PartsOf(name, attributes, nodes, parts) =
          {f(j) : j \in I} \cup {g(K, c) : K \in J, c \in C} \cup UNION {{h(k, z) : z \in parts[k]} : k \in H}
  BY DEF PartsOf
<1> HIDE DEF I, J, H, C, f, g, h
<1>2. \/ \E j \in I : y = f(j)
      \/ \E K \in J, c \in C : y = g(K, c)
      \/ \E k \in H : \E z \in parts[k] : y = h(k, z)
  BY <1>1
<1> QED
  BY <1>2 DEF I, J, H, C, f, g, h, OnePart

\* The fields of an element.
LEMMA ElementFields ==
    ASSUME NEW name, NEW attributes, NEW nodes
    PROVE  /\ Element(name, attributes, nodes).type = "element"
           /\ Element(name, attributes, nodes).attributes = attributes
           /\ Element(name, attributes, nodes).children = nodes
BY DEF Element

\* What can be left of a user.
LEMMA CutUserIs ==
    ASSUME NEW u \in GoodUsers
    PROVE  /\ CutUser(u) = {[ip |-> NoAddress, rest |-> FALSE], [ip |-> u.ip, rest |-> FALSE], u}
           /\ u = [ip |-> u.ip, rest |-> u.rest]
           /\ CutUser(u) \subseteq GoodUsers
<1>1. /\ u \in [ip : Machines \cup {NoAddress}, rest : BOOLEAN]
      /\ u.ip = NoAddress => u = [ip |-> NoAddress, rest |-> FALSE]
      /\ u.ip # NoAddress => u.ip \in Machines
  BY GoodUsersAre
<1>2. u = [ip |-> u.ip, rest |-> u.rest] /\ [u EXCEPT !.rest = FALSE] = [ip |-> u.ip, rest |-> FALSE]
  <2> DEFINE R == [ip : Machines \cup {NoAddress}, rest : BOOLEAN]
  <2>1. u \in R
    BY <1>1
  <2>2. \A v \in R : v = [ip |-> v.ip, rest |-> v.rest]
    OBVIOUS
  <2> DEFINE b == FALSE
  <2>3. b \in BOOLEAN
    OBVIOUS
  <2> HIDE DEF b
  <2>4. \A v \in R : [v EXCEPT !.rest = b] = [ip |-> v.ip, rest |-> b]
    BY <2>3
  <2> HIDE DEF R
  <2>5. [u EXCEPT !.rest = b] = [ip |-> u.ip, rest |-> b]
    BY <2>1, <2>4
  <2>6. [u EXCEPT !.rest = FALSE] = [ip |-> u.ip, rest |-> FALSE]
    BY <2>5 DEF b
  <2> QED
    BY <2>1, <2>2, <2>6
<1>3. CutUser(u) = {[ip |-> NoAddress, rest |-> FALSE], [ip |-> u.ip, rest |-> FALSE], u}
  BY <1>2 DEF CutUser
<1>4. [ip |-> NoAddress, rest |-> FALSE] \in GoodUsers
  BY DEF GoodUsers
<1>5. [ip |-> u.ip, rest |-> FALSE] \in GoodUsers
  <2>1. CASE u.ip = NoAddress
    BY <1>4, <2>1
  <2>2. CASE u.ip # NoAddress
    <3> DEFINE b == FALSE
               a == u.ip
    <3>1. a \in Machines /\ b \in BOOLEAN
      BY <1>1, <2>2
    <3> HIDE DEF a, b
    <3>2. [ip |-> a, rest |-> b] \in GoodUsers
      BY <3>1 DEF GoodUsers
    <3> QED
      BY <3>2 DEF a, b
  <2> QED
    BY <2>1, <2>2
<1> QED
  BY <1>2, <1>3, <1>4, <1>5

\* What the window takes from the element of a user, whole or cut.
LEMMA UserIsSeen ==
    ASSUME NEW u \in GoodUsers
    PROVE  /\ UserSeen(UserNode(u)) = u /\ UserNode(u).type = "element"
           /\ \A y \in UserParts(u) : UserSeen(y) \in CutUser(u) /\ y.type = "element"
           /\ \A z \in CutUser(u) : \E j \in 0 .. Len(UserAttributes(u)) :
                  UserSeen(Element("user", Part(UserAttributes(u), j), <<>>)) = z
<1> DEFINE a == UserAttributes(u)
           l == Len(a)
           seen(j) == IF j = 0 THEN [ip |-> NoAddress, rest |-> FALSE] ELSE [ip |-> u.ip, rest |-> j = 5]
<1>1. a \in AttributeLists /\ l = (IF u.ip = NoAddress THEN 0 ELSE 1) + (IF u.rest THEN 4 ELSE 0)
  BY UserAttributesAre
<1>2. Part(a, l) = a
  BY <1>1, SubSeqFull DEF Part, AttributeLists
<1>3. /\ u.ip = NoAddress => ~ u.rest /\ u = [ip |-> NoAddress, rest |-> FALSE]
      /\ u.rest \in BOOLEAN
  BY GoodUsersAre
<1>4. /\ CutUser(u) = {[ip |-> NoAddress, rest |-> FALSE], [ip |-> u.ip, rest |-> FALSE], u}
      /\ u = [ip |-> u.ip, rest |-> u.rest]
  BY CutUserIs
<1>5. ASSUME NEW j \in 0 .. l, NEW e, e.attributes = Part(a, j) PROVE UserSeen(e) = seen(j)
  BY <1>5, UserSeenPart
<1> HIDE DEF a, l
<1>6. l \in Nat /\ l \in 0 .. l /\ (u.rest => l = 5) /\ (~ u.rest => l <= 1) /\ (l = 0 <=> u.ip = NoAddress)
      /\ l <= 5
  BY <1>1, <1>3
<1>7. seen(l) = u
  <2>1. CASE l = 0
    BY <1>3, <1>6, <2>1
  <2>2. CASE l # 0
    <3> DEFINE b == l = 5
    <3>1. b \in BOOLEAN /\ (b <=> u.rest)
      BY <1>6
    <3>2. seen(l) = [ip |-> u.ip, rest |-> b]
      BY <2>2
    <3> HIDE DEF b, seen
    <3>3. b = u.rest
      BY <1>3, <3>1
    <3> QED
      BY <1>4, <3>2, <3>3
  <2> QED
    BY <2>1, <2>2
<1>8. ASSUME NEW j \in 0 .. l PROVE seen(j) \in CutUser(u)
  <2>1. CASE j = 0
    BY <1>4, <2>1
  <2>2. CASE j # 0 /\ j # 5
    <3>1. (j = 5) = FALSE
      BY <2>2
    <3>2. seen(j) = [ip |-> u.ip, rest |-> FALSE]
      BY <2>2, <3>1
    <3> QED
      BY <1>4, <3>2
  <2>3. CASE j = 5
    <3>1. j = l
      BY <1>6, <2>3
    <3>2. seen(j) = u
      BY <1>7, <3>1
    <3> QED
      BY <1>4, <3>2
  <2> QED
    BY <2>1, <2>2, <2>3
<1> HIDE DEF seen
<1>9. UserSeen(UserNode(u)) = u /\ UserNode(u).type = "element"
  <2>1. UserNode(u).attributes = Part(a, l) /\ UserNode(u).type = "element"
    BY <1>2, ElementFields DEF UserNode, a
  <2> QED
    BY <1>5, <1>6, <1>7, <2>1
<1>10. ASSUME NEW y \in UserParts(u) PROVE UserSeen(y) \in CutUser(u) /\ y.type = "element"
  <2> DEFINE name == "user"
             none == <<>>
  <2>1. y \in PartsOf(name, a, none, none) /\ Len(none) = 0 /\ 1 .. 0 = {}
    BY <1>10 DEF UserParts, a
  <2> HIDE DEF name
  <2>2. /\ OnePart(y, name, a, none, none, 0)
        /\ \/ \E j \in 0 .. Len(a) : y = Element(name, Part(a, j), <<>>)
           \/ \E K \in 0 .. 0, x \in {<<>>, <<Unknown>>} : y = Element(name, a, Part(none, K) \o x)
           \/ \E k \in 1 .. 0 : \E z \in none[k] : y = Element(name, a, Part(none, k - 1) \o <<z>>)
    <3> HIDE DEF none
    <3>1. OnePart(y, name, a, none, none, Len(none))
      BY <2>1, OutOfParts
    <3>2. OnePart(y, name, a, none, none, 0)
      BY <2>1, <3>1
    <3> QED
      BY <3>2 DEF OnePart
  <2>3. ASSUME NEW j \in 0 .. l, y.attributes = Part(a, j) PROVE UserSeen(y) \in CutUser(u)
    BY <1>5, <1>8, <2>3
  <2>4. CASE \E j \in 0 .. Len(a) : y = Element(name, Part(a, j), <<>>)
    <3>1. PICK j \in 0 .. Len(a) : y = Element(name, Part(a, j), <<>>)
      BY <2>4
    <3>2. y.attributes = Part(a, j) /\ y.type = "element"
      BY <3>1, ElementFields
    <3> QED
      BY <2>3, <3>2 DEF l
  <2>5. CASE \E K \in 0 .. 0, x \in {<<>>, <<Unknown>>} : y = Element(name, a, Part(none, K) \o x)
    <3>1. PICK K, x : y = Element(name, a, Part(none, K) \o x)
      BY <2>5
    <3>2. y.attributes = Part(a, l) /\ y.type = "element"
      BY <1>2, <3>1, ElementFields
    <3> QED
      BY <1>6, <2>3, <3>2
  <2> QED
    BY <2>1, <2>2, <2>4, <2>5
<1>11. ASSUME NEW z \in CutUser(u)
       PROVE  \E j \in 0 .. l : UserSeen(Element("user", Part(a, j), <<>>)) = z
  <2>1. \E j \in 0 .. l : seen(j) = z
    <3>1. 0 \in 0 .. l /\ seen(0) = [ip |-> NoAddress, rest |-> FALSE]
      BY <1>6 DEF seen
    <3>2. CASE z = [ip |-> NoAddress, rest |-> FALSE]
      BY <3>1, <3>2
    <3>3. CASE z = u
      BY <1>6, <1>7, <3>3
    <3>4. CASE z = [ip |-> u.ip, rest |-> FALSE] /\ u.ip = NoAddress
      BY <3>1, <3>4
    <3>5. CASE z = [ip |-> u.ip, rest |-> FALSE] /\ u.ip # NoAddress
      <4>1. 1 \in 0 .. l
        BY <1>6, <3>5
      <4>2. (1 = 5) = FALSE
        OBVIOUS
      <4>3. seen(1) = [ip |-> u.ip, rest |-> FALSE]
        BY <4>2 DEF seen
      <4> QED
        BY <3>5, <4>1, <4>3
    <3> QED
      BY <1>4, <1>11, <3>2, <3>3, <3>4, <3>5
  <2>2. PICK j \in 0 .. l : seen(j) = z
    BY <2>1
  <2> DEFINE e == Element("user", Part(a, j), <<>>)
  <2>3. e.attributes = Part(a, j)
    BY ElementFields
  <2> HIDE DEF e
  <2>4. UserSeen(e) = z
    BY <1>5, <2>2, <2>3
  <2> QED
    BY <2>4 DEF e
<1> QED
  BY <1>9, <1>10, <1>11 DEF a, l

\* The first K of a sequence.
LEMMA PartIs ==
    ASSUME NEW S, NEW s \in Seq(S), NEW K \in 0 .. Len(s)
    PROVE  /\ Part(s, K) \in Seq(S) /\ Len(Part(s, K)) = K /\ K \in Nat
           /\ \A i \in 1 .. K : Part(s, K)[i] = s[i]
<1>1. K \in Nat /\ Len(s) \in Nat /\ K <= Len(s)
  BY LenProperties
<1>2. \A k \in 1 .. K : s[k] \in S
  <2> TAKE k \in 1 .. K
  <2>1. k \in 1 .. Len(s)
    BY <1>1
  <2> QED
    BY <2>1, ElementOfSeq
<1>3. 1 \in Int /\ K \in Int
  BY <1>1
<1>4. /\ SubSeq(s, 1, K) \in Seq(S)
      /\ Len(SubSeq(s, 1, K)) = IF 1 <= K THEN K - 1 + 1 ELSE 0
      /\ \A i \in 1 .. K - 1 + 1 : SubSeq(s, 1, K)[i] = s[1 + i - 1]
  BY <1>2, <1>3, SubSeqProperties
<1>5. (IF 1 <= K THEN K - 1 + 1 ELSE 0) = K /\ K - 1 + 1 = K /\ \A i \in 1 .. K : 1 + i - 1 = i
  BY <1>1
<1> QED
  BY <1>1, <1>4, <1>5 DEF Part

\* The first K of a sequence and one more.
LEMMA PartThen ==
    ASSUME NEW S, NEW s \in Seq(S), NEW K \in 0 .. Len(s), NEW y \in S
    PROVE  /\ Part(s, K) \o <<y>> \in Seq(S) /\ Len(Part(s, K) \o <<y>>) = K + 1
           /\ \A i \in 1 .. K : (Part(s, K) \o <<y>>)[i] = s[i]
           /\ (Part(s, K) \o <<y>>)[K + 1] = y
           /\ Part(s, K) \o <<y>> = Append(Part(s, K), y)
<1> DEFINE p == Part(s, K)
<1>1. p \in Seq(S) /\ Len(p) = K /\ K \in Nat /\ \A i \in 1 .. K : p[i] = s[i]
  BY PartIs
<1> HIDE DEF p
<1>2. /\ Append(p, y) \in Seq(S) /\ Len(Append(p, y)) = Len(p) + 1
      /\ \A i \in 1 .. Len(p) : Append(p, y)[i] = p[i]
      /\ Append(p, y)[Len(p) + 1] = y
  BY <1>1, AppendProperties
<1>3. Append(p, y) = p \o <<y>>
  BY <1>1, AppendIsConcat
<1> QED
  BY <1>1, <1>2, <1>3 DEF p

\* What agrees with the first K items.
LEMMA Firsts ==
    ASSUME NEW S, NEW items \in Seq(S), NEW K \in 0 .. Len(items), NEW g \in [1 .. K -> S],
           \A k \in 1 .. K : g[k] = items[k]
    PROVE  g = SubSeq(items, 1, K)
<1>1. /\ Part(items, K) \in Seq(S) /\ Len(Part(items, K)) = K /\ K \in Nat
      /\ \A i \in 1 .. K : Part(items, K)[i] = items[i]
  BY PartIs
<1>2. g \in Seq(S) /\ Len(g) = K
  BY <1>1, Sequenced
<1>3. g = Part(items, K)
  <2> DEFINE p == Part(items, K)
  <2>1. p \in Seq(S) /\ Len(g) = Len(p) /\ \A i \in 1 .. Len(g) : g[i] = p[i]
    BY <1>1, <1>2
  <2> HIDE DEF p
  <2>2. g = p
    BY <1>2, <2>1, SeqEqual
  <2> QED
    BY <2>2 DEF p
<1> QED
  BY <1>3 DEF Part

\* A sequence that has the first of another, and one more.
LEMMA FirstsThen ==
    ASSUME NEW S, NEW items \in Seq(S), NEW k \in 1 .. Len(items), NEW g \in [1 .. k -> S],
           \A i \in 1 .. k - 1 : g[i] = items[i]
    PROVE  g = Append(SubSeq(items, 1, k - 1), g[k])
<1> DEFINE K == k - 1
           L == Len(items)
           y == g[k]
           p == Part(items, K) \o <<y>>
<1>1. k \in Nat /\ L \in Nat /\ k \in 1 .. k /\ K \in 0 .. L /\ K + 1 = k /\ K \in Nat
  BY LenProperties
<1>2. y \in S
  BY <1>1
<1> HIDE DEF K, y
<1>3. /\ p \in Seq(S) /\ Len(p) = K + 1
      /\ \A i \in 1 .. K : p[i] = items[i]
      /\ p[K + 1] = y
      /\ p = Append(Part(items, K), y)
  BY <1>1, <1>2, PartThen
<1>4. g \in Seq(S) /\ Len(g) = k
  BY <1>1, Sequenced
<1> HIDE DEF p
<1>5. \A i \in 1 .. k : g[i] = p[i]
  <2> TAKE i \in 1 .. k
  <2>1. CASE i = k
    BY <1>1, <1>3, <2>1 DEF y
  <2>2. CASE i # k
    <3>1. i \in 1 .. K
      BY <1>1, <2>2
    <3> QED
      BY <1>3, <3>1 DEF K
  <2> QED
    BY <2>1, <2>2
<1>6. g = p
  BY <1>1, <1>3, <1>4, <1>5, SeqEqual
<1> QED
  BY <1>3, <1>6 DEF Part, K, y

\* The children of an element, what they are read as, and what parts of them.
KidsRead(children, nodes, parts) ==
    /\ children \in Seq(Seq(Pieces)) /\ Len(nodes) = Len(children)
    /\ \E S : nodes \in Seq(S)
    /\ \A k \in 1 .. Len(children) :
           /\ Opens(children[k]) /\ nodes[k].type = "element"
           /\ ReadsWhole(children[k], nodes[k]) /\ ReadsCut(children[k], parts[k])
           /\ \A y \in parts[k] : y.type = "element"

NodesOf(nodes, parts) ==
    {Unknown} \cup {nodes[k] : k \in 1 .. Len(nodes)} \cup UNION {parts[k] : k \in 1 .. Len(nodes)}

\* Children that are read back, as BegunReads needs them.
LEMMA KidsAreKids ==
    ASSUME NEW children, NEW nodes, NEW parts, KidsRead(children, nodes, parts)
    PROVE  /\ nodes \in Seq(NodesOf(nodes, parts)) /\ Len(nodes) \in Nat /\ Len(nodes) = Len(children)
           /\ Unknown \in NodesOf(nodes, parts)
           /\ \A k \in 1 .. Len(nodes) : \A y \in parts[k] : y \in NodesOf(nodes, parts)
           /\ Kids(children, nodes, NodesOf(nodes, parts))
           /\ KidsCut(children, parts, NodesOf(nodes, parts))
<1> DEFINE N == NodesOf(nodes, parts)
           n == Len(nodes)
<1>1. PICK S : nodes \in Seq(S)
  BY DEF KidsRead
<1>2. n \in Nat /\ nodes \in [1 .. n -> S] /\ n = Len(children)
  BY <1>1, LenProperties DEF KidsRead
<1>3. /\ Unknown \in N
      /\ \A k \in 1 .. n : nodes[k] \in N
      /\ \A k \in 1 .. n : \A y \in parts[k] : y \in N
  BY DEF NodesOf
<1> HIDE DEF N
<1>4. nodes \in Seq(N)
  <2>1. nodes \in [1 .. n -> N]
    <3> HIDE DEF n
    <3> QED
      BY <1>2, <1>3
  <2> QED
    BY <1>2, <2>1, Sequenced
<1>5. Kids(children, nodes, N)
  BY <1>4 DEF Kids, KidsRead
<1>6. KidsCut(children, parts, N)
  BY <1>2, <1>3 DEF KidsCut, KidsRead
<1> QED
  BY <1>2, <1>3, <1>4, <1>5, <1>6 DEF N

\* The elements among the children.
LEMMA KidsMet ==
    ASSUME NEW children, NEW nodes, NEW parts, KidsRead(children, nodes, parts)
    PROVE  /\ \A K \in 0 .. Len(nodes), c \in {<<>>, <<Unknown>>} :
                  Elements(Part(nodes, K) \o c) = Part(nodes, K)
           /\ \A k \in 1 .. Len(nodes) : \A y \in parts[k] :
                  Elements(Part(nodes, k - 1) \o <<y>>) = Part(nodes, k - 1) \o <<y>>
<1> DEFINE N == NodesOf(nodes, parts)
           n == Len(nodes)
<1>1. /\ nodes \in Seq(N) /\ n \in Nat /\ Unknown \in N
      /\ \A k \in 1 .. n : \A y \in parts[k] : y \in N /\ y.type = "element"
      /\ \A k \in 1 .. n : nodes[k].type = "element"
  BY KidsAreKids DEF KidsRead
<1>2. Unknown.type # "element"
  BY DEF Unknown
<1> HIDE DEF N
<1>3. ASSUME NEW s \in Seq(N), \A k \in 1 .. Len(s) : s[k].type = "element"
      PROVE  Elements(s) = s
  <2> DEFINE b == Len(s)
             a == 0
  <2>1. b \in Nat /\ a \in Nat /\ a <= b /\ b <= Len(s) /\ \A k \in 1 .. Len(s) : k \in a + 1 .. b
    BY <1>3, LenProperties
  <2>2. \A k \in 1 .. Len(s) : s[k].type = "element" <=> k \in a + 1 .. b
    BY <1>3, <2>1
  <2>3. a + 1 = 1
    OBVIOUS
  <2>4. SubSeq(s, 1, Len(s)) = s
    BY SubSeqFull
  <2> HIDE DEF a, b
  <2>5. Elements(s) = SubSeq(s, a + 1, b)
    BY <2>1, <2>2, ElementsSlice
  <2> QED
    BY <2>3, <2>4, <2>5 DEF b
<1>4. ASSUME NEW K \in 0 .. n PROVE Elements(Part(nodes, K) \o <<>>) = Part(nodes, K)
  <2> DEFINE s == Part(nodes, K)
  <2>1. s \in Seq(N) /\ Len(s) = K /\ K \in Nat /\ \A i \in 1 .. K : s[i] = nodes[i]
    BY <1>1, PartIs
  <2>2. \A k \in 1 .. Len(s) : s[k].type = "element"
    <3> TAKE k \in 1 .. Len(s)
    <3>1. k \in 1 .. K /\ k \in 1 .. n
      BY <1>1, <2>1
    <3> QED
      BY <1>1, <2>1, <3>1
  <2> HIDE DEF s
  <2>3. Elements(s) = s
    BY <1>3, <2>1, <2>2
  <2>4. s \o <<>> = s
    BY <2>1, ConcatEmptySeq
  <2> QED
    BY <2>3, <2>4 DEF s
<1>5. ASSUME NEW K \in 0 .. n PROVE Elements(Part(nodes, K) \o <<Unknown>>) = Part(nodes, K)
  <2> DEFINE s == Part(nodes, K) \o <<Unknown>>
             a == 0
  <2>1. s \in Seq(N) /\ Len(s) = K + 1 /\ (\A i \in 1 .. K : s[i] = nodes[i]) /\ s[K + 1] = Unknown
    BY <1>1, PartThen
  <2> HIDE DEF s
  <2>2. K \in Nat /\ a \in Nat /\ a <= K /\ K <= Len(s) /\ a + 1 = 1
    BY <1>1, <2>1
  <2>3. \A k \in 1 .. Len(s) : s[k].type = "element" <=> k \in a + 1 .. K
    <3> TAKE k \in 1 .. Len(s)
    <3>1. CASE k \in 1 .. K
      <4>1. k \in 1 .. n
        BY <1>1, <3>1
      <4> QED
        BY <1>1, <2>1, <2>2, <3>1, <4>1
    <3>2. CASE k = K + 1
      <4>1. k \notin 1 .. K
        BY <2>2, <3>2
      <4> QED
        BY <1>2, <2>1, <2>2, <3>2, <4>1
    <3> QED
      BY <2>1, <2>2, <3>1, <3>2
  <2> HIDE DEF a
  <2>4. Elements(s) = SubSeq(s, a + 1, K)
    BY <2>1, <2>2, <2>3, ElementsSlice
  <2>5. SubSeq(s, 1, K) = Part(nodes, K)
    <3>1. K \in 0 .. Len(s) /\ K \in 0 .. Len(nodes)
      BY <1>1, <2>2
    <3> DEFINE p == Part(nodes, K)
               q == Part(s, K)
    <3>2. p \in Seq(N) /\ Len(p) = K /\ \A i \in 1 .. K : p[i] = nodes[i]
      BY <1>1, <3>1, PartIs
    <3>3. q \in Seq(N) /\ Len(q) = K /\ \A i \in 1 .. K : q[i] = s[i]
      BY <2>1, <3>1, PartIs
    <3>4. q = SubSeq(s, 1, K)
      BY DEF Part
    <3> HIDE DEF p, q
    <3>5. \A i \in 1 .. Len(p) : p[i] = q[i]
      BY <2>1, <3>2, <3>3
    <3>6. p = q
      BY <3>2, <3>3, <3>5, SeqEqual
    <3> QED
      BY <3>4, <3>6 DEF p
  <2> QED
    BY <2>2, <2>4, <2>5 DEF s
<1>6. ASSUME NEW k \in 1 .. n, NEW y \in parts[k]
      PROVE  Elements(Part(nodes, k - 1) \o <<y>>) = Part(nodes, k - 1) \o <<y>>
  <2> DEFINE K == k - 1
             s == Part(nodes, K) \o <<y>>
  <2>1. K \in 0 .. n /\ K \in Nat
    BY <1>1
  <2>2. y \in N /\ y.type = "element"
    BY <1>1
  <2> HIDE DEF K
  <2>3. s \in Seq(N) /\ Len(s) = K + 1 /\ (\A i \in 1 .. K : s[i] = nodes[i]) /\ s[K + 1] = y
    BY <1>1, <2>1, <2>2, PartThen
  <2> HIDE DEF s
  <2>4. \A i \in 1 .. Len(s) : s[i].type = "element"
    <3> TAKE i \in 1 .. Len(s)
    <3>1. CASE i \in 1 .. K
      <4>1. i \in 1 .. n
        BY <1>1, <2>1, <3>1
      <4> QED
        BY <1>1, <2>3, <3>1, <4>1
    <3>2. CASE i = K + 1
      BY <2>2, <2>3, <3>2
    <3> QED
      BY <2>1, <2>3, <3>1, <3>2
  <2> QED
    BY <1>3, <2>3, <2>4 DEF s, K
<1> QED
  BY <1>4, <1>5, <1>6

GoodConfigs == [date : Dates \cup {NoDate}, users : Seq(GoodUsers)]

ConfigKids(c) == [k \in DOMAIN c.users |-> UserPrint(c.users[k])]
ConfigNodes(c) == [k \in DOMAIN c.users |-> UserNode(c.users[k])]
ConfigUserParts(c) == [k \in DOMAIN c.users |-> UserParts(c.users[k])]
ConfigNode(c) == Element("Config", ConfigAttributes(c), ConfigNodes(c))
ConfigParts(c) == PartsOf("Config", ConfigAttributes(c), ConfigNodes(c), ConfigUserParts(c))

\* The parts of a configuration.
LEMMA GoodConfigsAre ==
    ASSUME NEW c \in GoodConfigs
    PROVE  /\ c.users \in Seq(GoodUsers) /\ Len(c.users) \in Nat /\ DOMAIN c.users = 1 .. Len(c.users)
           /\ \A k \in 1 .. Len(c.users) : c.users[k] \in GoodUsers
           /\ c.date \in Dates \cup {NoDate}
           /\ c = [date |-> c.date, users |-> c.users]
           /\ \A us : [c EXCEPT !.users = us] = [date |-> c.date, users |-> us]
<1>1. c.users \in Seq(GoodUsers) /\ c.date \in Dates \cup {NoDate} /\ c = [date |-> c.date, users |-> c.users]
  BY DEF GoodConfigs
<1>2. \A us : [c EXCEPT !.users = us] = [date |-> c.date, users |-> us]
  BY DEF GoodConfigs
<1>3. Len(c.users) \in Nat /\ DOMAIN c.users = 1 .. Len(c.users)
  BY <1>1, LenProperties
<1>4. \A k \in 1 .. Len(c.users) : c.users[k] \in GoodUsers
  BY <1>1, ElementOfSeq
<1> QED
  BY <1>1, <1>2, <1>3, <1>4

\* A configuration has its date, if it has one.
LEMMA ConfigAttributesAre ==
    ASSUME NEW c \in GoodConfigs
    PROVE  LET a == ConfigAttributes(c)
           IN  /\ a \in AttributeLists /\ Different(a)
               /\ Len(a) = (IF c.date = NoDate THEN 0 ELSE 1)
               /\ c.date # NoDate => a[1].name = "date" /\ a[1].value = c.date
<1> DEFINE a == ConfigAttributes(c)
           x == Attribute("date", c.date)
<1>1. c.date \in AttributeValues
  BY GoodConfigsAre DEF AttributeValues
<1>2. x \in AttributePairs /\ x.name = "date" /\ x.value = c.date
  <2> DEFINE name == "date"
  <2>1. name \in Words
    BY DEF Words
  <2> HIDE DEF name
  <2>2. /\ Attribute(name, c.date) \in AttributePairs
        /\ Attribute(name, c.date).name = name /\ Attribute(name, c.date).value = c.date
    BY <1>1, <2>1, Attributed
  <2> QED
    BY <2>2 DEF name
<1>3. a = IF c.date = NoDate THEN <<>> ELSE <<x>>
  BY DEF ConfigAttributes
<1> HIDE DEF a, x
<1>4. CASE c.date = NoDate
  <2>1. a \in Seq(AttributePairs) /\ Len(a) = 0
    BY <1>3, <1>4, EmptySeq
  <2> QED
    BY <1>4, <2>1 DEF AttributeLists, AttributePairs, Different, a
<1>5. CASE c.date # NoDate
  <2>1. <<x>> \in Seq(AttributePairs) /\ Len(<<x>>) = 1 /\ <<x>>[1] = x
    BY <1>2, Three
  <2>2. a \in Seq(AttributePairs) /\ Len(a) = 1 /\ a[1] = x
    BY <1>3, <1>5, <2>1
  <2>3. Different(a)
    BY <2>2 DEF Different
  <2>4. a \in AttributeLists
    BY <2>2 DEF AttributeLists, AttributePairs
  <2> QED
    BY <1>2, <1>5, <2>2, <2>3, <2>4 DEF a
<1> QED
  BY <1>4, <1>5

\* The date the window takes, when it was read and when it was cut away.
LEMMA ConfigDate ==
    ASSUME NEW c \in GoodConfigs, NEW j \in 0 .. Len(ConfigAttributes(c)), NEW e,
           e.attributes = Part(ConfigAttributes(c), j)
    PROVE  Value(e, "date", NoDate) = IF j = 0 THEN NoDate ELSE c.date
<1> DEFINE full == ConfigAttributes(c)
           a == Part(full, j)
           K == {k \in DOMAIN e.attributes : e.attributes[k].name = "date"}
<1>1. /\ full \in Seq(AttributePairs) /\ Len(full) = (IF c.date = NoDate THEN 0 ELSE 1)
      /\ c.date # NoDate => full[1].name = "date" /\ full[1].value = c.date
  BY ConfigAttributesAre DEF AttributeLists, AttributePairs
<1>2. a \in Seq(AttributePairs) /\ Len(a) = j /\ j \in Nat /\ \A i \in 1 .. j : a[i] = full[i]
  BY <1>1, PartIs
<1>3. e.attributes = a
  OBVIOUS
<1>4. (j = 0 \/ j = 1) /\ (j = 1 => c.date # NoDate)
  BY <1>1
<1> HIDE DEF a, full
<1>5. DOMAIN a = 1 .. j
  BY <1>2, LenProperties
<1>6. Value(e, "date", NoDate) = IF K = {} THEN NoDate ELSE e.attributes[First(K)].value
  BY DEF Value
<1>7. CASE j = 0
  <2>1. K = {}
    BY <1>3, <1>5, <1>7
  <2> QED
    BY <1>6, <1>7, <2>1
<1>8. CASE j = 1
  <2>1. a[1].name = "date" /\ a[1].value = c.date
    BY <1>1, <1>2, <1>4, <1>8
  <2>2. K = {1}
    BY <1>3, <1>5, <1>8, <2>1
  <2> HIDE DEF K
  <2>3. First(K) = 1
    BY <2>2 DEF First
  <2> QED
    BY <1>3, <1>6, <1>8, <2>1, <2>2, <2>3
<1> QED
  BY <1>4, <1>7, <1>8

\* The users of a configuration are read back.
LEMMA ConfigKidsRead ==
    ASSUME NEW c \in GoodConfigs
    PROVE  /\ KidsRead(ConfigKids(c), ConfigNodes(c), ConfigUserParts(c))
           /\ Len(ConfigKids(c)) = Len(c.users) /\ Len(ConfigNodes(c)) = Len(c.users)
<1> DEFINE n == Len(c.users)
           S == {ConfigNodes(c)[k] : k \in 1 .. n}
<1>1. n \in Nat /\ DOMAIN c.users = 1 .. n /\ \A k \in 1 .. n : c.users[k] \in GoodUsers
  BY GoodConfigsAre
<1>2. \A k \in 1 .. n : /\ ConfigKids(c)[k] = UserPrint(c.users[k])
                        /\ ConfigNodes(c)[k] = UserNode(c.users[k])
                        /\ ConfigUserParts(c)[k] = UserParts(c.users[k])
  BY <1>1 DEF ConfigKids, ConfigNodes, ConfigUserParts
<1>3. \A k \in 1 .. n :
          /\ ConfigKids(c)[k] \in Seq(Pieces)
          /\ Opens(ConfigKids(c)[k]) /\ ConfigNodes(c)[k].type = "element"
          /\ ReadsWhole(ConfigKids(c)[k], ConfigNodes(c)[k]) /\ ReadsCut(ConfigKids(c)[k], ConfigUserParts(c)[k])
          /\ \A y \in ConfigUserParts(c)[k] : y.type = "element"
  <2> TAKE k \in 1 .. n
  <2> DEFINE u == c.users[k]
  <2>1. u \in GoodUsers
    BY <1>1
  <2>2. /\ ConfigKids(c)[k] = UserPrint(u) /\ ConfigNodes(c)[k] = UserNode(u)
        /\ ConfigUserParts(c)[k] = UserParts(u)
    BY <1>2
  <2> HIDE DEF u
  <2>3. /\ UserPrint(u) \in Seq(Pieces) /\ Opens(UserPrint(u))
        /\ ReadsWhole(UserPrint(u), UserNode(u))
        /\ ReadsCut(UserPrint(u), UserParts(u))
    BY <2>1, UserReads
  <2>4. UserNode(u).type = "element" /\ \A y \in UserParts(u) : y.type = "element"
    BY <2>1, UserIsSeen
  <2> QED
    BY <2>2, <2>3, <2>4
<1>4. ConfigKids(c) \in [1 .. n -> Seq(Pieces)]
  <2>1. ConfigKids(c) = [k \in 1 .. n |-> ConfigKids(c)[k]]
    BY <1>1, <1>2 DEF ConfigKids
  <2> QED
    BY <1>3, <2>1
<1>5. ConfigNodes(c) \in [1 .. n -> S]
  <2>1. ConfigNodes(c) = [k \in 1 .. n |-> ConfigNodes(c)[k]]
    BY <1>1, <1>2 DEF ConfigNodes
  <2>2. \A k \in 1 .. n : ConfigNodes(c)[k] \in S
    OBVIOUS
  <2> HIDE DEF S
  <2> QED
    BY <2>1, <2>2
<1> HIDE DEF S
<1>6. ConfigKids(c) \in Seq(Seq(Pieces)) /\ Len(ConfigKids(c)) = n
  BY <1>1, <1>4, Sequenced
<1>7. ConfigNodes(c) \in Seq(S) /\ Len(ConfigNodes(c)) = n
  BY <1>1, <1>5, Sequenced
<1>8. \E R : ConfigNodes(c) \in Seq(R)
  BY <1>7
<1> QED
  BY <1>3, <1>6, <1>7, <1>8 DEF KidsRead

\* The print of a configuration, laid out.
LEMMA ConfigIsPrinted ==
    ASSUME NEW c \in GoodConfigs
    PROVE  \E place : PrintOf(ConfigPrint(c), "Config", ConfigAttributes(c), ConfigKids(c), place)
<1> DEFINE name == "Config"
           attributes == ConfigAttributes(c)
           children == ConfigKids(c)
<1>1. name \in Words /\ name # ""
  BY DEF Words
<1>2. attributes \in AttributeLists /\ Different(attributes)
  BY ConfigAttributesAre
<1>3. children \in Seq(Seq(Pieces))
  BY ConfigKidsRead DEF KidsRead
<1>4. ConfigPrint(c) = ElementPrint(name, attributes, children)
  BY DEF ConfigPrint, ConfigKids
<1> HIDE DEF name, attributes, children
<1>5. \E place : IsLayout(ElementPrint(name, attributes, children), name, attributes, children, place)
  BY <1>1, <1>2, <1>3, Layout
<1>6. \E place : PrintOf(ConfigPrint(c), name, attributes, children, place)
  BY <1>1, <1>2, <1>3, <1>4, <1>5 DEF PrintOf
<1> QED
  BY <1>6 DEF name, attributes, children

\* A configuration is read back, whole or cut.
LEMMA ConfigReads ==
    ASSUME NEW c \in GoodConfigs
    PROVE  /\ ConfigPrint(c) \in Seq(Pieces) /\ Opens(ConfigPrint(c))
           /\ ReadsWhole(ConfigPrint(c), ConfigNode(c))
           /\ ReadsCut(ConfigPrint(c), ConfigParts(c))
<1> DEFINE name == "Config"
           w == ConfigPrint(c)
           attributes == ConfigAttributes(c)
           children == ConfigKids(c)
           nodes == ConfigNodes(c)
           parts == ConfigUserParts(c)
           N == NodesOf(nodes, parts)
<1>1. PICK place : PrintOf(w, name, attributes, children, place)
  BY ConfigIsPrinted
<1>2. KidsRead(children, nodes, parts)
  BY ConfigKidsRead
<1>3. Kids(children, nodes, N) /\ KidsCut(children, parts, N)
  BY <1>2, KidsAreKids
<1> HIDE DEF name, w, attributes, children, nodes, parts, N
<1>4. /\ ReadsWhole(w, Element(name, attributes, nodes))
      /\ ReadsCut(w, PartsOf(name, attributes, nodes, parts))
  BY <1>1, <1>3, ElementReads
<1>5. w \in Seq(Pieces) /\ Opens(w)
  BY <1>1, PrintOpens
<1> QED
  BY <1>4, <1>5 DEF name, w, attributes, children, nodes, parts, ConfigNode, ConfigParts

UsersSeen(nodes) == [k \in DOMAIN Elements(nodes) |-> UserSeen(Elements(nodes)[k])]

\* What the window takes from the element of a configuration.
LEMMA ConfigSeenIs ==
    ASSUME NEW e
    PROVE  ConfigSeen(e) = [date |-> Value(e, "date", NoDate), users |-> UsersSeen(e.children)]
BY DEF ConfigSeen, UsersSeen

\* What the loop over the users of a configuration meets: no unknown node is one.
LEMMA UsersMet ==
    ASSUME NEW c \in GoodConfigs
    PROVE  /\ \A K \in 0 .. Len(c.users), x \in {<<>>, <<Unknown>>} :
                  UsersSeen(Part(ConfigNodes(c), K) \o x) = SubSeq(c.users, 1, K)
           /\ \A k \in 1 .. Len(c.users) : \A y \in UserParts(c.users[k]) :
                  UsersSeen(Part(ConfigNodes(c), k - 1) \o <<y>>) = Append(SubSeq(c.users, 1, k - 1), UserSeen(y))
<1> DEFINE users == c.users
           nodes == ConfigNodes(c)
           parts == ConfigUserParts(c)
           children == ConfigKids(c)
           n == Len(users)
           N == NodesOf(nodes, parts)
<1>1. /\ users \in Seq(GoodUsers) /\ n \in Nat /\ DOMAIN users = 1 .. n
      /\ \A k \in 1 .. n : users[k] \in GoodUsers
  BY GoodConfigsAre
<1>2. KidsRead(children, nodes, parts) /\ Len(nodes) = n
  BY ConfigKidsRead
<1>3. nodes \in Seq(N) /\ \A k \in 1 .. Len(nodes) : \A y \in parts[k] : y \in N
  BY <1>2, KidsAreKids
<1>4. \A k \in 1 .. n : nodes[k] = UserNode(users[k]) /\ parts[k] = UserParts(users[k])
  BY <1>1 DEF ConfigNodes, ConfigUserParts
<1>5. ASSUME NEW k \in 1 .. n PROVE UserSeen(nodes[k]) = users[k]
  <2> DEFINE u == users[k]
  <2>1. u \in GoodUsers /\ nodes[k] = UserNode(u)
    BY <1>1, <1>4
  <2> HIDE DEF u
  <2>2. UserSeen(UserNode(u)) = u
    BY <2>1, UserIsSeen
  <2> QED
    BY <2>1, <2>2 DEF u
<1>6. /\ \A K \in 0 .. Len(nodes), x \in {<<>>, <<Unknown>>} :
             Elements(Part(nodes, K) \o x) = Part(nodes, K)
      /\ \A k \in 1 .. Len(nodes) : \A y \in parts[k] :
             Elements(Part(nodes, k - 1) \o <<y>>) = Part(nodes, k - 1) \o <<y>>
  BY <1>2, KidsMet
<1> HIDE DEF users, nodes, parts, children, n, N
<1>7. ASSUME NEW K \in 0 .. n, NEW x \in {<<>>, <<Unknown>>}
      PROVE  UsersSeen(Part(nodes, K) \o x) = SubSeq(users, 1, K)
  <2> DEFINE p == Part(nodes, K)
             g == UsersSeen(p \o x)
  <2>1. p \in Seq(N) /\ Len(p) = K /\ K \in Nat /\ \A i \in 1 .. K : p[i] = nodes[i]
    BY <1>2, <1>3, PartIs
  <2>2. DOMAIN p = 1 .. K
    <3> HIDE DEF p
    <3> QED
      BY <2>1, LenProperties
  <2>3. Elements(p \o x) = p
    BY <1>2, <1>6
  <2>4. g = [k \in 1 .. K |-> UserSeen(p[k])]
    <3> HIDE DEF p
    <3> QED
      BY <2>2, <2>3 DEF UsersSeen
  <2> HIDE DEF p, g
  <2>5. \A k \in 1 .. K : g[k] = users[k] /\ k \in 1 .. n
    <3> TAKE k \in 1 .. K
    <3>1. k \in 1 .. n
      BY <1>1, <2>1 DEF n
    <3>2. g[k] = UserSeen(nodes[k])
      BY <2>1, <2>4
    <3> QED
      BY <1>5, <3>1, <3>2
  <2>6. g \in [1 .. K -> GoodUsers]
    <3>1. g = [k \in 1 .. K |-> g[k]]
      BY <2>4
    <3>2. \A k \in 1 .. K : g[k] \in GoodUsers
      BY <1>1, <2>5 DEF n
    <3> QED
      BY <3>1, <3>2
  <2>7. K \in 0 .. Len(users)
    BY DEF n
  <2>8. g = SubSeq(users, 1, K)
    BY <1>1, <2>5, <2>6, <2>7, Firsts
  <2> QED
    BY <2>8 DEF g, p
<1>8. ASSUME NEW k \in 1 .. n, NEW y \in parts[k]
      PROVE  UsersSeen(Part(nodes, k - 1) \o <<y>>) = Append(SubSeq(users, 1, k - 1), UserSeen(y))
  <2> DEFINE K == k - 1
             s == Part(nodes, K) \o <<y>>
             g == UsersSeen(s)
             u == users[k]
  <2>1. K \in 0 .. Len(nodes) /\ K \in Nat /\ K + 1 = k /\ k \in 1 .. Len(nodes) /\ n \in Nat
        /\ k \in 1 .. k
    <3>1. n \in Nat
      BY <1>1 DEF n
    <3> QED
      BY <1>2, <3>1
  <2>2. u \in GoodUsers /\ y \in UserParts(u)
    BY <1>1, <1>4 DEF n
  <2> HIDE DEF u
  <2>3. UserSeen(y) \in GoodUsers
    <3>1. UserSeen(y) \in CutUser(u)
      BY <2>2, UserIsSeen
    <3>2. CutUser(u) \subseteq GoodUsers
      BY <2>2, CutUserIs
    <3> QED
      BY <3>1, <3>2
  <2>4. Elements(s) = s
    BY <1>6, <2>1
  <2>5. y \in N
    BY <1>3, <2>1
  <2> HIDE DEF K
  <2>6. s \in Seq(N) /\ Len(s) = K + 1 /\ (\A i \in 1 .. K : s[i] = nodes[i]) /\ s[K + 1] = y
    BY <1>3, <2>1, <2>5, PartThen
  <2> HIDE DEF s
  <2>7. DOMAIN s = 1 .. k
    BY <2>1, <2>6, LenProperties
  <2>8. g = [i \in 1 .. k |-> UserSeen(s[i])]
    BY <2>4, <2>7 DEF UsersSeen
  <2> HIDE DEF g
  <2>9. g[k] = UserSeen(y)
    BY <2>1, <2>6, <2>8
  <2>10. \A i \in 1 .. K : g[i] = users[i] /\ i \in 1 .. n
    <3> TAKE i \in 1 .. K
    <3>1. i \in 1 .. n /\ i \in 1 .. k
      BY <2>1
    <3>2. g[i] = UserSeen(nodes[i])
      BY <2>6, <2>8, <3>1
    <3> QED
      BY <1>5, <3>1, <3>2
  <2>11. g \in [1 .. k -> GoodUsers]
    <3>1. g = [i \in 1 .. k |-> g[i]]
      BY <2>8
    <3>2. \A i \in 1 .. k : g[i] \in GoodUsers
      <4> TAKE i \in 1 .. k
      <4>1. CASE i = k
        BY <2>3, <2>9, <4>1
      <4>2. CASE i # k
        <5>1. i \in 1 .. K
          BY <2>1, <4>2
        <5> QED
          BY <1>1, <2>10, <5>1 DEF n
      <4> QED
        BY <4>1, <4>2
    <3> QED
      BY <3>1, <3>2
  <2>12. g = Append(SubSeq(users, 1, k - 1), g[k])
    <3>1. k \in 1 .. Len(users)
      BY DEF n
    <3>2. \A i \in 1 .. k - 1 : g[i] = users[i]
      BY <2>10 DEF K
    <3> QED
      BY <1>1, <2>11, <3>1, <3>2, FirstsThen
  <2> QED
    BY <2>9, <2>12 DEF g, s, K
<1> QED
  BY <1>4, <1>7, <1>8 DEF users, nodes, n

\* The users that are left: some of them, the last one perhaps without its attributes.
LEMMA CutUsersAre ==
    ASSUME NEW us \in Seq(GoodUsers)
    PROVE  /\ \A K \in 0 .. Len(us) : SubSeq(us, 1, K) \in CutUsers(us)
           /\ \A k \in 1 .. Len(us) : \A u \in CutUser(us[k]) : Append(SubSeq(us, 1, k - 1), u) \in CutUsers(us)
           /\ \A z \in CutUsers(us) :
                  \/ \E K \in 0 .. Len(us) : z = SubSeq(us, 1, K)
                  \/ \E k \in 1 .. Len(us) : \E u \in CutUser(us[k]) : z = Append(SubSeq(us, 1, k - 1), u)
           /\ CutUsers(us) \subseteq Seq(GoodUsers)
<1> DEFINE n == Len(us)
           H == 1 .. n
           f(k) == SubSeq(us, 1, k - 1)
           F(k) == {f(k)} \cup {Append(f(k), u) : u \in CutUser(us[k])}
<1>1. n \in Nat /\ DOMAIN us = 1 .. n
  BY LenProperties
<1>2. CutUsers(us) = {us} \cup UNION {F(k) : k \in H}
  BY <1>1 DEF CutUsers
<1>3. SubSeq(us, 1, n) = us
  BY SubSeqFull
<1>4. \A K \in 0 .. n : SubSeq(us, 1, K) \in CutUsers(us)
  <2> TAKE K \in 0 .. n
  <2>1. CASE K = n
    BY <1>2, <1>3, <2>1
  <2>2. CASE K # n
    <3> DEFINE k == K + 1
    <3>1. k \in H /\ k - 1 = K
      <4> HIDE DEF n, f, F
      <4> QED
        BY <1>1, <2>2
    <3> HIDE DEF k, H
    <3>2. f(k) \in F(k) /\ f(k) = SubSeq(us, 1, K)
      BY <3>1
    <3> HIDE DEF F, f
    <3> QED
      BY <1>2, <3>1, <3>2
  <2> QED
    BY <2>1, <2>2
<1>5. \A k \in H : \A u \in CutUser(us[k]) : Append(f(k), u) \in CutUsers(us)
  <2> TAKE k \in H
  <2> TAKE u \in CutUser(us[k])
  <2>1. Append(f(k), u) \in F(k)
    OBVIOUS
  <2> HIDE DEF F, f, H
  <2> QED
    BY <1>2, <2>1
<1>6. ASSUME NEW z \in CutUsers(us)
      PROVE  \/ \E K \in 0 .. n : z = SubSeq(us, 1, K)
             \/ \E k \in H : \E u \in CutUser(us[k]) : z = Append(f(k), u)
  <2>1. CASE z = us
    <3>1. n \in 0 .. n
      BY <1>1
    <3> QED
      BY <1>3, <2>1, <3>1
  <2>2. CASE \E k \in H : z \in F(k)
    <3>1. PICK k \in H : z \in F(k)
      BY <2>2
    <3>2. z = f(k) \/ \E u \in CutUser(us[k]) : z = Append(f(k), u)
      BY <3>1
    <3>3. k - 1 \in 0 .. n
      BY <1>1
    <3>4. z = f(k) => z = SubSeq(us, 1, k - 1)
      OBVIOUS
    <3> HIDE DEF f, H
    <3> QED
      BY <3>1, <3>2, <3>3, <3>4
  <2> HIDE DEF F, f
  <2> QED
    BY <1>2, <2>1, <2>2
<1>7. CutUsers(us) \subseteq Seq(GoodUsers)
  <2> SUFFICES ASSUME NEW z \in CutUsers(us) PROVE z \in Seq(GoodUsers)
    OBVIOUS
  <2>1. ASSUME NEW K \in 0 .. n PROVE SubSeq(us, 1, K) \in Seq(GoodUsers)
    BY PartIs DEF Part
  <2>2. ASSUME NEW k \in H, NEW u \in CutUser(us[k]) PROVE Append(f(k), u) \in Seq(GoodUsers)
    <3>1. us[k] \in GoodUsers
      BY ElementOfSeq
    <3> DEFINE x == us[k]
    <3>2. x \in GoodUsers /\ u \in CutUser(x)
      BY <3>1
    <3> HIDE DEF x
    <3>3. u \in GoodUsers
      BY <3>2, CutUserIs
    <3>4. k - 1 \in 0 .. n
      BY <1>1
    <3>5. f(k) \in Seq(GoodUsers)
      BY <2>1, <3>4
    <3> HIDE DEF f
    <3> QED
      BY <3>3, <3>5, AppendProperties
  <2> HIDE DEF f, H, n
  <2> QED
    BY <1>6, <2>1, <2>2
<1> QED
  BY <1>4, <1>5, <1>6, <1>7

\* What can be left of a configuration.
LEMMA CutConfigIs ==
    ASSUME NEW c \in GoodConfigs
    PROVE  /\ CutConfig(c) = {[date |-> NoDate, users |-> <<>>]} \cup {[date |-> c.date, users |-> us] : us \in CutUsers(c.users)}
           /\ CutConfig(c) \subseteq GoodConfigs
           /\ c \in CutConfig(c)
<1>1. /\ c.users \in Seq(GoodUsers) /\ c.date \in Dates \cup {NoDate}
      /\ c = [date |-> c.date, users |-> c.users]
      /\ \A us : [c EXCEPT !.users = us] = [date |-> c.date, users |-> us]
  BY GoodConfigsAre
<1>2. CutConfig(c) = {[date |-> NoDate, users |-> <<>>]} \cup {[date |-> c.date, users |-> us] : us \in CutUsers(c.users)}
  BY <1>1 DEF CutConfig
<1>3. CutUsers(c.users) \subseteq Seq(GoodUsers)
  <2> DEFINE us == c.users
  <2>1. us \in Seq(GoodUsers)
    BY <1>1
  <2> HIDE DEF us
  <2>2. CutUsers(us) \subseteq Seq(GoodUsers)
    BY <2>1, CutUsersAre
  <2> QED
    BY <2>2 DEF us
<1>4. [date |-> NoDate, users |-> <<>>] \in GoodConfigs
  <2>1. <<>> \in Seq(GoodUsers)
    BY EmptySeq
  <2> QED
    BY <2>1 DEF GoodConfigs
<1>5. \A us \in CutUsers(c.users) : [date |-> c.date, users |-> us] \in GoodConfigs
  BY <1>1, <1>3 DEF GoodConfigs
<1>6. c.users \in CutUsers(c.users)
  BY DEF CutUsers
<1>7. c \in CutConfig(c)
  BY <1>1, <1>2, <1>6
<1> QED
  BY <1>2, <1>4, <1>5, <1>7

\* Of a configuration that is cut the program sees one of CutConfig.
LEMMA ConfigIsSeen ==
    ASSUME NEW c \in GoodConfigs
    PROVE  /\ ConfigSeen(ConfigNode(c)) = c /\ ConfigNode(c).type = "element"
           /\ \A y \in ConfigParts(c) : ConfigSeen(y) \in CutConfig(c) /\ y.type = "element"
<1> DEFINE name == "Config"
           a == ConfigAttributes(c)
           nodes == ConfigNodes(c)
           parts == ConfigUserParts(c)
           users == c.users
           n == Len(users)
           children == ConfigKids(c)
           N == NodesOf(nodes, parts)
           l == Len(a)
           seen(us) == [date |-> c.date, users |-> us]
<1>1. /\ users \in Seq(GoodUsers) /\ n \in Nat /\ DOMAIN users = 1 .. n
      /\ \A k \in 1 .. n : users[k] \in GoodUsers
      /\ c = seen(users)
  BY GoodConfigsAre
<1>2. a \in AttributeLists /\ l = (IF c.date = NoDate THEN 0 ELSE 1)
  BY ConfigAttributesAre
<1>3. Part(a, l) = a
  BY <1>2, SubSeqFull DEF Part, AttributeLists
<1>4. Len(nodes) = n /\ KidsRead(children, nodes, parts)
  BY ConfigKidsRead
<1>5. nodes \in Seq(N)
  BY <1>4, KidsAreKids
<1>6. ASSUME NEW e, e.attributes = a PROVE Value(e, "date", NoDate) = c.date
  <2>1. l \in 0 .. l
    BY <1>2
  <2>2. Value(e, "date", NoDate) = IF l = 0 THEN NoDate ELSE c.date
    BY <1>3, <1>6, <2>1, ConfigDate
  <2>3. l = 0 => c.date = NoDate
    BY <1>2
  <2> QED
    BY <2>2, <2>3
<1>7. ASSUME NEW x PROVE ConfigSeen(Element(name, a, x)) = seen(UsersSeen(x))
  <2> DEFINE e == Element(name, a, x)
  <2>1. e.attributes = a /\ e.children = x
    BY ElementFields
  <2> HIDE DEF e, a
  <2>2. Value(e, "date", NoDate) = c.date
    BY <1>6, <2>1
  <2> QED
    BY <2>1, <2>2, ConfigSeenIs DEF e
<1>8. /\ \A K \in 0 .. n, x \in {<<>>, <<Unknown>>} : UsersSeen(Part(nodes, K) \o x) = SubSeq(users, 1, K)
      /\ \A k \in 1 .. n : \A y \in UserParts(users[k]) :
             UsersSeen(Part(nodes, k - 1) \o <<y>>) = Append(SubSeq(users, 1, k - 1), UserSeen(y))
  BY UsersMet
<1>9. /\ \A K \in 0 .. n : SubSeq(users, 1, K) \in CutUsers(users)
      /\ \A k \in 1 .. n : \A u \in CutUser(users[k]) : Append(SubSeq(users, 1, k - 1), u) \in CutUsers(users)
  <2> HIDE DEF users
  <2> QED
    BY <1>1, CutUsersAre
<1>10. CutConfig(c) = {[date |-> NoDate, users |-> <<>>]} \cup {seen(us) : us \in CutUsers(users)}
  BY CutConfigIs
<1>11. ConfigSeen(ConfigNode(c)) = c /\ ConfigNode(c).type = "element"
  <2>1. Part(nodes, n) \o <<>> = nodes
    <3>1. Part(nodes, n) = nodes
      BY <1>4, <1>5, SubSeqFull DEF Part
    <3>2. nodes \o <<>> = nodes
      <4> HIDE DEF nodes, N
      <4> QED
        BY <1>5, ConcatEmptySeq
    <3> QED
      BY <3>1, <3>2
  <2>2. n \in 0 .. n /\ SubSeq(users, 1, n) = users
    BY <1>1, SubSeqFull
  <2>3. UsersSeen(nodes) = users
    <3>1. UsersSeen(Part(nodes, n) \o <<>>) = SubSeq(users, 1, n)
      <4> HIDE DEF users, nodes, n
      <4> QED
        BY <1>8, <2>2
    <3> QED
      BY <2>1, <2>2, <3>1
  <2>4. ConfigNode(c) = Element(name, a, nodes)
    BY DEF ConfigNode
  <2>5. Element(name, a, nodes).type = "element"
    BY ElementFields
  <2> HIDE DEF a, nodes, name, users, seen
  <2> QED
    BY <1>1, <1>7, <2>3, <2>4, <2>5
<1>12. ASSUME NEW y \in ConfigParts(c) PROVE ConfigSeen(y) \in CutConfig(c) /\ y.type = "element"
  <2> HIDE DEF seen
  <2>1. ConfigParts(c) = PartsOf(name, a, nodes, parts)
    BY DEF ConfigParts
  <2> HIDE DEF name, nodes, parts
  <2>2. \/ \E j \in 0 .. Len(a) : y = Element(name, Part(a, j), <<>>)
        \/ \E K \in 0 .. n, x \in {<<>>, <<Unknown>>} : y = Element(name, a, Part(nodes, K) \o x)
        \/ \E k \in 1 .. n : \E z \in parts[k] : y = Element(name, a, Part(nodes, k - 1) \o <<z>>)
    <3> HIDE DEF a, n
    <3>1. y \in PartsOf(name, a, nodes, parts)
      BY <1>12, <2>1
    <3>2. OnePart(y, name, a, nodes, parts, Len(nodes))
      BY <3>1, OutOfParts
    <3>3. OnePart(y, name, a, nodes, parts, n)
      BY <1>4, <3>2
    <3> QED
      BY <3>3 DEF OnePart
  <2>3. ASSUME NEW j \in 0 .. Len(a), y = Element(name, Part(a, j), <<>>)
        PROVE  ConfigSeen(y) \in CutConfig(c) /\ y.type = "element"
    <3>1. y.attributes = Part(a, j) /\ y.type = "element" /\ y.children = <<>>
      BY <2>3, ElementFields
    <3>2. Value(y, "date", NoDate) = IF j = 0 THEN NoDate ELSE c.date
      BY <3>1, ConfigDate
    <3>3. UsersSeen(<<>>) = <<>>
      <4>1. 0 \in 0 .. n /\ <<>> \in {<<>>, <<Unknown>>}
        BY <1>1
      <4>2. UsersSeen(Part(nodes, 0) \o <<>>) = SubSeq(users, 1, 0)
        <5> HIDE DEF users, n
        <5> QED
          BY <1>8, <4>1
      <4>3. SubSeq(users, 1, 0) = <<>> /\ Part(nodes, 0) = <<>>
        <5>1. \A s : \A S : s \in Seq(S) => SubSeq(s, 1, 0) = <<>>
          BY SubSeqEmpty
        <5> QED
          BY <1>1, <1>5, <5>1 DEF Part, nodes
      <4>4. <<>> \o <<>> = <<>>
        BY ConcatEmptySeq, EmptySeq
      <4> QED
        BY <4>2, <4>3, <4>4
    <3>4. ConfigSeen(y) = [date |-> IF j = 0 THEN NoDate ELSE c.date, users |-> <<>>]
      BY <3>1, <3>2, <3>3, ConfigSeenIs
    <3>5. <<>> \in CutUsers(users)
      <4>1. SubSeq(users, 1, 0) = <<>> /\ 0 \in 0 .. n
        BY <1>1, SubSeqEmpty
      <4>2. SubSeq(users, 1, 0) \in CutUsers(users)
        <5> HIDE DEF users, n
        <5> QED
          BY <1>9, <4>1
      <4> QED
        BY <4>1, <4>2
    <3>6. seen(<<>>) \in CutConfig(c)
      BY <1>10, <3>5
    <3>7. CASE j = 0
      BY <1>10, <3>1, <3>4, <3>7
    <3>8. CASE j # 0
      BY <3>1, <3>4, <3>6, <3>8 DEF seen
    <3> QED
      BY <3>7, <3>8
  <2>4. ASSUME NEW K \in 0 .. n, NEW x \in {<<>>, <<Unknown>>}, y = Element(name, a, Part(nodes, K) \o x)
        PROVE  ConfigSeen(y) \in CutConfig(c) /\ y.type = "element"
    <3>1. ConfigSeen(y) = seen(SubSeq(users, 1, K))
      <4> HIDE DEF users, n, a
      <4> QED
        BY <1>7, <1>8, <2>4 DEF nodes, name
    <3>2. SubSeq(users, 1, K) \in CutUsers(users)
      <4> HIDE DEF users, n
      <4> QED
        BY <1>9
    <3>3. y.type = "element"
      BY <2>4, ElementFields
    <3> QED
      BY <1>10, <3>1, <3>2, <3>3
  <2>5. ASSUME NEW k \in 1 .. n, NEW z \in parts[k], y = Element(name, a, Part(nodes, k - 1) \o <<z>>)
        PROVE  ConfigSeen(y) \in CutConfig(c) /\ y.type = "element"
    <3>1. parts[k] = UserParts(users[k])
      BY <1>1 DEF parts, ConfigUserParts
    <3>2. users[k] \in GoodUsers
      BY <1>1
    <3>3. UserSeen(z) \in CutUser(users[k])
      <4> DEFINE u == users[k]
      <4>1. u \in GoodUsers /\ z \in UserParts(u)
        BY <3>1, <3>2
      <4> HIDE DEF u
      <4>2. UserSeen(z) \in CutUser(u)
        BY <4>1, UserIsSeen
      <4> QED
        BY <4>2 DEF u
    <3> DEFINE us == Append(SubSeq(users, 1, k - 1), UserSeen(z))
    <3>4. ConfigSeen(y) = seen(us)
      <4>1. UsersSeen(Part(nodes, k - 1) \o <<z>>) = us
        <5> HIDE DEF users, n
        <5> QED
          BY <1>8, <3>1
      <4>2. ConfigSeen(y) = seen(UsersSeen(Part(nodes, k - 1) \o <<z>>))
        BY <1>7, <2>5
      <4> QED
        BY <4>1, <4>2
    <3>5. us \in CutUsers(users)
      <4> HIDE DEF users, n
      <4> QED
        BY <1>9, <3>3 DEF users
    <3>6. y.type = "element"
      BY <2>5, ElementFields
    <3> QED
      BY <1>10, <3>4, <3>5, <3>6
  <2> QED
    BY <2>2, <2>3, <2>4, <2>5
<1> QED
  BY <1>11, <1>12

RootKids(cs) == [k \in DOMAIN cs |-> ConfigPrint(cs[k])]
RootNodes(cs) == [k \in DOMAIN cs |-> ConfigNode(cs[k])]
RootConfigParts(cs) == [k \in DOMAIN cs |-> ConfigParts(cs[k])]
RootNode(cs) == Element("ConfigReseau", <<>>, RootNodes(cs))
RootParts(cs) == PartsOf("ConfigReseau", <<>>, RootNodes(cs), RootConfigParts(cs))

\* A sequence of configurations.
LEMMA GoodConfigsSequence ==
    ASSUME NEW cs \in Seq(GoodConfigs)
    PROVE  /\ cs \in Seq(GoodConfigs) /\ Len(cs) \in Nat /\ DOMAIN cs = 1 .. Len(cs)
           /\ \A k \in 1 .. Len(cs) : cs[k] \in GoodConfigs
BY LenProperties, ElementOfSeq

\* The configurations of a document are read back.
LEMMA RootKidsRead ==
    ASSUME NEW cs \in Seq(GoodConfigs)
    PROVE  /\ KidsRead(RootKids(cs), RootNodes(cs), RootConfigParts(cs))
           /\ Len(RootKids(cs)) = Len(cs) /\ Len(RootNodes(cs)) = Len(cs)
<1> DEFINE n == Len(cs)
           S == {RootNodes(cs)[k] : k \in 1 .. n}
<1>1. n \in Nat /\ DOMAIN cs = 1 .. n /\ \A k \in 1 .. n : cs[k] \in GoodConfigs
  BY GoodConfigsSequence
<1>2. \A k \in 1 .. n : /\ RootKids(cs)[k] = ConfigPrint(cs[k])
                        /\ RootNodes(cs)[k] = ConfigNode(cs[k])
                        /\ RootConfigParts(cs)[k] = ConfigParts(cs[k])
  BY <1>1 DEF RootKids, RootNodes, RootConfigParts
<1>3. \A k \in 1 .. n :
          /\ RootKids(cs)[k] \in Seq(Pieces)
          /\ Opens(RootKids(cs)[k]) /\ RootNodes(cs)[k].type = "element"
          /\ ReadsWhole(RootKids(cs)[k], RootNodes(cs)[k]) /\ ReadsCut(RootKids(cs)[k], RootConfigParts(cs)[k])
          /\ \A y \in RootConfigParts(cs)[k] : y.type = "element"
  <2> TAKE k \in 1 .. n
  <2> DEFINE u == cs[k]
  <2>1. u \in GoodConfigs
    BY <1>1
  <2>2. /\ RootKids(cs)[k] = ConfigPrint(u) /\ RootNodes(cs)[k] = ConfigNode(u)
        /\ RootConfigParts(cs)[k] = ConfigParts(u)
    BY <1>2
  <2> HIDE DEF u
  <2>3. /\ ConfigPrint(u) \in Seq(Pieces) /\ Opens(ConfigPrint(u))
        /\ ReadsWhole(ConfigPrint(u), ConfigNode(u))
        /\ ReadsCut(ConfigPrint(u), ConfigParts(u))
    BY <2>1, ConfigReads
  <2>4. ConfigNode(u).type = "element" /\ \A y \in ConfigParts(u) : y.type = "element"
    BY <2>1, ConfigIsSeen
  <2> QED
    BY <2>2, <2>3, <2>4
<1>4. RootKids(cs) \in [1 .. n -> Seq(Pieces)]
  <2>1. RootKids(cs) = [k \in 1 .. n |-> RootKids(cs)[k]]
    BY <1>1, <1>2 DEF RootKids
  <2> QED
    BY <1>3, <2>1
<1>5. RootNodes(cs) \in [1 .. n -> S]
  <2>1. RootNodes(cs) = [k \in 1 .. n |-> RootNodes(cs)[k]]
    BY <1>1, <1>2 DEF RootNodes
  <2>2. \A k \in 1 .. n : RootNodes(cs)[k] \in S
    OBVIOUS
  <2> HIDE DEF S
  <2> QED
    BY <2>1, <2>2
<1> HIDE DEF S
<1>6. RootKids(cs) \in Seq(Seq(Pieces)) /\ Len(RootKids(cs)) = n
  BY <1>1, <1>4, Sequenced
<1>7. RootNodes(cs) \in Seq(S) /\ Len(RootNodes(cs)) = n
  BY <1>1, <1>5, Sequenced
<1>8. \E R : RootNodes(cs) \in Seq(R)
  BY <1>7
<1> QED
  BY <1>3, <1>6, <1>7, <1>8 DEF KidsRead

\* The print of the root, laid out.
LEMMA RootIsPrinted ==
    ASSUME NEW d, d.configs \in Seq(GoodConfigs)
    PROVE  \E place : PrintOf(RootPrint(d), "ConfigReseau", <<>>, RootKids(d.configs), place)
<1> DEFINE name == "ConfigReseau"
           attributes == <<>>
           children == RootKids(d.configs)
<1>1. name \in Words /\ name # ""
  BY DEF Words
<1>2. attributes \in AttributeLists /\ Different(attributes)
  BY EmptySeq DEF AttributeLists, Different
<1>3. children \in Seq(Seq(Pieces))
  BY RootKidsRead DEF KidsRead
<1>4. RootPrint(d) = ElementPrint(name, attributes, children)
  BY DEF RootPrint, RootKids
<1> HIDE DEF name, attributes, children
<1>5. \E place : IsLayout(ElementPrint(name, attributes, children), name, attributes, children, place)
  BY <1>1, <1>2, <1>3, Layout
<1>6. \E place : PrintOf(RootPrint(d), name, attributes, children, place)
  BY <1>1, <1>2, <1>3, <1>4, <1>5 DEF PrintOf
<1> QED
  BY <1>6 DEF name, attributes, children

\* The root is read back, whole or cut.
LEMMA RootReads ==
    ASSUME NEW d, d.configs \in Seq(GoodConfigs)
    PROVE  /\ RootPrint(d) \in Seq(Pieces) /\ Opens(RootPrint(d))
           /\ ReadsWhole(RootPrint(d), RootNode(d.configs))
           /\ ReadsCut(RootPrint(d), RootParts(d.configs))
<1> DEFINE name == "ConfigReseau"
           w == RootPrint(d)
           attributes == <<>>
           children == RootKids(d.configs)
           nodes == RootNodes(d.configs)
           parts == RootConfigParts(d.configs)
           N == NodesOf(nodes, parts)
<1>1. PICK place : PrintOf(w, name, attributes, children, place)
  BY RootIsPrinted
<1>2. KidsRead(children, nodes, parts)
  BY RootKidsRead
<1>3. Kids(children, nodes, N) /\ KidsCut(children, parts, N)
  BY <1>2, KidsAreKids
<1> HIDE DEF name, w, attributes, children, nodes, parts, N
<1>4. /\ ReadsWhole(w, Element(name, attributes, nodes))
      /\ ReadsCut(w, PartsOf(name, attributes, nodes, parts))
  BY <1>1, <1>3, ElementReads
<1>5. w \in Seq(Pieces) /\ Opens(w)
  BY <1>1, PrintOpens
<1> QED
  BY <1>4, <1>5 DEF name, w, attributes, children, nodes, parts, RootNode, RootParts

ConfigsSeen(nodes) == [k \in DOMAIN Elements(nodes) |-> ConfigSeen(Elements(nodes)[k])]

\* What the loop over the configurations meets: no unknown node is one.
LEMMA ConfigsMet ==
    ASSUME NEW cs \in Seq(GoodConfigs)
    PROVE  /\ \A K \in 0 .. Len(cs), x \in {<<>>, <<Unknown>>} :
                  ConfigsSeen(Part(RootNodes(cs), K) \o x) = SubSeq(cs, 1, K)
           /\ \A k \in 1 .. Len(cs) : \A y \in ConfigParts(cs[k]) :
                  ConfigsSeen(Part(RootNodes(cs), k - 1) \o <<y>>) = Append(SubSeq(cs, 1, k - 1), ConfigSeen(y))
<1> DEFINE configs == cs
           nodes == RootNodes(cs)
           parts == RootConfigParts(cs)
           children == RootKids(cs)
           n == Len(configs)
           N == NodesOf(nodes, parts)
<1>1. /\ configs \in Seq(GoodConfigs) /\ n \in Nat /\ DOMAIN configs = 1 .. n
      /\ \A k \in 1 .. n : configs[k] \in GoodConfigs
  BY GoodConfigsSequence
<1>2. KidsRead(children, nodes, parts) /\ Len(nodes) = n
  BY RootKidsRead
<1>3. nodes \in Seq(N) /\ \A k \in 1 .. Len(nodes) : \A y \in parts[k] : y \in N
  BY <1>2, KidsAreKids
<1>4. \A k \in 1 .. n : nodes[k] = ConfigNode(configs[k]) /\ parts[k] = ConfigParts(configs[k])
  BY <1>1 DEF RootNodes, RootConfigParts
<1>5. ASSUME NEW k \in 1 .. n PROVE ConfigSeen(nodes[k]) = configs[k]
  <2> DEFINE u == configs[k]
  <2>1. u \in GoodConfigs /\ nodes[k] = ConfigNode(u)
    BY <1>1, <1>4
  <2> HIDE DEF u
  <2>2. ConfigSeen(ConfigNode(u)) = u
    BY <2>1, ConfigIsSeen
  <2> QED
    BY <2>1, <2>2 DEF u
<1>6. /\ \A K \in 0 .. Len(nodes), x \in {<<>>, <<Unknown>>} :
             Elements(Part(nodes, K) \o x) = Part(nodes, K)
      /\ \A k \in 1 .. Len(nodes) : \A y \in parts[k] :
             Elements(Part(nodes, k - 1) \o <<y>>) = Part(nodes, k - 1) \o <<y>>
  BY <1>2, KidsMet
<1> HIDE DEF configs, nodes, parts, children, n, N
<1>7. ASSUME NEW K \in 0 .. n, NEW x \in {<<>>, <<Unknown>>}
      PROVE  ConfigsSeen(Part(nodes, K) \o x) = SubSeq(configs, 1, K)
  <2> DEFINE p == Part(nodes, K)
             g == ConfigsSeen(p \o x)
  <2>1. p \in Seq(N) /\ Len(p) = K /\ K \in Nat /\ \A i \in 1 .. K : p[i] = nodes[i]
    BY <1>2, <1>3, PartIs
  <2>2. DOMAIN p = 1 .. K
    <3> HIDE DEF p
    <3> QED
      BY <2>1, LenProperties
  <2>3. Elements(p \o x) = p
    BY <1>2, <1>6
  <2>4. g = [k \in 1 .. K |-> ConfigSeen(p[k])]
    <3> HIDE DEF p
    <3> QED
      BY <2>2, <2>3 DEF ConfigsSeen
  <2> HIDE DEF p, g
  <2>5. \A k \in 1 .. K : g[k] = configs[k] /\ k \in 1 .. n
    <3> TAKE k \in 1 .. K
    <3>1. k \in 1 .. n
      BY <1>1, <2>1 DEF n
    <3>2. g[k] = ConfigSeen(nodes[k])
      BY <2>1, <2>4
    <3> QED
      BY <1>5, <3>1, <3>2
  <2>6. g \in [1 .. K -> GoodConfigs]
    <3>1. g = [k \in 1 .. K |-> g[k]]
      BY <2>4
    <3>2. \A k \in 1 .. K : g[k] \in GoodConfigs
      BY <1>1, <2>5 DEF n
    <3> QED
      BY <3>1, <3>2
  <2>7. K \in 0 .. Len(configs)
    BY DEF n
  <2>8. g = SubSeq(configs, 1, K)
    BY <1>1, <2>5, <2>6, <2>7, Firsts
  <2> QED
    BY <2>8 DEF g, p
<1>8. ASSUME NEW k \in 1 .. n, NEW y \in parts[k]
      PROVE  ConfigsSeen(Part(nodes, k - 1) \o <<y>>) = Append(SubSeq(configs, 1, k - 1), ConfigSeen(y))
  <2> DEFINE K == k - 1
             s == Part(nodes, K) \o <<y>>
             g == ConfigsSeen(s)
             u == configs[k]
  <2>1. K \in 0 .. Len(nodes) /\ K \in Nat /\ K + 1 = k /\ k \in 1 .. Len(nodes) /\ n \in Nat
        /\ k \in 1 .. k
    <3>1. n \in Nat
      BY <1>1 DEF n
    <3> QED
      BY <1>2, <3>1
  <2>2. u \in GoodConfigs /\ y \in ConfigParts(u)
    BY <1>1, <1>4 DEF n
  <2> HIDE DEF u
  <2>3. ConfigSeen(y) \in GoodConfigs
    <3>1. ConfigSeen(y) \in CutConfig(u)
      BY <2>2, ConfigIsSeen
    <3>2. CutConfig(u) \subseteq GoodConfigs
      BY <2>2, CutConfigIs
    <3> QED
      BY <3>1, <3>2
  <2>4. Elements(s) = s
    BY <1>6, <2>1
  <2>5. y \in N
    BY <1>3, <2>1
  <2> HIDE DEF K
  <2>6. s \in Seq(N) /\ Len(s) = K + 1 /\ (\A i \in 1 .. K : s[i] = nodes[i]) /\ s[K + 1] = y
    BY <1>3, <2>1, <2>5, PartThen
  <2> HIDE DEF s
  <2>7. DOMAIN s = 1 .. k
    BY <2>1, <2>6, LenProperties
  <2>8. g = [i \in 1 .. k |-> ConfigSeen(s[i])]
    BY <2>4, <2>7 DEF ConfigsSeen
  <2> HIDE DEF g
  <2>9. g[k] = ConfigSeen(y)
    BY <2>1, <2>6, <2>8
  <2>10. \A i \in 1 .. K : g[i] = configs[i] /\ i \in 1 .. n
    <3> TAKE i \in 1 .. K
    <3>1. i \in 1 .. n /\ i \in 1 .. k
      BY <2>1
    <3>2. g[i] = ConfigSeen(nodes[i])
      BY <2>6, <2>8, <3>1
    <3> QED
      BY <1>5, <3>1, <3>2
  <2>11. g \in [1 .. k -> GoodConfigs]
    <3>1. g = [i \in 1 .. k |-> g[i]]
      BY <2>8
    <3>2. \A i \in 1 .. k : g[i] \in GoodConfigs
      <4> TAKE i \in 1 .. k
      <4>1. CASE i = k
        BY <2>3, <2>9, <4>1
      <4>2. CASE i # k
        <5>1. i \in 1 .. K
          BY <2>1, <4>2
        <5> QED
          BY <1>1, <2>10, <5>1 DEF n
      <4> QED
        BY <4>1, <4>2
    <3> QED
      BY <3>1, <3>2
  <2>12. g = Append(SubSeq(configs, 1, k - 1), g[k])
    <3>1. k \in 1 .. Len(configs)
      BY DEF n
    <3>2. \A i \in 1 .. k - 1 : g[i] = configs[i]
      BY <2>10 DEF K
    <3> QED
      BY <1>1, <2>11, <3>1, <3>2, FirstsThen
  <2> QED
    BY <2>9, <2>12 DEF g, s, K
<1> QED
  BY <1>4, <1>7, <1>8 DEF configs, nodes, n

\* The configurations that are left: some of them, the last one perhaps cut.
LEMMA CutConfigsAre ==
    ASSUME NEW cs \in Seq(GoodConfigs)
    PROVE  /\ \A K \in 0 .. Len(cs) : SubSeq(cs, 1, K) \in CutConfigs(cs)
           /\ \A k \in 1 .. Len(cs) : \A c \in CutConfig(cs[k]) : Append(SubSeq(cs, 1, k - 1), c) \in CutConfigs(cs)
           /\ \A z \in CutConfigs(cs) :
                  \/ z = SubSeq(cs, 1, 0)
                  \/ \E k \in 1 .. Len(cs) : \E c \in CutConfig(cs[k]) : z = Append(SubSeq(cs, 1, k - 1), c)
<1> DEFINE n == Len(cs)
           H == 1 .. n
           f(k) == SubSeq(cs, 1, k - 1)
           F(k) == {Append(f(k), c) : c \in CutConfig(cs[k])}
<1>1. n \in Nat /\ DOMAIN cs = 1 .. n
  BY LenProperties
<1>2. CutConfigs(cs) = {<<>>} \cup UNION {F(k) : k \in H}
  BY <1>1 DEF CutConfigs
<1>3. SubSeq(cs, 1, 0) = <<>>
  BY SubSeqEmpty
<1>4. \A k \in H : \A c \in CutConfig(cs[k]) : Append(f(k), c) \in CutConfigs(cs)
  <2> TAKE k \in H
  <2> TAKE c \in CutConfig(cs[k])
  <2>1. Append(f(k), c) \in F(k)
    OBVIOUS
  <2> HIDE DEF F, f, H
  <2> QED
    BY <1>2, <2>1
<1>5. \A K \in 0 .. n : SubSeq(cs, 1, K) \in CutConfigs(cs)
  <2> TAKE K \in 0 .. n
  <2>1. CASE K = 0
    BY <1>2, <1>3, <2>1
  <2>2. CASE K # 0
    <3>1. K \in 1 .. n
      <4> HIDE DEF n, f, F
      <4> QED
        BY <1>1, <2>2
    <3> DEFINE c == cs[K]
    <3>2. c \in GoodConfigs
      BY <3>1, ElementOfSeq
    <3>3. SubSeq(cs, 1, K) = Append(SubSeq(cs, 1, K - 1), c)
      <4>1. 1 \in 1 .. Len(cs) /\ K \in 1 .. Len(cs) /\ K - 1 \in 0 .. Len(cs)
        BY <1>1, <3>1
      <4>2. SubSeq(cs, 1, K) = SubSeq(cs, 1, K - 1) \o <<c>>
        BY <4>1, SubSeqRecursiveSecond
      <4>3. Part(cs, K - 1) \o <<c>> = Append(Part(cs, K - 1), c)
        <5> HIDE DEF c
        <5> QED
          BY <3>2, <4>1, PartThen
      <4> QED
        BY <4>2, <4>3 DEF Part
    <3>4. c \in CutConfig(c)
      <4> HIDE DEF c
      <4> QED
        BY <3>2, CutConfigIs
    <3>5. Append(f(K), c) \in CutConfigs(cs)
      BY <1>4, <3>1, <3>4
    <3> QED
      BY <3>3, <3>5
  <2> QED
    BY <2>1, <2>2
<1>6. ASSUME NEW z \in CutConfigs(cs)
      PROVE  z = SubSeq(cs, 1, 0) \/ \E k \in H : \E c \in CutConfig(cs[k]) : z = Append(f(k), c)
  <2>1. CASE z = <<>>
    BY <1>3, <2>1
  <2>2. CASE \E k \in H : z \in F(k)
    BY <2>2
  <2> HIDE DEF F, f
  <2> QED
    BY <1>2, <2>1, <2>2
<1> QED
  BY <1>4, <1>5, <1>6

\* Of a root that is cut the program sees one of CutConfigs.
LEMMA RootIsSeen ==
    ASSUME NEW cs \in Seq(GoodConfigs)
    PROVE  /\ ConfigsSeen(RootNode(cs).children) = cs /\ RootNode(cs).type = "element"
           /\ \A y \in RootParts(cs) : ConfigsSeen(y.children) \in CutConfigs(cs) /\ y.type = "element"
<1> DEFINE name == "ConfigReseau"
           a == <<>>
           nodes == RootNodes(cs)
           parts == RootConfigParts(cs)
           n == Len(cs)
           children == RootKids(cs)
           N == NodesOf(nodes, parts)
<1>1. /\ n \in Nat /\ DOMAIN cs = 1 .. n /\ \A k \in 1 .. n : cs[k] \in GoodConfigs
  BY GoodConfigsSequence
<1>2. Len(nodes) = n /\ KidsRead(children, nodes, parts)
  BY RootKidsRead
<1>3. nodes \in Seq(N)
  BY <1>2, KidsAreKids
<1>4. /\ \A K \in 0 .. n, x \in {<<>>, <<Unknown>>} : ConfigsSeen(Part(nodes, K) \o x) = SubSeq(cs, 1, K)
      /\ \A k \in 1 .. n : \A y \in ConfigParts(cs[k]) :
             ConfigsSeen(Part(nodes, k - 1) \o <<y>>) = Append(SubSeq(cs, 1, k - 1), ConfigSeen(y))
  BY ConfigsMet
<1>5. /\ \A K \in 0 .. n : SubSeq(cs, 1, K) \in CutConfigs(cs)
      /\ \A k \in 1 .. n : \A c \in CutConfig(cs[k]) : Append(SubSeq(cs, 1, k - 1), c) \in CutConfigs(cs)
  BY CutConfigsAre
<1>6. ConfigsSeen(RootNode(cs).children) = cs /\ RootNode(cs).type = "element"
  <2>1. Part(nodes, n) \o <<>> = nodes
    <3>1. Part(nodes, n) = nodes
      BY <1>2, <1>3, SubSeqFull DEF Part
    <3>2. nodes \o <<>> = nodes
      <4> HIDE DEF nodes, N
      <4> QED
        BY <1>3, ConcatEmptySeq
    <3> QED
      BY <3>1, <3>2
  <2>2. n \in 0 .. n /\ SubSeq(cs, 1, n) = cs
    BY <1>1, SubSeqFull
  <2>3. ConfigsSeen(Part(nodes, n) \o <<>>) = SubSeq(cs, 1, n)
    <3> HIDE DEF nodes, n
    <3> QED
      BY <1>4, <2>2
  <2>4. RootNode(cs).children = nodes /\ RootNode(cs).type = "element"
    BY ElementFields DEF RootNode
  <2> HIDE DEF nodes
  <2> QED
    BY <2>1, <2>2, <2>3, <2>4
<1>7. ASSUME NEW y \in RootParts(cs) PROVE ConfigsSeen(y.children) \in CutConfigs(cs) /\ y.type = "element"
  <2>1. RootParts(cs) = PartsOf(name, a, nodes, parts)
    BY DEF RootParts
  <2>2. OnePart(y, name, a, nodes, parts, n)
    <3> HIDE DEF name, a, nodes, parts, n
    <3>1. y \in PartsOf(name, a, nodes, parts)
      BY <1>7, <2>1
    <3>2. OnePart(y, name, a, nodes, parts, Len(nodes))
      BY <3>1, OutOfParts
    <3> QED
      BY <1>2, <3>2
  <2> HIDE DEF name, nodes, parts
  <2>3. ASSUME NEW K \in 0 .. n, NEW x \in {<<>>, <<Unknown>>}, y.children = Part(nodes, K) \o x
        PROVE  ConfigsSeen(y.children) \in CutConfigs(cs)
    <3> HIDE DEF n
    <3> QED
      BY <1>4, <1>5, <2>3 DEF nodes
  <2>4. CASE \E j \in 0 .. Len(a) : y = Element(name, Part(a, j), <<>>)
    <3>1. PICK j \in 0 .. Len(a) : y = Element(name, Part(a, j), <<>>)
      BY <2>4
    <3>2. y.type = "element" /\ y.children = <<>>
      BY <3>1, ElementFields
    <3>3. 0 \in 0 .. n /\ <<>> \in {<<>>, <<Unknown>>}
      BY <1>1
    <3>4. Part(nodes, 0) \o <<>> = <<>>
      <4>1. Part(nodes, 0) = <<>>
        BY <1>3, SubSeqEmpty DEF Part
      <4>2. <<>> \o <<>> = <<>>
        BY ConcatEmptySeq, EmptySeq
      <4> QED
        BY <4>1, <4>2
    <3> QED
      BY <2>3, <3>2, <3>3, <3>4
  <2>5. CASE \E K \in 0 .. n, x \in {<<>>, <<Unknown>>} : y = Element(name, a, Part(nodes, K) \o x)
    <3>1. PICK K \in 0 .. n, x \in {<<>>, <<Unknown>>} : y = Element(name, a, Part(nodes, K) \o x)
      BY <2>5
    <3>2. y.type = "element" /\ y.children = Part(nodes, K) \o x
      <4> DEFINE v == Part(nodes, K) \o x
      <4>1. y = Element(name, a, v)
        BY <3>1
      <4> HIDE DEF v, a
      <4>2. y.type = "element" /\ y.children = v
        BY <4>1, ElementFields
      <4> QED
        BY <4>2 DEF v
    <3> QED
      BY <2>3, <3>1, <3>2
  <2>6. CASE \E k \in 1 .. n : \E z \in parts[k] : y = Element(name, a, Part(nodes, k - 1) \o <<z>>)
    <3>1. PICK k \in 1 .. n : \E z \in parts[k] : y = Element(name, a, Part(nodes, k - 1) \o <<z>>)
      BY <2>6
    <3>2. PICK z \in parts[k] : y = Element(name, a, Part(nodes, k - 1) \o <<z>>)
      BY <3>1
    <3>3. parts[k] = ConfigParts(cs[k]) /\ cs[k] \in GoodConfigs
      BY <1>1, <3>1 DEF parts, RootConfigParts
    <3>4. ConfigSeen(z) \in CutConfig(cs[k])
      <4> DEFINE u == cs[k]
      <4>1. u \in GoodConfigs /\ z \in ConfigParts(u)
        BY <3>2, <3>3
      <4> HIDE DEF u
      <4>2. ConfigSeen(z) \in CutConfig(u)
        BY <4>1, ConfigIsSeen
      <4> QED
        BY <4>2 DEF u
    <3>5. y.type = "element" /\ y.children = Part(nodes, k - 1) \o <<z>>
      <4> DEFINE v == Part(nodes, k - 1) \o <<z>>
      <4>1. y = Element(name, a, v)
        BY <3>2
      <4> HIDE DEF v, a
      <4>2. y.type = "element" /\ y.children = v
        BY <4>1, ElementFields
      <4> QED
        BY <4>2 DEF v
    <3>6. ConfigsSeen(Part(nodes, k - 1) \o <<z>>) = Append(SubSeq(cs, 1, k - 1), ConfigSeen(z))
      <4> HIDE DEF n
      <4> QED
        BY <1>4, <3>1, <3>2, <3>3 DEF nodes
    <3>7. Append(SubSeq(cs, 1, k - 1), ConfigSeen(z)) \in CutConfigs(cs)
      <4> HIDE DEF n
      <4> QED
        BY <1>5, <3>1, <3>4
    <3> QED
      BY <3>5, <3>6, <3>7
  <2> QED
    BY <2>2, <2>4, <2>5, <2>6 DEF OnePart
<1> QED
  BY <1>6, <1>7

\* The elements among at most two nodes.
LEMMA FewElements ==
    ASSUME NEW x, NEW y
    PROVE  /\ Elements(<<>>) = <<>>
           /\ x.type # "element" => Elements(<<x>>) = <<>>
           /\ x.type = "element" => Elements(<<x>>) = <<x>>
           /\ x.type # "element" /\ y.type # "element" => Elements(<<x, y>>) = <<>>
           /\ x.type # "element" /\ y.type = "element" => Elements(<<x, y>>) = <<y>>
<1> DEFINE S == {x, y}
           one == <<x>>
           two == <<x, y>>
           none == <<>>
           e == "element"
           only(s, a, b) == \A k \in 1 .. Len(s) : s[k].type = e <=> k \in a + 1 .. b
<1>1. /\ one \in Seq(S) /\ Len(one) = 1 /\ one[1] = x
      /\ two \in Seq(S) /\ Len(two) = 2 /\ two[1] = x /\ two[2] = y
      /\ none \in Seq(S) /\ Len(none) = 0
  OBVIOUS
<1>2. SubSeq(one, 1, 1) = <<x>> /\ SubSeq(two, 2, 2) = <<y>> /\ SubSeq(one, 1, 0) = <<>> /\ SubSeq(two, 1, 0) = <<>>
      /\ SubSeq(none, 1, 0) = <<>>
  <2>1. \A s \in Seq(S) : SubSeq(s, 1, 0) = <<>>
    <3> HIDE DEF S
    <3> QED
      BY SubSeqEmpty
  <2>2. SubSeq(one, 1, Len(one)) = one
    BY <1>1, SubSeqFull
  <2>3. SubSeq(two, 2, 2) = <<y>>
    <3> HIDE DEF two, S
    <3>1. 2 \in Int /\ \A k \in 2 .. 2 : two[k] \in S
      BY <1>1, ElementOfSeq
    <3>2. /\ SubSeq(two, 2, 2) \in Seq(S)
          /\ Len(SubSeq(two, 2, 2)) = IF 2 <= 2 THEN 2 - 2 + 1 ELSE 0
          /\ \A i \in 1 .. 2 - 2 + 1 : SubSeq(two, 2, 2)[i] = two[2 + i - 1]
      BY <3>1, SubSeqProperties
    <3> DEFINE s == SubSeq(two, 2, 2)
    <3>3. s \in Seq(S) /\ Len(s) = 1 /\ s[1] = y
      BY <1>1, <3>2
    <3> HIDE DEF s
    <3>4. s = <<y>>
      BY <3>3
    <3> QED
      BY <3>4 DEF s
  <2> QED
    BY <1>1, <2>1, <2>2, <2>3
<1>3. ASSUME NEW s \in Seq(S), NEW a \in Nat, NEW b \in Nat, a <= b, b <= Len(s),
             only(s, a, b)
      PROVE  Elements(s) = SubSeq(s, a + 1, b)
  <2> HIDE DEF S
  <2> QED
    BY <1>3, ElementsSlice DEF e
<1> HIDE DEF one, two, none, S, e
<1> DEFINE z == 0
           i == 1
           j == 2
<1>4. z \in Nat /\ i \in Nat /\ j \in Nat /\ z + 1 = 1 /\ i + 1 = 2 /\ z <= z /\ z <= i /\ i <= j /\ z <= j
      /\ i <= i /\ j <= j
      /\ z + 1 .. z = {} /\ z + 1 .. i = {1} /\ i + 1 .. j = {2} /\ 1 .. 0 = {} /\ 1 .. 1 = {1} /\ 1 .. 2 = {1, 2}
      /\ z = 0 /\ i = 1 /\ j = 2
  OBVIOUS
<1> HIDE DEF z, i, j
<1>5. Elements(none) = <<>>
  <2>1. only(none, z, z)
    BY <1>1, <1>4
  <2>2. z \in Nat /\ z \in Nat /\ z <= z /\ z <= Len(none) /\ none \in Seq(S)
    BY <1>1, <1>4
  <2>3. Elements(none) = SubSeq(none, z + 1, z)
    <3> HIDE DEF only
    <3> QED
      BY <1>3, <2>1, <2>2
  <2> QED
    BY <1>2, <1>4, <2>3
<1>6. ASSUME x.type # e PROVE Elements(one) = <<>>
  <2>1. only(one, z, z)
    BY <1>1, <1>4, <1>6
  <2>2. z \in Nat /\ z \in Nat /\ z <= z /\ z <= Len(one) /\ one \in Seq(S)
    BY <1>1, <1>4
  <2>3. Elements(one) = SubSeq(one, z + 1, z)
    <3> HIDE DEF only
    <3> QED
      BY <1>3, <2>1, <2>2
  <2> QED
    BY <1>2, <1>4, <2>3
<1>7. ASSUME x.type = e PROVE Elements(one) = <<x>>
  <2>1. only(one, z, i)
    BY <1>1, <1>4, <1>7
  <2>2. z \in Nat /\ i \in Nat /\ z <= i /\ i <= Len(one) /\ one \in Seq(S)
    BY <1>1, <1>4
  <2>3. Elements(one) = SubSeq(one, z + 1, i)
    <3> HIDE DEF only
    <3> QED
      BY <1>3, <2>1, <2>2
  <2> QED
    BY <1>2, <1>4, <2>3
<1>8. ASSUME x.type # e, y.type # e PROVE Elements(two) = <<>>
  <2>1. only(two, z, z)
    BY <1>1, <1>4, <1>8
  <2>2. z \in Nat /\ z \in Nat /\ z <= z /\ z <= Len(two) /\ two \in Seq(S)
    BY <1>1, <1>4
  <2>3. Elements(two) = SubSeq(two, z + 1, z)
    <3> HIDE DEF only
    <3> QED
      BY <1>3, <2>1, <2>2
  <2> QED
    BY <1>2, <1>4, <2>3
<1>9. ASSUME x.type # e, y.type = e PROVE Elements(two) = <<y>>
  <2>1. only(two, i, j)
    BY <1>1, <1>4, <1>9
  <2>2. i \in Nat /\ j \in Nat /\ i <= j /\ j <= Len(two) /\ two \in Seq(S)
    BY <1>1, <1>4
  <2>3. Elements(two) = SubSeq(two, i + 1, j)
    <3> HIDE DEF only
    <3> QED
      BY <1>3, <2>1, <2>2
  <2> QED
    BY <1>2, <1>4, <2>3
<1> QED
  BY <1>5, <1>6, <1>7, <1>8, <1>9 DEF one, two, none, e

-----------------------------------------------------------------------------
\* What DocumentParse links from a position on, without or with an error.
Fine(t, at, c) == DocumentOf(t)[at].children = c /\ ~ DocumentOf(t)[at].error
Wrong(t, at, c) == DocumentOf(t)[at].children = c /\ DocumentOf(t)[at].error = TRUE
\* A node is read, and reading goes on at q.
KnownAt(t, m, q, x) == NodeAt(t, m) = Parsed(q, x, FALSE)

\* A document ends where at most a space is left.
LEMMA DocumentEnds ==
    ASSUME NEW t \in Seq(Pieces), NEW at \in 0 .. Len(t) + 1,
           at \in 1 .. Len(t) => t[at].kind = "space" /\ at = Len(t)
    PROVE  Fine(t, at, <<>>)
<1> DEFINE p == SkipWhiteSpace(t, at)
<1>1. Len(t) \in Nat /\ at \in Nat
  BY LenProperties
<1>2. p \in Nat /\ p \notin 1 .. Len(t)
  <2>1. CASE at \in 1 .. Len(t)
    <3>1. p = at + 1
      BY <1>1, <2>1, SkipIs
    <3> HIDE DEF p
    <3> QED
      BY <1>1, <2>1, <3>1
  <2>2. CASE at \notin 1 .. Len(t)
    <3>1. p = 0
      BY <1>1, <2>2, SkipIs
    <3> HIDE DEF p
    <3> QED
      BY <3>1
  <2> QED
    BY <2>1, <2>2
<1>3. ~ Readable(t, p)
  <2> HIDE DEF p
  <2> QED
    BY <1>2, SkipIs
<1>4. DocumentOf(t)[at] = DocumentStep(t, DocumentOf(t), at)
  BY LoadIs
<1>5. DocumentStep(t, DocumentOf(t), at) = Result(Nowhere, <<>>, <<>>, FALSE)
  BY <1>3, Zenon DEF DocumentStep
<1> DEFINE r == Result(Nowhere, <<>>, <<>>, FALSE)
<1>6. r.children = <<>> /\ ~ r.error
  BY DEF Result
<1> HIDE DEF r
<1>7. DocumentOf(t)[at] = r
  BY <1>4, <1>5, Zenon DEF r
<1> QED
  BY <1>6, <1>7 DEF Fine

\* One step of reading a document: the node met is linked.
LEMMA LinkedIs ==
    ASSUME NEW t \in Seq(Pieces), NEW at \in 0 .. Len(t) + 1, NEW m \in Nat, m < Len(t),
           SkipWhiteSpace(t, at) = m + 1
    PROVE  DocumentOf(t)[at] = WithChild(NodeAt(t, m), DocumentOf(t)[NodeAt(t, m).p])
<1> DEFINE p == SkipWhiteSpace(t, at)
<1>1. Len(t) \in Nat /\ m + 1 \in 1 .. Len(t) /\ m + 1 \in Nat
  BY LenProperties
<1>2. Readable(t, m + 1)
  BY <1>1, SkipIs
<1>3. DocumentOf(t)[at] = DocumentStep(t, DocumentOf(t), at)
  BY LoadIs
<1> DEFINE node == NodeParse(t, ReadValue(t), p)
<1>4. Readable(t, p) /\ node = NodeAt(t, m)
  BY <1>2 DEF NodeAt
<1>5. DocumentStep(t, DocumentOf(t), at) =
          IF ~ Readable(t, p) THEN Result(Nowhere, <<>>, <<>>, FALSE)
          ELSE WithChild(node, DocumentOf(t)[node.p])
  BY Zenon DEF DocumentStep
<1> HIDE DEF p, node
<1> QED
  BY <1>3, <1>4, <1>5, Zenon

\* A node read whole is linked and reading goes on.
LEMMA LinkedFine ==
    ASSUME NEW t \in Seq(Pieces), NEW at \in 0 .. Len(t) + 1, NEW m \in Nat, m < Len(t),
           SkipWhiteSpace(t, at) = m + 1, NEW q, NEW x, KnownAt(t, m, q, x), NEW c
    PROVE  /\ Fine(t, q, c) => Fine(t, at, <<x>> \o c)
           /\ Wrong(t, q, c) => Wrong(t, at, <<x>> \o c)
<1> DEFINE r == DocumentOf(t)[q]
<1>1. DocumentOf(t)[at] = WithChild(NodeAt(t, m), DocumentOf(t)[NodeAt(t, m).p])
  BY LinkedIs
<1>2. NodeAt(t, m).p = q /\ NodeAt(t, m).node = x /\ NodeAt(t, m).error = FALSE
  BY DEF KnownAt, Parsed
<1>3. DocumentOf(t)[at] = WithChild(NodeAt(t, m), r)
  BY <1>1, <1>2
<1> HIDE DEF r
<1>4. DocumentOf(t)[at].children = <<x>> \o r.children /\ DocumentOf(t)[at].error = (r.error \/ FALSE)
  BY <1>2, <1>3 DEF WithChild, Result
<1>5. ASSUME r.children = c, ~ r.error
      PROVE  DocumentOf(t)[at].children = <<x>> \o c /\ ~ DocumentOf(t)[at].error
  BY <1>4, <1>5
<1>6. ASSUME r.children = c, r.error = TRUE
      PROVE  DocumentOf(t)[at].children = <<x>> \o c /\ DocumentOf(t)[at].error = TRUE
  BY <1>4, <1>6
<1> QED
  BY <1>5, <1>6 DEF Fine, Wrong, r

\* A node broken off is linked and reading ends.
LEMMA LinkedWrong ==
    ASSUME NEW t \in Seq(Pieces), NEW at \in 0 .. Len(t) + 1, NEW m \in Nat, m < Len(t),
           SkipWhiteSpace(t, at) = m + 1, NEW x, BrokenAt(t, m, x)
    PROVE  Wrong(t, at, <<x>>)
<1> DEFINE r == DocumentOf(t)[0]
<1>1. DocumentOf(t)[at] = WithChild(NodeAt(t, m), DocumentOf(t)[NodeAt(t, m).p])
  BY LinkedIs
<1>2. NodeAt(t, m).p = 0 /\ NodeAt(t, m).node = x /\ NodeAt(t, m).error = TRUE
  BY DEF BrokenAt, Parsed
<1>3. DocumentOf(t)[at] = WithChild(NodeAt(t, m), r)
  BY <1>1, <1>2
<1>4. Fine(t, 0, <<>>)
  <2>1. 0 \in 0 .. Len(t) + 1 /\ 0 \notin 1 .. Len(t)
    BY LenProperties
  <2> QED
    BY <2>1, DocumentEnds
<1>5. r.children = <<>>
  BY <1>4 DEF Fine
<1> HIDE DEF r
<1>6. DocumentOf(t)[at].children = <<x>> \o r.children /\ DocumentOf(t)[at].error = TRUE
  <2> DEFINE e == NodeAt(t, m).error
  <2>1. DocumentOf(t)[at].children = <<x>> \o r.children /\ DocumentOf(t)[at].error = (r.error \/ e)
    BY <1>2, <1>3 DEF WithChild, Result
  <2>2. (r.error \/ e) = TRUE
    BY <1>2
  <2> HIDE DEF e
  <2> QED
    BY <2>1, <2>2
<1>7. <<x>> \o <<>> = <<x>>
  <2> DEFINE S == {x}
             s == <<x>>
  <2>1. s \in Seq(S)
    OBVIOUS
  <2> HIDE DEF s, S
  <2>2. s \o <<>> = s
    BY <2>1, ConcatEmptySeq
  <2> QED
    BY <2>2 DEF s
<1> QED
  BY <1>5, <1>6, <1>7 DEF Wrong

\* The root as DocumentParse meets it; white space may follow it.
LEMMA RootMet ==
    ASSUME NEW t \in Seq(Pieces), NEW r \in Seq(Pieces), NEW m \in Nat, NEW at \in 0 .. Len(t) + 1,
           m < Len(t), Follows(t, m, r), SkipWhiteSpace(t, at) = m + 1,
           NEW R, NEW P, ReadsWhole(r, R), ReadsCut(r, P),
           Len(t) <= m + Len(r) + 1, Len(t) = m + Len(r) + 1 => t[Len(t)].kind = "space"
    PROVE  IF m + Len(r) <= Len(t) THEN Fine(t, at, <<R>>)
           ELSE Fine(t, at, <<Unknown>>) \/ \E y \in P : Wrong(t, at, <<y>>)
<1> DEFINE L == Len(t)
           l == Len(r)
<1>1. L \in Nat /\ l \in Nat
  BY LenProperties
<1>2. \A x : <<x>> \o <<>> = <<x>>
  <2> TAKE x
  <2> DEFINE S == {x}
             s == <<x>>
  <2>1. s \in Seq(S)
    OBVIOUS
  <2> HIDE DEF s, S
  <2>2. s \o <<>> = s
    BY <2>1, ConcatEmptySeq
  <2> QED
    BY <2>2 DEF s
<1>3. ASSUME m + l <= L PROVE Fine(t, at, <<R>>)
  <2> DEFINE q == m + l + 1
  <2>1. KnownAt(t, m, q, R)
    BY <1>3 DEF ReadsWhole, KnownAt
  <2>2. q \in 0 .. L + 1 /\ (q \in 1 .. L => q = L)
    BY <1>1, <1>3
  <2>3. q = L => t[q].kind = "space"
    OBVIOUS
  <2> HIDE DEF q
  <2>4. Fine(t, q, <<>>)
    BY <2>2, <2>3, DocumentEnds
  <2>5. Fine(t, at, <<R>> \o <<>>)
    BY <2>1, <2>4, LinkedFine
  <2> QED
    BY <1>2, <2>5
<1>4. ASSUME ~ (m + l <= L) PROVE Fine(t, at, <<Unknown>>) \/ \E y \in P : Wrong(t, at, <<y>>)
  <2> DEFINE q == L + 1
  <2>1. L < m + l
    BY <1>1, <1>4
  <2>2. KnownAt(t, m, q, Unknown) \/ \E y \in P : BrokenAt(t, m, y)
    BY <2>1 DEF ReadsCut, KnownAt, BrokenAt
  <2>3. CASE KnownAt(t, m, q, Unknown)
    <3>1. q \in 0 .. L + 1 /\ q \notin 1 .. L
      BY <1>1
    <3> HIDE DEF q
    <3>2. Fine(t, q, <<>>)
      BY <3>1, DocumentEnds
    <3>3. Fine(t, at, <<Unknown>> \o <<>>)
      BY <2>3, <3>2, LinkedFine
    <3> QED
      BY <1>2, <3>3
  <2>4. CASE \E y \in P : BrokenAt(t, m, y)
    <3>1. PICK y \in P : BrokenAt(t, m, y)
      BY <2>4
    <3>2. Wrong(t, at, <<y>>)
      BY <3>1, LinkedWrong
    <3> QED
      BY <3>2
  <2> QED
    BY <2>2, <2>3, <2>4
<1> QED
  BY <1>3, <1>4

\* What is printed of a document: behind pre pieces the root, if it has one.
IsText(w, d, pre) ==
    /\ w \in Seq(Pieces)
    /\ pre = 0 \/ (pre = 2 /\ w[1] = Piece("declaration") /\ w[2] = Space)
    /\ IF d.root
       THEN /\ Lies(w, pre, RootPrint(d)) /\ Len(w) = pre + Len(RootPrint(d)) + 1
            /\ w[Len(w)] = Space
       ELSE Len(w) = pre

\* The text of a document: its declaration, or none, and its root.
LEMMA TextIs ==
    ASSUME NEW d, d.configs \in Seq(GoodConfigs), NEW declared
    PROVE  \E pre : IsText(DocumentPrint(d, declared), d, pre)
<1> DEFINE a == IF declared THEN <<Piece("declaration"), Space>> ELSE <<>>
           r == RootPrint(d)
           s == <<Space>>
           b == IF d.root THEN r \o s ELSE <<>>
           w == a \o b
           pre == Len(a)
<1>1. DocumentPrint(d, declared) = w
  BY DEF DocumentPrint
<1>2. /\ a \in Seq(Pieces)
      /\ pre = 0 \/ (pre = 2 /\ a[1] = Piece("declaration") /\ a[2] = Space)
  <2>1. Piece("declaration") \in Pieces /\ Space \in Pieces
    <3>1. "declaration" \in Kinds
      BY DEF Kinds
    <3> QED
      BY <3>1, PieceKinds
  <2> DEFINE x == Piece("declaration")
             y == Space
  <2>2. x \in Pieces /\ y \in Pieces
    BY <2>1
  <2> HIDE DEF x, y
  <2>3. <<x, y>> \in Seq(Pieces) /\ Len(<<x, y>>) = 2 /\ <<x, y>>[1] = x /\ <<x, y>>[2] = y
    BY <2>2, Pair
  <2>4. <<>> \in Seq(Pieces) /\ Len(<<>>) = 0
    BY EmptySeq
  <2> QED
    BY <2>3, <2>4 DEF x, y
<1>3. r \in Seq(Pieces)
  BY RootReads
<1>4. s \in Seq(Pieces) /\ Len(s) = 1 /\ s[1] = Space
  BY PieceKinds, Three
<1> HIDE DEF a, r, s
<1>5. CASE d.root
  <2>1. /\ r \o s \in Seq(Pieces) /\ Len(r \o s) = Len(r) + 1
        /\ Lies(r \o s, 0, r) /\ Lies(r \o s, Len(r), s)
    BY <1>3, <1>4, LiesFirst
  <2>2. b = r \o s
    BY <1>5
  <2> HIDE DEF b
  <2>3. /\ w \in Seq(Pieces) /\ Len(w) = pre + Len(b)
        /\ Lies(w, 0, a) /\ Lies(w, pre, b)
    BY <1>2, <2>1, <2>2, LiesFirst
  <2>4. Len(r) \in Nat /\ pre \in Nat /\ 0 \in Nat
    BY <1>2, <1>3, LenProperties
  <2> HIDE DEF w, pre
  <2>5. Lies(w, pre + 0, r) /\ Lies(w, pre + Len(r), s)
    BY <1>3, <1>4, <2>1, <2>2, <2>3, <2>4, LiesWithin
  <2>6. pre + 0 = pre /\ Len(w) = pre + Len(r) + 1 /\ pre + Len(r) + 1 = Len(w)
    <3>1. Len(b) = Len(r) + 1
      BY <2>1, <2>2
    <3> DEFINE l == Len(r)
    <3>2. l \in Nat /\ Len(w) = pre + (l + 1)
      BY <2>3, <2>4, <3>1
    <3> HIDE DEF l
    <3>3. Len(w) = pre + l + 1 /\ pre + 0 = pre
      BY <2>4, <3>2
    <3> QED
      BY <3>3 DEF l
  <2>7. w[Len(w)] = Space
    <3>1. 1 \in 1 .. Len(s)
      BY <1>4
    <3>2. w[pre + Len(r) + 1] = s[1]
      BY <2>5, <3>1 DEF Lies
    <3> QED
      BY <1>4, <2>6, <3>2
  <2>8. pre = 0 \/ (pre = 2 /\ w[1] = Piece("declaration") /\ w[2] = Space)
    <3>1. CASE pre = 2
      <4>1. 1 \in 1 .. Len(a) /\ 2 \in 1 .. Len(a) /\ 0 + 1 = 1 /\ 0 + 2 = 2
        BY <3>1 DEF pre
      <4>2. w[0 + 1] = a[1] /\ w[0 + 2] = a[2]
        BY <2>3, <4>1 DEF Lies
      <4> QED
        BY <1>2, <3>1, <4>1, <4>2 DEF pre
    <3> QED
      BY <1>2, <3>1 DEF pre
  <2>9. IsText(w, d, pre)
    BY <1>5, <2>3, <2>5, <2>6, <2>7, <2>8 DEF IsText, r
  <2> QED
    BY <1>1, <2>9
<1>6. CASE ~ d.root
  <2>1. b = <<>>
    BY <1>6
  <2>2. w = a
    BY <1>2, <2>1, ConcatEmptySeq
  <2>3. IsText(w, d, pre)
    BY <1>2, <1>6, <2>2 DEF IsText
  <2> QED
    BY <1>1, <2>3
<1> QED
  BY <1>5, <1>6

\* The elements LoadFile leaves in the document, without or with an error.
RootsFine(t, roots) == Elements(DocumentOf(t)[1].children) = roots /\ ~ DocumentOf(t)[1].error
RootsWrong(t, roots) == Elements(DocumentOf(t)[1].children) = roots /\ DocumentOf(t)[1].error = TRUE

\* What the window makes of a document read.
LEMMA SeenIs ==
    ASSUME NEW t \in Seq(Pieces), NEW y
    PROVE  /\ RootsFine(t, <<>>) \/ RootsWrong(t, <<>>) => Read(t) = EmptyDocument
           /\ RootsFine(t, <<y>>) =>
                  Read(t) = [root |-> TRUE, configs |-> ConfigsSeen(y.children), whole |-> TRUE]
           /\ RootsWrong(t, <<y>>) =>
                  Read(t) = [root |-> TRUE, configs |-> ConfigsSeen(y.children), whole |-> FALSE]
<1> DEFINE c == DocumentOf(t)[1].children
           e == DocumentOf(t)[1].error
           loaded == LoadFile(t)
           roots == Elements(c)
<1>1. loaded = Result(DocumentOf(t)[1].p, <<>>, c, e \/ c = <<>>)
  BY LoadIs
<1>2. loaded.children = c /\ loaded.error = (e \/ c = <<>>)
  BY <1>1 DEF Result
<1>3. Read(t) = DocumentSeen(loaded)
  BY DEF Read
<1> HIDE DEF loaded, c, e
<1>4. roots = <<>> => Read(t) = EmptyDocument
  BY <1>2, <1>3 DEF DocumentSeen
<1>5. ASSUME roots = <<y>>
      PROVE  Read(t) = [root |-> TRUE, configs |-> ConfigsSeen(y.children), whole |-> ~ (e \/ c = <<>>)]
  <2> DEFINE err == e \/ c = <<>>
  <2>1. <<y>> # <<>> /\ Head(<<y>>) = y
    OBVIOUS
  <2>2. loaded.error = err /\ Elements(loaded.children) = <<y>>
    BY <1>2, <1>5
  <2> HIDE DEF roots, err
  <2>3. DocumentSeen(loaded) = [root |-> TRUE, configs |-> ConfigsSeen(y.children), whole |-> ~ loaded.error]
    <3> DEFINE rs == Elements(loaded.children)
    <3>1. rs # <<>> /\ Head(rs) = y
      BY <2>1, <2>2
    <3> HIDE DEF rs
    <3>2. DocumentSeen(loaded) =
              IF rs = <<>> THEN EmptyDocument
              ELSE LET configs == Elements(Head(rs).children)
                   IN  [root |-> TRUE, configs |-> [k \in DOMAIN configs |-> ConfigSeen(configs[k])],
                        whole |-> ~ loaded.error]
      BY DEF DocumentSeen, rs
    <3>3. ConfigsSeen(y.children) = LET configs == Elements(y.children)
                                    IN  [k \in DOMAIN configs |-> ConfigSeen(configs[k])]
      BY DEF ConfigsSeen
    <3> QED
      BY <3>1, <3>2, <3>3
  <2> QED
    BY <1>3, <2>2, <2>3 DEF err
<1>6. roots = <<y>> => c # <<>>
  <2>1. Elements(<<>>) = <<>> /\ <<y>> # <<>>
    BY FewElements
  <2> QED
    BY <2>1
<1>7. ASSUME roots = <<y>>, ~ e
      PROVE  Read(t) = [root |-> TRUE, configs |-> ConfigsSeen(y.children), whole |-> TRUE]
  <2>1. (~ (e \/ c = <<>>)) = TRUE
    BY <1>6, <1>7
  <2> QED
    BY <1>5, <1>7, <2>1, Zenon
<1>8. ASSUME roots = <<y>>, e = TRUE
      PROVE  Read(t) = [root |-> TRUE, configs |-> ConfigsSeen(y.children), whole |-> FALSE]
  <2>1. (~ (e \/ c = <<>>)) = FALSE
    BY <1>8
  <2> QED
    BY <1>5, <1>8, <2>1, Zenon
<1> QED
  BY <1>4, <1>7, <1>8 DEF RootsFine, RootsWrong, roots, c, e

\* Where DocumentParse stands when it comes to the root, if it does.
LEMMA Started ==
    ASSUME NEW w, NEW d, NEW pre, IsText(w, d, pre),
           NEW t \in Seq(Pieces), Follows(t, 0, w), Len(t) <= Len(w),
           d.root => Opens(RootPrint(d)) /\ RootPrint(d) \in Seq(Pieces)
    PROVE  \/ Len(t) <= pre /\ RootsFine(t, <<>>)
           \/ /\ d.root /\ pre < Len(t)
              /\ \E at \in 0 .. Len(t) + 1 :
                     /\ SkipWhiteSpace(t, at) = pre + 1
                     /\ \A x : Fine(t, at, <<x>>) => RootsFine(t, Elements(<<x>>))
                     /\ \A x : Wrong(t, at, <<x>>) => RootsWrong(t, Elements(<<x>>))
<1> DEFINE L == Len(t)
           r == RootPrint(d)
           D == [type |-> "declaration"]
<1>1. w \in Seq(Pieces) /\ L \in Nat /\ Len(w) \in Nat /\ (pre = 0 \/ pre = 2) /\ pre \in Nat /\ 0 \in Nat
  BY LenProperties DEF IsText
<1>2. \A c : (Fine(t, 1, c) => RootsFine(t, Elements(c))) /\ (Wrong(t, 1, c) => RootsWrong(t, Elements(c)))
  BY DEF Fine, Wrong, RootsFine, RootsWrong
<1>3. d.root => Len(w) = pre + Len(r) + 1 /\ Len(r) \in Nat /\ Len(r) >= 1
  BY LenProperties DEF IsText, Opens
<1>4. ~ d.root => Len(w) = pre
  BY DEF IsText
<1>5. pre < L => d.root
  BY <1>1, <1>4
<1>6. ASSUME d.root, pre < L PROVE t[pre + 1].kind = "open"
  <2> DEFINE i == pre + 1
             x == r[1]
             q == i
  <2>1. i \in 1 .. Len(w) /\ q = 0 + i /\ q <= L
    BY <1>1, <1>3, <1>6
  <2>2. w[i] = x /\ x.kind = "open"
    <3>1. Lies(w, pre, r) /\ 1 \in 1 .. Len(r)
      BY <1>3, <1>6 DEF IsText
    <3> QED
      BY <1>6, <3>1 DEF Lies, Opens
  <2> HIDE DEF i, x, q
  <2>3. t[q].kind = x.kind
    BY <1>1, <2>1, <2>2, KindAt
  <2> QED
    BY <2>2, <2>3 DEF q, i
<1>7. ASSUME d.root, pre < L PROVE SkipWhiteSpace(t, pre + 1) = pre + 1
  <2>1. pre + 1 \in 1 .. L /\ pre + 1 \in Nat
    BY <1>1, <1>7
  <2>2. t[pre + 1].kind # "space"
    BY <1>6, <1>7
  <2> QED
    BY <2>1, <2>2, SkipIs
<1>8. Elements(<<>>) = <<>>
  BY FewElements
<1>9. CASE pre = 0
  <2>1. CASE L = 0
    <3>1. 1 \in 0 .. L + 1 /\ 1 \notin 1 .. L
      BY <2>1
    <3>2. Fine(t, 1, <<>>)
      BY <3>1, DocumentEnds
    <3> QED
      BY <1>2, <1>8, <1>9, <2>1, <3>2
  <2>2. CASE L # 0
    <3>1. pre < L /\ pre + 1 = 1 /\ 1 \in 0 .. L + 1
      BY <1>1, <1>9, <2>2
    <3>2. d.root /\ SkipWhiteSpace(t, 1) = pre + 1
      BY <1>5, <1>7, <3>1
    <3> QED
      BY <1>2, <3>1, <3>2
  <2> QED
    BY <2>1, <2>2
<1>10. CASE pre = 2 /\ L = 0
  <2>1. 1 \in 0 .. L + 1 /\ 1 \notin 1 .. L /\ L <= pre
    BY <1>10
  <2>2. Fine(t, 1, <<>>)
    BY <2>1, DocumentEnds
  <2> QED
    BY <1>2, <1>8, <2>1, <2>2
<1>11. CASE pre = 2 /\ L # 0
  <2> DEFINE dec == Piece("declaration")
             q == 2
             m == 0
  <2>1. 1 \in 1 .. L /\ 1 \in Nat /\ 1 \in 0 .. L + 1 /\ m < L /\ m \in Nat /\ m + 1 = 1 /\ q = 1 + 1 /\ q \in 0 .. L + 1
        /\ q \in Nat /\ 1 \in 1 .. Len(w) /\ (q <= L => q \in 1 .. Len(w)) /\ 0 + 1 = 1 /\ 0 + 2 = 2
    BY <1>1, <1>11
  <2>2. dec.kind = "declaration" /\ ~ dec.cut /\ dec \in Pieces /\ w[1] = dec
    <3>1. w[1] = dec
      BY <1>11 DEF IsText
    <3>2. dec.kind = "declaration" /\ ~ dec.cut
      BY PieceFields
    <3> HIDE DEF dec
    <3> QED
      BY <1>1, <2>1, <3>1, <3>2, ElementOfSeq
  <2> HIDE DEF dec
  <2>3. Agrees(t, 1, dec)
    <3>1. 0 + 1 <= Len(t)
      BY <1>1, <2>1
    <3>2. Agrees(t, 0 + 1, w[1])
      BY <2>1, <3>1 DEF Follows
    <3> QED
      BY <2>1, <2>2, <3>2
  <2>4. t[1].kind = "declaration"
    BY <2>2, <2>3, AgreedKind
  <2>5. SkipWhiteSpace(t, 1) = m + 1
    <3>1. t[1].kind # "space"
      BY <2>4
    <3>2. SkipWhiteSpace(t, 1) = 1
      BY <2>1, <3>1, SkipIs
    <3> QED
      BY <2>1, <3>2
  <2>6. Readable(t, 1) /\ Is(t, 1, "declaration") /\ ~ Is(t, 1, "open")
    <3>1. Readable(t, 1)
      BY <2>1, SkipIs
    <3> QED
      BY <2>4, <3>1 DEF Is
  <2>7. t[1].cut => KnownAt(t, m, q, Unknown)
    <3> HAVE t[1].cut
    <3>1. Identify(t, 1) = "unknown"
      BY <2>6 DEF Identify
    <3>2. NodeParse(t, ReadValue(t), 1) = Parsed(1 + 1, [type |-> "unknown"], FALSE)
      BY <3>1 DEF NodeParse
    <3> QED
      BY <2>1, <3>2 DEF KnownAt, NodeAt, Unknown
  <2>8. ~ t[1].cut => KnownAt(t, m, q, D)
    <3> HAVE ~ t[1].cut
    <3>1. Identify(t, 1) = "declaration"
      BY <2>6 DEF Identify
    <3>2. NodeParse(t, ReadValue(t), 1) = Parsed(1 + 1, [type |-> "declaration"], FALSE)
      BY <3>1 DEF NodeParse
    <3> QED
      BY <2>1, <3>2 DEF KnownAt, NodeAt
  <2>9. D.type # "element" /\ Unknown.type # "element"
    BY DEF Unknown
  <2>10. ASSUME NEW x, x.type # "element", KnownAt(t, m, q, x), NEW c
         PROVE  /\ Fine(t, q, c) => Fine(t, 1, <<x>> \o c)
                /\ Wrong(t, q, c) => Wrong(t, 1, <<x>> \o c)
    <3> HIDE DEF m, q
    <3> QED
      BY <2>1, <2>5, <2>10, LinkedFine
  <2>11. \A x, y : <<x>> \o <<y>> = <<x, y>> /\ <<x>> \o <<>> = <<x>>
    <3> TAKE x, y
    <3>1. <<x>> \o <<y>> = <<x, y>>
      <4> DEFINE S == {x, y}
                 a == <<x>>
                 b == <<y>>
                 both == <<x, y>>
                 e == a \o b
      <4>1. /\ a \in Seq(S) /\ Len(a) = 1 /\ a[1] = x /\ b \in Seq(S) /\ Len(b) = 1 /\ b[1] = y
            /\ both \in Seq(S) /\ Len(both) = 2 /\ both[1] = x /\ both[2] = y
        OBVIOUS
      <4> HIDE DEF S, a, b, both
      <4>2. e \in Seq(S) /\ Len(e) = Len(a) + Len(b) /\ Lies(e, 0, a) /\ Lies(e, Len(a), b)
        BY <4>1, LiesFirst
      <4> HIDE DEF e
      <4>3. Len(e) = 2 /\ 1 \in 1 .. Len(a) /\ 1 \in 1 .. Len(b) /\ 0 + 1 = 1 /\ Len(a) + 1 = 2
        BY <4>1, <4>2
      <4>4. e[0 + 1] = a[1] /\ e[Len(a) + 1] = b[1]
        BY <4>2, <4>3 DEF Lies
      <4>5. e[1] = both[1] /\ e[2] = both[2]
        BY <4>1, <4>3, <4>4
      <4>6. \A k \in 1 .. Len(e) : e[k] = both[k]
        BY <4>3, <4>5
      <4>7. e = both
        BY <4>1, <4>2, <4>3, <4>6, SeqEqual
      <4> QED
        BY <4>7 DEF e, a, b, both
    <3>2. <<x>> \o <<>> = <<x>>
      <4> DEFINE S == {x}
                 s == <<x>>
      <4>1. s \in Seq(S)
        OBVIOUS
      <4> HIDE DEF s, S
      <4>2. s \o <<>> = s
        BY <4>1, ConcatEmptySeq
      <4> QED
        BY <4>2 DEF s
    <3> QED
      BY <3>1, <3>2
  <2>12. \E x : x.type # "element" /\ KnownAt(t, m, q, x) /\ (L # 1 => x = D)
    <3>1. L # 1 => ~ t[1].cut
      <4>1. L # 1 => t[1] = dec
        BY <2>2, <2>3, AgreedPiece
      <4> QED
        BY <2>2, <4>1
    <3>2. CASE t[1].cut
      BY <2>7, <2>9, <3>1, <3>2
    <3>3. CASE ~ t[1].cut
      BY <2>8, <2>9, <3>3
    <3> QED
      BY <3>2, <3>3
  <2> HIDE DEF D
  <2>13. PICK x : x.type # "element" /\ KnownAt(t, m, q, x)
    BY <2>12
  <2>14. q \in 1 .. L => t[q].kind = "space"
    <3> HAVE q \in 1 .. L
    <3>1. w[2] = Space
      BY <1>11 DEF IsText
    <3> DEFINE s == Space
    <3>2. w[q] = s /\ q \in 1 .. Len(w) /\ q = 0 + q /\ q <= L
      BY <1>1, <2>1, <3>1
    <3> HIDE DEF s, q
    <3>3. t[q].kind = s.kind
      BY <1>1, <3>2, KindAt
    <3> QED
      BY <3>3, PieceFields DEF s
  <2>15. CASE L <= 2
    <3>1. q \in 1 .. L => q = L
      <4> HAVE q \in 1 .. L
      <4>1. q = 2 /\ L \in Nat /\ L <= 2
        BY <1>1, <2>15
      <4> HIDE DEF q, L
      <4>2. q <= L
        BY <4>1
      <4> QED
        BY <4>1, <4>2
    <3>2. Fine(t, q, <<>>)
      <4> HIDE DEF q
      <4> QED
        BY <2>1, <2>14, <3>1, DocumentEnds
    <3>3. Fine(t, 1, <<x>> \o <<>>)
      BY <2>10, <2>13, <3>2
    <3>4. Fine(t, 1, <<x>>) /\ Elements(<<x>>) = <<>>
      BY <2>11, <2>13, <3>3, FewElements
    <3>5. RootsFine(t, <<>>)
      BY <1>2, <3>4
    <3> QED
      BY <1>11, <2>15, <3>5
  <2>16. CASE 2 < L
    <3>1. pre < L /\ q \in 1 .. L /\ q + 1 = pre + 1
      BY <1>11, <2>16
    <3>2. d.root
      BY <1>5, <3>1
    <3>3. SkipWhiteSpace(t, q) = pre + 1
      <4>1. SkipWhiteSpace(t, q) = q + 1
        <5> HIDE DEF q
        <5> QED
          BY <2>1, <2>14, <3>1, SkipIs
      <4> QED
        BY <3>1, <4>1
    <3>4. \A y : Elements(<<x, y>>) = Elements(<<y>>)
      BY <2>13, FewElements
    <3>5. ASSUME NEW y, Fine(t, q, <<y>>) PROVE RootsFine(t, Elements(<<y>>))
      <4>1. Fine(t, 1, <<x, y>>)
        BY <2>10, <2>11, <2>13, <3>5
      <4> QED
        BY <1>2, <3>4, <4>1
    <3>6. ASSUME NEW y, Wrong(t, q, <<y>>) PROVE RootsWrong(t, Elements(<<y>>))
      <4>1. Wrong(t, 1, <<x, y>>)
        BY <2>10, <2>11, <2>13, <3>6
      <4> QED
        BY <1>2, <3>4, <4>1
    <3> HIDE DEF q
    <3> QED
      BY <2>1, <3>1, <3>2, <3>3, <3>5, <3>6
  <2> QED
    BY <1>1, <2>15, <2>16
<1> QED
  BY <1>1, <1>9, <1>10, <1>11

\* What is left of a text follows it.
LEMMA BeginningsFollow ==
    ASSUME NEW w \in Seq(Pieces)
    PROVE  /\ \A t \in Beginnings(w) : t \in Seq(Pieces) /\ Len(t) <= Len(w) /\ Follows(t, 0, w)
           /\ w \in Beginnings(w) /\ \A k \in 0 .. Len(w) : SubSeq(w, 1, k) \in Beginnings(w)
           /\ Follows(w, 0, w)
<1> DEFINE n == Len(w)
           I == 0 .. n
           f(k) == SubSeq(w, 1, k)
           H == {j \in DOMAIN w : w[j].kind \notin {"space", "slash", "gt"}}
           g(k, x) == Append(SubSeq(w, 1, k - 1), x)
<1>1. n \in Nat /\ DOMAIN w = 1 .. n /\ n \in I
  BY LenProperties
<1>2. Beginnings(w) = {f(k) : k \in I} \cup UNION {{g(k, x) : x \in CutPiece(w[k])} : k \in H}
  BY DEF Beginnings
<1>3. \A k \in I : f(k) \in Beginnings(w)
  <2> HIDE DEF f, g, H, I
  <2> QED
    BY <1>2
<1>4. w \in Beginnings(w)
  <2>1. f(n) = w
    BY SubSeqFull
  <2> HIDE DEF f, I
  <2> QED
    BY <1>1, <1>3, <2>1
<1>5. Follows(w, 0, w)
  <2>1. \A k \in 1 .. Len(w) : 0 + k = k
    OBVIOUS
  <2> QED
    BY <2>1 DEF Follows, Agrees
<1>6. ASSUME NEW k \in I
      PROVE  f(k) \in Seq(Pieces) /\ Len(f(k)) <= n /\ Follows(f(k), 0, w)
  <2> DEFINE p == Part(w, k)
  <2>1. p \in Seq(Pieces) /\ Len(p) = k /\ k \in Nat /\ k <= n /\ \A i \in 1 .. k : p[i] = w[i]
    BY <1>1, PartIs
  <2>2. f(k) = p
    BY DEF Part
  <2> HIDE DEF p, f
  <2>3. ASSUME NEW i \in 1 .. n, 0 + i <= k PROVE Agrees(p, 0 + i, w[i])
    <3>1. 0 + i = i /\ i \in 1 .. k
      BY <2>1, <2>3
    <3> QED
      BY <2>1, <3>1 DEF Agrees
  <2>4. Follows(p, 0, w)
    BY <2>1, <2>3 DEF Follows
  <2> QED
    BY <2>1, <2>2, <2>4
<1>7. ASSUME NEW k \in H, NEW x \in CutPiece(w[k])
      PROVE  g(k, x) \in Seq(Pieces) /\ Len(g(k, x)) <= n /\ Follows(g(k, x), 0, w)
  <2> DEFINE K == k - 1
             p == Part(w, K) \o <<x>>
             z == w[k]
  <2>1. k \in 1 .. n /\ K \in 0 .. n /\ K + 1 = k /\ k \in Nat /\ k <= n
    BY <1>1
  <2>2. z.kind \notin Uncuttable
    BY DEF Uncuttable
  <2>3. z \in Pieces /\ x \in CutPiece(z)
    BY <2>1, ElementOfSeq
  <2> HIDE DEF z
  <2>4. x \in Pieces
    BY <2>3, CutPieces
  <2> HIDE DEF K
  <2>5. /\ p \in Seq(Pieces) /\ Len(p) = K + 1
        /\ \A i \in 1 .. K : p[i] = w[i]
        /\ p[K + 1] = x
        /\ p = Append(Part(w, K), x)
    BY <2>1, <2>4, PartThen
  <2>6. g(k, x) = p
    BY <2>5 DEF Part, K
  <2> HIDE DEF p, g
  <2>7. ASSUME NEW i \in 1 .. n, 0 + i <= k PROVE Agrees(p, 0 + i, w[i])
    <3>1. 0 + i = i
      OBVIOUS
    <3>2. CASE i = k
      <4>1. p[i] \in CutPiece(w[i]) /\ i = Len(p) /\ w[i].kind \notin Uncuttable
        BY <2>1, <2>2, <2>3, <2>5, <3>2 DEF z
      <4> QED
        BY <3>1, <4>1 DEF Agrees
    <3>3. CASE i # k
      <4>1. i \in 1 .. K
        BY <2>1, <2>7, <3>3
      <4> QED
        BY <2>5, <3>1, <4>1 DEF Agrees
    <3> QED
      BY <3>2, <3>3
  <2>8. Follows(p, 0, w)
    BY <2>1, <2>5, <2>7 DEF Follows
  <2> QED
    BY <2>1, <2>5, <2>6, <2>8
<1>8. ASSUME NEW t \in Beginnings(w) PROVE t \in Seq(Pieces) /\ Len(t) <= n /\ Follows(t, 0, w)
  <2> HIDE DEF f, g, H, I, n
  <2>1. (\E k \in I : t = f(k)) \/ \E k \in H : \E x \in CutPiece(w[k]) : t = g(k, x)
    BY <1>2
  <2> QED
    BY <1>6, <1>7, <2>1
<1> QED
  BY <1>3, <1>4, <1>5, <1>8

\* The documents that are saved.
IsGood(d) ==
    /\ d.configs \in Seq(GoodConfigs)
    /\ d.root \in BOOLEAN
    /\ ~ d.root => d = EmptyDocument
    /\ d.root => d = [root |-> TRUE, configs |-> d.configs, whole |-> TRUE]

\* What can be left of a document.
LEMMA CutsAre ==
    ASSUME NEW d, IsGood(d)
    PROVE  /\ EmptyDocument \in Cuts(d) /\ d \in Cuts(d)
           /\ d.root => \A cs \in CutConfigs(d.configs) :
                  [root |-> TRUE, configs |-> cs, whole |-> FALSE] \in Cuts(d)
           /\ \A z \in Cuts(d) :
                  \/ z = EmptyDocument \/ z = d
                  \/ d.root /\ \E cs \in CutConfigs(d.configs) : z = [root |-> TRUE, configs |-> cs, whole |-> FALSE]
<1> DEFINE h(cs) == [root |-> TRUE, configs |-> cs, whole |-> FALSE]
           C == IF d.root THEN CutConfigs(d.configs) ELSE {}
<1>1. Cuts(d) = {EmptyDocument, d} \cup {h(cs) : cs \in C}
  BY DEF Cuts
<1>2. d.root => C = CutConfigs(d.configs)
  OBVIOUS
<1>3. ~ d.root => C = {}
  OBVIOUS
<1> HIDE DEF h, C
<1>4. EmptyDocument \in Cuts(d) /\ d \in Cuts(d) /\ (d.root => \A cs \in CutConfigs(d.configs) : h(cs) \in Cuts(d))
  BY <1>1, <1>2
<1>5. \A z \in Cuts(d) : \/ z = EmptyDocument \/ z = d
                         \/ d.root /\ \E cs \in CutConfigs(d.configs) : z = h(cs)
  BY <1>1, <1>2, <1>3
<1> QED
  BY <1>4, <1>5 DEF h

\* What is loaded from a text that follows what was printed.
LEMMA TextReads ==
    ASSUME NEW w, NEW d, NEW pre, IsGood(d), IsText(w, d, pre),
           NEW t \in Seq(Pieces), Follows(t, 0, w), Len(t) <= Len(w)
    PROVE  /\ Read(t) \in Cuts(d)
           /\ Len(t) = Len(w) => Read(t) = d
           /\ Len(t) <= pre => Read(t) = EmptyDocument
<1> DEFINE L == Len(t)
           r == RootPrint(d)
           R == RootNode(d.configs)
           P == RootParts(d.configs)
<1>1. w \in Seq(Pieces) /\ L \in Nat /\ Len(w) \in Nat /\ pre \in Nat
  BY LenProperties DEF IsText
<1>2. r \in Seq(Pieces) /\ Opens(r) /\ ReadsWhole(r, R) /\ ReadsCut(r, P) /\ Len(r) \in Nat
  BY RootReads, LenProperties DEF IsGood
<1>3. /\ ConfigsSeen(R.children) = d.configs /\ R.type = "element"
      /\ \A y \in P : ConfigsSeen(y.children) \in CutConfigs(d.configs) /\ y.type = "element"
  <2> DEFINE cs == d.configs
  <2>1. cs \in Seq(GoodConfigs)
    BY DEF IsGood
  <2> HIDE DEF cs
  <2>2. /\ ConfigsSeen(RootNode(cs).children) = cs /\ RootNode(cs).type = "element"
        /\ \A y \in RootParts(cs) : ConfigsSeen(y.children) \in CutConfigs(cs) /\ y.type = "element"
    BY <2>1, RootIsSeen
  <2> QED
    BY <2>2 DEF cs
<1>4. /\ EmptyDocument \in Cuts(d) /\ d \in Cuts(d)
      /\ d.root => \A cs \in CutConfigs(d.configs) :
             [root |-> TRUE, configs |-> cs, whole |-> FALSE] \in Cuts(d)
  BY CutsAre
<1>5. d.root => Len(w) = pre + Len(r) + 1 /\ w[Len(w)] = Space /\ Lies(w, pre, r)
  BY DEF IsText
<1>6. ~ d.root => d = EmptyDocument
  BY DEF IsGood
<1>7. d.root => d = [root |-> TRUE, configs |-> d.configs, whole |-> TRUE]
  BY DEF IsGood
<1>8. \/ L <= pre /\ RootsFine(t, <<>>)
      \/ /\ d.root /\ pre < L
         /\ \E at \in 0 .. L + 1 :
                /\ SkipWhiteSpace(t, at) = pre + 1
                /\ \A x : Fine(t, at, <<x>>) => RootsFine(t, Elements(<<x>>))
                /\ \A x : Wrong(t, at, <<x>>) => RootsWrong(t, Elements(<<x>>))
  BY <1>2, Started
<1>9. RootsFine(t, <<>>) => Read(t) = EmptyDocument
  BY SeenIs
<1>10. CASE L <= pre /\ RootsFine(t, <<>>)
  <2>1. Read(t) = EmptyDocument
    BY <1>9, <1>10
  <2>2. L = Len(w) => d = EmptyDocument
    <3>1. L = Len(w) => ~ d.root
      BY <1>1, <1>2, <1>5, <1>10
    <3> QED
      BY <1>6, <3>1
  <2> QED
    BY <1>4, <2>1, <2>2
<1>11. CASE /\ d.root /\ pre < L
            /\ \E at \in 0 .. L + 1 :
                   /\ SkipWhiteSpace(t, at) = pre + 1
                   /\ \A x : Fine(t, at, <<x>>) => RootsFine(t, Elements(<<x>>))
                   /\ \A x : Wrong(t, at, <<x>>) => RootsWrong(t, Elements(<<x>>))
  <2>1. PICK at \in 0 .. L + 1 :
            /\ SkipWhiteSpace(t, at) = pre + 1
            /\ \A x : Fine(t, at, <<x>>) => RootsFine(t, Elements(<<x>>))
            /\ \A x : Wrong(t, at, <<x>>) => RootsWrong(t, Elements(<<x>>))
    BY <1>11
  <2>2. d.root /\ pre < L
    BY <1>11
  <2>3. Follows(t, pre, r)
    <3>1. Follows(t, 0 + pre, r)
      BY <1>1, <1>2, <1>5, <2>2, FollowsPart
    <3>2. 0 + pre = pre
      BY <1>1
    <3> QED
      BY <3>1, <3>2
  <2>4. L <= pre + Len(r) + 1
    BY <1>5, <2>2
  <2>5. L = pre + Len(r) + 1 => t[L].kind = "space"
    <3> HAVE L = pre + Len(r) + 1
    <3> DEFINE s == Space
               i == L
    <3>1. i \in 1 .. Len(w) /\ w[i] = s /\ i = 0 + i /\ i <= L
      BY <1>1, <1>5, <2>2
    <3> HIDE DEF s, i
    <3>2. t[i].kind = s.kind
      BY <1>1, <3>1, KindAt
    <3> QED
      BY <3>2, PieceFields DEF s, i
  <2> HIDE DEF r, R, P
  <2>6. IF pre + Len(r) <= L THEN Fine(t, at, <<R>>)
        ELSE Fine(t, at, <<Unknown>>) \/ \E y \in P : Wrong(t, at, <<y>>)
    BY <1>1, <1>2, <2>1, <2>2, <2>3, <2>4, <2>5, RootMet
  <2>7. CASE Fine(t, at, <<R>>) /\ pre + Len(r) <= L
    <3>1. RootsFine(t, <<R>>)
      <4>1. Elements(<<R>>) = <<R>>
        BY <1>3, FewElements
      <4> QED
        BY <2>1, <2>7, <4>1
    <3>2. Read(t) = [root |-> TRUE, configs |-> ConfigsSeen(R.children), whole |-> TRUE]
      BY <3>1, SeenIs
    <3>3. Read(t) = d
      BY <1>3, <1>7, <2>2, <3>2, Zenon
    <3>4. ~ (L <= pre)
      BY <1>1, <2>2
    <3> QED
      BY <1>4, <3>3, <3>4
  <2>8. ASSUME ~ (pre + Len(r) <= L) PROVE L # Len(w) /\ ~ (L <= pre)
    BY <1>1, <1>2, <1>5, <2>2, <2>8
  <2>9. CASE Fine(t, at, <<Unknown>>) /\ ~ (pre + Len(r) <= L)
    <3>1. RootsFine(t, <<>>)
      <4>1. Elements(<<Unknown>>) = <<>>
        <5>1. Unknown.type # "element"
          BY DEF Unknown
        <5> QED
          BY <5>1, FewElements
      <4> QED
        BY <2>1, <2>9, <4>1
    <3> QED
      BY <1>4, <1>9, <2>8, <2>9, <3>1
  <2>10. CASE (\E y \in P : Wrong(t, at, <<y>>)) /\ ~ (pre + Len(r) <= L)
    <3>1. PICK y \in P : Wrong(t, at, <<y>>)
      BY <2>10
    <3>2. RootsWrong(t, <<y>>)
      <4>1. Elements(<<y>>) = <<y>>
        BY <1>3, FewElements
      <4> QED
        BY <2>1, <3>1, <4>1
    <3>3. Read(t) = [root |-> TRUE, configs |-> ConfigsSeen(y.children), whole |-> FALSE]
      BY <3>2, SeenIs
    <3>4. ConfigsSeen(y.children) \in CutConfigs(d.configs)
      BY <1>3
    <3>5. Read(t) \in Cuts(d)
      BY <1>4, <2>2, <3>3, <3>4
    <3> QED
      BY <2>8, <2>10, <3>5
  <2> QED
    BY <2>6, <2>7, <2>9, <2>10
<1> QED
  BY <1>8, <1>10, <1>11

\* t ends with the first j pieces of w, which lie behind m others, ...
Starts(t, m, w, j) == Len(t) = m + j /\ \A i \in 1 .. j : t[m + i] = w[i]
\* ... and w is read as a broken y when it is cut there.
GivesAt(w, y, j) == \A t \in Seq(Pieces), m \in Nat : Starts(t, m, w, j) => BrokenAt(t, m, y)
Gives(w, y) == \E j \in 1 .. Len(w) - 1 : GivesAt(w, y, j)

\* A text that starts a print has begun it.
LEMMA StartsBegun ==
    ASSUME NEW w, NEW name, NEW attributes, NEW children, NEW place,
           PrintOf(w, name, attributes, children, place),
           NEW j \in 1 .. Len(w), NEW t \in Seq(Pieces), NEW m \in Nat, Starts(t, m, w, j)
    PROVE  Begun(t, m, w, name, attributes, children, place) /\ t[m + 1] = w[1]
<1>1. w \in Seq(Pieces) /\ Len(w) \in Nat /\ j \in Nat
  <2>1. w \in Seq(Pieces)
    BY DEF PrintOf, IsLayout
  <2>2. Len(w) \in Nat
    BY <2>1, LenProperties
  <2> QED
    BY <2>1, <2>2
<1>2. Len(t) = m + j /\ \A i \in 1 .. j : t[m + i] = w[i]
  BY DEF Starts
<1>3. m < Len(t) /\ 1 \in 1 .. j
  BY <1>1, <1>2
<1>4. ASSUME NEW k \in 1 .. Len(w), m + k <= Len(t) PROVE Agrees(t, m + k, w[k])
  <2>1. k \in 1 .. j
    <3> DEFINE L == Len(t)
    <3>1. L = m + j /\ m + k <= L /\ k \in Nat /\ k >= 1
      BY <1>1, <1>2, <1>4
    <3> HIDE DEF L
    <3> QED
      BY <1>1, <3>1
  <2> QED
    BY <1>2, <2>1 DEF Agrees
<1>5. Follows(t, m, w)
  BY <1>4 DEF Follows
<1> QED
  BY <1>2, <1>3, <1>5 DEF Begun, PrintOf

\* The tag is cut behind the j-th attribute.
LEMMA GivesAttributes ==
    ASSUME NEW w, NEW name, NEW attributes, NEW children, NEW place,
           PrintOf(w, name, attributes, children, place),
           NEW j \in 0 .. Len(attributes), j < Len(attributes) \/ Len(children) = 0
    PROVE  Gives(w, Element(name, Part(attributes, j), <<>>))
<1> DEFINE A == Len(attributes)
           l == Len(w)
           J == 2 * j + 2
           y == Element(name, Part(attributes, j), <<>>)
           s == Stop(attributes, children)
<1>1. l \in Nat /\ A \in Nat /\ j \in Nat /\ j <= A
  <2>1. w \in Seq(Pieces) /\ attributes \in Seq([name : Words, value : AttributeValues])
    BY DEF PrintOf, IsLayout, AttributeLists
  <2>2. l \in Nat /\ A \in Nat
    BY <2>1, LenProperties
  <2> HIDE DEF A
  <2> QED
    BY <2>2 DEF A
<1>2. J < l
  <2>1. CASE Len(children) = 0
    <3>1. l = 2 * A + 4
      BY <2>1 DEF PrintOf, IsLayout
    <3> HIDE DEF l, A
    <3> QED
      BY <1>1, <3>1
  <2>2. CASE Len(children) # 0
    <3>1. /\ place \in [0 .. Len(children) -> Nat] /\ place[0] = 2 * A + 2 /\ l = place[Len(children)] + 3
          /\ \A k \in 1 .. Len(children) : place[k] = place[k - 1] + 1 + Len(children[k]) 
          /\ children \in Seq(Seq(Pieces))
      BY <2>2 DEF PrintOf, IsLayout
    <3> DEFINE n == Len(children)
               T == {k \in Nat : k <= n => place[k] >= 2 * A + 2}
    <3>2. n \in Nat
      BY <3>1, LenProperties
    <3>3. \A k \in 1 .. n : Len(children[k]) \in Nat
      BY <3>1, ElementOfSeq, LenProperties
    <3>4. 0 \in T
      BY <1>1, <3>1
    <3>5. ASSUME NEW k \in Nat, k \in T PROVE k + 1 \in T
      <4>1. CASE k + 1 <= n
        <5> DEFINE i == k + 1
                   a == place[i]
                   b == place[i - 1]
                   c == Len(children[i])
        <5>1. i \in 1 .. n /\ i \in 0 .. n /\ i - 1 \in 0 .. n /\ i - 1 = k /\ k <= n
          BY <3>2, <4>1
        <5> HIDE DEF i
        <5>2. a \in Nat /\ b \in Nat /\ c \in Nat /\ a = b + 1 + c
          BY <3>1, <3>3, <5>1
        <5>3. b >= 2 * A + 2
          BY <3>5, <5>1
        <5> HIDE DEF a, b, c, A
        <5>4. a >= 2 * A + 2
          BY <1>1, <5>2, <5>3
        <5> QED
          BY <5>4 DEF a, i, A
      <4> QED
        BY <4>1
    <3>6. \A k \in Nat : k \in T
      <4> HIDE DEF T
      <4> QED
        BY <3>4, <3>5, NatAll
    <3>7. place[n] >= 2 * A + 2
      BY <3>2, <3>6
    <3> DEFINE a == place[n]
    <3>8. a \in Nat /\ l = a + 3 /\ a >= 2 * A + 2
      BY <3>1, <3>2, <3>7
    <3> HIDE DEF a, l, A, n
    <3> QED
      BY <1>1, <3>8
  <2> QED
    BY <2>1, <2>2
<1>3. J \in 1 .. l - 1 /\ J \in 1 .. l
  <2> HIDE DEF l, A
  <2> QED
    BY <1>1, <1>2
<1>4. ASSUME NEW t \in Seq(Pieces), NEW m \in Nat, Starts(t, m, w, J) PROVE BrokenAt(t, m, y)
  <2>1. Begun(t, m, w, name, attributes, children, place) /\ t[m + 1] = w[1]
    <3> HIDE DEF J
    <3> QED
      BY <1>3, <1>4, StartsBegun
  <2> DEFINE L == Len(t)
  <2>2. L = m + J
    BY <1>4 DEF Starts
  <2>3. s = 2 * A + (IF Len(children) = 0 THEN 3 ELSE 2) /\ s \in Nat
    BY <2>1, BegunIs
  <2>4. ~ (m + s <= L) /\ j \in 0 .. A /\ (j < A => L <= m + (2 * j + 3)) /\ \A i \in 1 .. j : m + (2 * i + 1) < L
    <3>1. j < A \/ Len(children) = 0
      OBVIOUS
    <3> HIDE DEF s, A, L, l
    <3> QED
      BY <1>1, <2>2, <2>3, <3>1
  <2>5. ~ TagEnds(t, m, attributes, children)
    BY <2>4 DEF TagEnds
  <2>6. LastRead(t, m, attributes, children, j)
    BY <2>4, <2>5 DEF LastRead, Followed
  <2> QED
    BY <2>1, <2>5, <2>6, TagCut
<1>5. GivesAt(w, y, J)
  <2> HIDE DEF y, J
  <2> QED
    BY <1>4 DEF GivesAt
<1> QED
  BY <1>3, <1>5 DEF Gives

\* The text ends behind the K-th child.
LEMMA GivesChildren ==
    ASSUME NEW w, NEW name, NEW attributes, NEW children, NEW place,
           PrintOf(w, name, attributes, children, place), Len(children) # 0,
           NEW N, NEW nodes, Kids(children, nodes, N), NEW K \in 0 .. Len(children)
    PROVE  Gives(w, Element(name, attributes, Part(nodes, K)))
<1> DEFINE n == Len(children)
           l == Len(w)
           J == place[K]
           y == Element(name, attributes, Part(nodes, K))
<1>0. w \in Seq(Pieces) /\ l \in Nat /\ n \in Nat /\ 1 \in 1 .. l
  <2>1. w \in Seq(Pieces) /\ l \in Nat /\ Opens(w)
    BY PrintOpens
  <2>2. n \in Nat
    BY LenProperties DEF PrintOf
  <2>3. 1 <= l
    BY <2>1 DEF Opens
  <2> QED
    BY <2>1, <2>2, <2>3
<1>1. Begun(w, 0, w, name, attributes, children, place)
  <2>1. Starts(w, 0, w, l)
    BY <1>0 DEF Starts
  <2>2. l \in 1 .. Len(w) /\ 0 \in Nat
    BY <1>0
  <2> HIDE DEF l
  <2> QED
    BY <1>0, <2>1, <2>2, StartsBegun
<1>2. /\ place \in [0 .. n -> Nat] /\ place[0] = Stop(attributes, children) /\ l = place[n] + 3
      /\ \A i, k \in 0 .. n : i <= k => place[i] <= place[k]
  BY <1>1, PlacesAre, PlacesGrow
<1>3. Stop(attributes, children) \in 1 .. l
  BY <1>1, BegunIs
<1>4. J \in 1 .. l - 1 /\ J \in 1 .. l /\ place[0] <= J /\ place[0] \in Nat /\ J \in Nat
  <2>1. 0 \in 0 .. n /\ n \in 0 .. n /\ 0 <= K /\ K <= n /\ K \in 0 .. n
    BY <1>0
  <2>2. place[0] <= J /\ J <= place[n]
    BY <1>2, <2>1
  <2> DEFINE a == place[0]
             b == place[n]
  <2>3. a \in Nat /\ b \in Nat /\ J \in Nat /\ a <= J /\ J <= b /\ l = b + 3 /\ a >= 1
    BY <1>2, <1>3, <2>1, <2>2
  <2> HIDE DEF a, b, J, l
  <2>4. J \in 1 .. l - 1 /\ J \in 1 .. l /\ a <= J
    BY <1>0, <2>3
  <2> QED
    BY <2>3, <2>4 DEF a
<1>5. ASSUME NEW t \in Seq(Pieces), NEW m \in Nat, Starts(t, m, w, J) PROVE BrokenAt(t, m, y)
  <2>1. Begun(t, m, w, name, attributes, children, place)
    <3> HIDE DEF J
    <3> QED
      BY <1>4, <1>5, StartsBegun
  <2> DEFINE L == Len(t)
             at == m + (place[K] + 1)
             a == place[0]
  <2>2. L = m + J /\ L \in Nat
    BY <1>5, LenProperties DEF Starts
  <2>3. at = L + 1 /\ at \in Nat /\ m + J <= L /\ m + a <= L
    <3>1. at = m + (J + 1)
      OBVIOUS
    <3> HIDE DEF L, J, at, a
    <3> QED
      BY <1>4, <2>2, <3>1 DEF a
  <2>4. TagEnds(t, m, attributes, children)
    BY <1>2, <2>3 DEF TagEnds
  <2>5. InsideBreaks(t, at, <<>>)
    <3> HIDE DEF at
    <3>1. FailsAt(t, at)
      BY <2>3, NothingLeft
    <3> QED
      BY <3>1 DEF FailsAt, InsideBreaks
  <2>6. <<>> \in Seq(N)
    BY EmptySeq
  <2>7. InsideBreaks(t, m + (place[0] + 1), Part(nodes, K) \o <<>>)
    BY <2>1, <2>3, <2>5, <2>6, ChildrenBreak
  <2>8. BrokenAt(t, m, Element(name, attributes, Part(nodes, K) \o <<>>))
    BY <2>1, <2>4, <2>7, BrokenInside
  <2>9. Part(nodes, K) \o <<>> = Part(nodes, K)
    <3>1. nodes \in Seq(N) /\ K \in 0 .. Len(nodes)
      BY DEF Kids
    <3>2. Part(nodes, K) \in Seq(N)
      BY <3>1, PartIs
    <3> QED
      BY <3>2, ConcatEmptySeq
  <2> QED
    BY <2>8, <2>9
<1>6. GivesAt(w, y, J)
  <2> HIDE DEF y, J
  <2> QED
    BY <1>5 DEF GivesAt
<1> QED
  BY <1>4, <1>6 DEF Gives

\* The text ends within the k-th child.
LEMMA GivesChild ==
    ASSUME NEW w, NEW name, NEW attributes, NEW children, NEW place,
           PrintOf(w, name, attributes, children, place), Len(children) # 0,
           NEW N, NEW nodes, Kids(children, nodes, N), NEW k \in 1 .. Len(children),
           NEW x \in N, Gives(children[k], x)
    PROVE  Gives(w, Element(name, attributes, Part(nodes, k - 1) \o <<x>>))
<1> DEFINE n == Len(children)
           l == Len(w)
           K == k - 1
           v == children[k]
           b == place[K] + 1
           y == Element(name, attributes, Part(nodes, k - 1) \o <<x>>)
<1>0. w \in Seq(Pieces) /\ l \in Nat /\ n \in Nat /\ 1 \in 1 .. l
  <2>1. w \in Seq(Pieces) /\ l \in Nat /\ Opens(w)
    BY PrintOpens
  <2>2. n \in Nat
    BY LenProperties DEF PrintOf
  <2>3. 1 <= l
    BY <2>1 DEF Opens
  <2> QED
    BY <2>1, <2>2, <2>3
<1>1. Begun(w, 0, w, name, attributes, children, place)
  <2>1. Starts(w, 0, w, l)
    BY <1>0 DEF Starts
  <2>2. l \in 1 .. Len(w) /\ 0 \in Nat
    BY <1>0
  <2> HIDE DEF l
  <2> QED
    BY <1>0, <2>1, <2>2, StartsBegun
<1>2. /\ place \in [0 .. n -> Nat] /\ place[0] = Stop(attributes, children)
      /\ \A i, j \in 0 .. n : i <= j => place[i] <= place[j]
      /\ v \in Seq(Pieces) /\ Len(v) \in Nat /\ Lies(w, place[k - 1] + 1, v)
  BY <1>1, PlacesAre, PlacesGrow
<1>3. Opens(v)
  BY DEF Kids
<1>4. PICK j \in 1 .. Len(v) - 1 : GivesAt(v, x, j)
  BY DEF Gives
<1> DEFINE J == b + j
<1>5. K \in 0 .. n /\ 0 \in 0 .. n /\ 0 <= K /\ K = k - 1 /\ place[K] \in Nat /\ b \in Nat /\ place[0] \in Nat
      /\ place[0] <= place[K]
  <2>1. K \in 0 .. n /\ 0 \in 0 .. n /\ 0 <= K
    BY <1>0
  <2> HIDE DEF K
  <2>2. place[K] \in Nat /\ place[0] \in Nat /\ place[0] <= place[K]
    BY <1>2, <2>1
  <2> QED
    BY <2>1, <2>2 DEF K
<1>6. /\ j \in Nat /\ j >= 1 /\ j < Len(v) /\ b + Len(v) <= l /\ b >= 1
      /\ \A i \in 1 .. Len(v) : w[b + i] = v[i]
  <2>1. Lies(w, b, v)
    BY <1>2
  <2> DEFINE c == Len(v)
  <2>2. c \in Nat /\ j \in 1 .. c - 1
    BY <1>2
  <2>3. j \in Nat /\ j >= 1 /\ j < c
    <3> HIDE DEF c
    <3> QED
      BY <2>2
  <2>4. b >= 1
    BY <1>5
  <2> QED
    BY <2>1, <2>3, <2>4 DEF Lies
<1> HIDE DEF b, K
<1>7. J \in 1 .. l - 1 /\ J \in 1 .. l /\ J \in Nat
  <2> DEFINE c == Len(v)
  <2>1. c \in Nat /\ j < c /\ b + c <= l
    BY <1>2, <1>6
  <2> HIDE DEF c, l
  <2> QED
    BY <1>0, <1>5, <1>6, <2>1
<1>8. ASSUME NEW t \in Seq(Pieces), NEW m \in Nat, Starts(t, m, w, J) PROVE BrokenAt(t, m, y)
  <2>1. Begun(t, m, w, name, attributes, children, place)
    <3> HIDE DEF J
    <3> QED
      BY <1>7, <1>8, StartsBegun
  <2> DEFINE L == Len(t)
             at == m + (place[k - 1] + 1)
             value == ReadValue(t)
  <2>2. L = m + J /\ L \in Nat /\ \A i \in 1 .. J : t[m + i] = w[i]
    BY <1>8, LenProperties DEF Starts
  <2>3. at = m + b
    BY DEF b, K
  <2>4. L = at + j /\ at \in Nat /\ at < L
    <3> HIDE DEF L, at
    <3> QED
      BY <1>5, <1>6, <2>2, <2>3
  <2>5. m + place[K] <= L /\ m + place[0] <= L
    <3> DEFINE a == place[K]
               c == place[0]
    <3>1. a \in Nat /\ c \in Nat /\ c <= a /\ b = a + 1
      BY <1>5 DEF b
    <3> HIDE DEF L, a, c
    <3>2. m + a <= L /\ m + c <= L
      BY <1>6, <2>2, <3>1
    <3> QED
      BY <3>2 DEF a, c
  <2>6. Starts(t, at, v, j)
    <3>1. ASSUME NEW i \in 1 .. j PROVE t[at + i] = v[i]
      <4>1. b + i \in 1 .. J /\ at + i = m + (b + i)
        <5> HIDE DEF at
        <5> QED
          BY <1>5, <1>6, <2>3
      <4>2. i \in 1 .. Len(v)
        <5> DEFINE c == Len(v)
        <5>1. c \in Nat /\ j < c
          BY <1>2, <1>6
        <5> HIDE DEF c
        <5>2. i \in 1 .. c
          BY <1>6, <5>1
        <5> QED
          BY <5>2 DEF c
      <4>3. t[m + (b + i)] = w[b + i]
        <5> HIDE DEF J
        <5> QED
          BY <2>2, <4>1
      <4> QED
        BY <1>6, <4>1, <4>2, <4>3
    <3> QED
      BY <2>4, <3>1 DEF Starts
  <2>7. BrokenAt(t, at, x)
    <3> HIDE DEF at
    <3> QED
      BY <1>4, <2>4, <2>6 DEF GivesAt
  <2> HIDE DEF value
  <2>8. InsideBreaks(t, at, <<x>>)
    <3>1. at = m + (place[k - 1] + 1)
      OBVIOUS
    <3> HIDE DEF at
    <3>2. at < Len(t) => ReadValue(t)[at] = WithChild(NodeAt(t, at), ReadValue(t)[NodeAt(t, at).p])
      BY <1>3, <2>1, <3>1, ChildAt
    <3>3. value[at] = WithChild(NodeAt(t, at), value[NodeAt(t, at).p])
      BY <2>4, <3>2 DEF value
    <3>4. FailsAt(t, 0)
      BY NothingLeft
    <3>5. value[0] = Result(0, <<>>, <<>>, TRUE)
      BY <3>4 DEF FailsAt, value
    <3> DEFINE failed == TRUE
    <3>6. NodeAt(t, at) = Parsed(0, x, failed) /\ failed \in BOOLEAN
      BY <2>7 DEF BrokenAt
    <3> HIDE DEF failed
    <3>7. NodeAt(t, at).p = 0
      BY <3>6, ResultFields
    <3>8. value[at] = WithChild(Parsed(0, x, failed), Result(0, <<>>, <<>>, TRUE))
      BY <3>3, <3>5, <3>6, <3>7
    <3>9. value[at] = Result(0, <<>>, <<x>> \o <<>>, TRUE \/ failed)
      BY <3>8 DEF WithChild, Parsed, Result
    <3>10. <<x>> \o <<>> = <<x>>
      BY ConcatEmptySeq
    <3>11. value[at] = Result(0, <<>>, <<x>>, TRUE)
      BY <3>9, <3>10
    <3> QED
      BY <3>11 DEF InsideBreaks, value
  <2>9. <<x>> \in Seq(N)
    BY Three
  <2>10. InsideBreaks(t, m + (place[K] + 1), <<x>>)
    BY <2>8 DEF K
  <2>11. InsideBreaks(t, m + (place[0] + 1), Part(nodes, K) \o <<x>>)
    BY <1>5, <2>1, <2>5, <2>9, <2>10, ChildrenBreak
  <2>12. TagEnds(t, m, attributes, children)
    BY <1>2, <2>5 DEF TagEnds
  <2>13. BrokenAt(t, m, Element(name, attributes, Part(nodes, K) \o <<x>>))
    BY <2>1, <2>11, <2>12, BrokenInside
  <2> QED
    BY <2>13 DEF K
<1>9. GivesAt(w, y, J)
  <2> HIDE DEF y, J
  <2> QED
    BY <1>8 DEF GivesAt
<1> QED
  BY <1>7, <1>9 DEF Gives

\* Whatever can be left of a user is left by a beginning of its print.
LEMMA UserGives ==
    ASSUME NEW u \in GoodUsers, NEW z \in CutUser(u)
    PROVE  \E y \in UserParts(u) : Gives(UserPrint(u), y) /\ UserSeen(y) = z
<1> DEFINE a == UserAttributes(u)
           name == "user"
<1>1. PICK j \in 0 .. Len(a) : UserSeen(Element(name, Part(a, j), <<>>)) = z
  BY UserIsSeen
<1>2. PICK place : PrintOf(UserPrint(u), name, a, <<>>, place)
  BY UserIsPrinted
<1>3. Len(<<>>) = 0
  OBVIOUS
<1>4. Element(name, Part(a, j), <<>>) \in UserParts(u)
  <2>1. UserParts(u) = PartsOf(name, a, <<>>, <<>>)
    BY DEF UserParts
  <2> HIDE DEF name, a
  <2> QED
    BY <2>1, InParts
<1> HIDE DEF name, a
<1>5. Gives(UserPrint(u), Element(name, Part(a, j), <<>>))
  BY <1>2, <1>3, GivesAttributes
<1> QED
  BY <1>1, <1>4, <1>5

\* What the window takes from the element of a configuration.
LEMMA ConfigSeenOf ==
    ASSUME NEW c \in GoodConfigs
    PROVE  /\ \A x : ConfigSeen(Element("Config", ConfigAttributes(c), x)) = [date |-> c.date, users |-> UsersSeen(x)]
           /\ \A j \in 0 .. Len(ConfigAttributes(c)) :
                  ConfigSeen(Element("Config", Part(ConfigAttributes(c), j), <<>>)) =
                      [date |-> IF j = 0 THEN NoDate ELSE c.date, users |-> <<>>]
<1> DEFINE name == "Config"
           a == ConfigAttributes(c)
           nodes == ConfigNodes(c)
           users == c.users
           n == Len(users)
           l == Len(a)
<1>1. users \in Seq(GoodUsers) /\ n \in Nat
  BY GoodConfigsAre
<1>2. a \in AttributeLists /\ l = (IF c.date = NoDate THEN 0 ELSE 1)
  BY ConfigAttributesAre
<1>3. Part(a, l) = a
  BY <1>2, SubSeqFull DEF Part, AttributeLists
<1>4. l \in 0 .. l /\ (l = 0 => c.date = NoDate)
  BY <1>2
<1>5. ASSUME NEW x PROVE ConfigSeen(Element(name, a, x)) = [date |-> c.date, users |-> UsersSeen(x)]
  <2> DEFINE e == Element(name, a, x)
  <2>1. e.attributes = a /\ e.children = x
    BY ElementFields
  <2>2. e.attributes = Part(a, l)
    BY <1>3, <2>1
  <2> HIDE DEF e, l
  <2>3. Value(e, "date", NoDate) = IF l = 0 THEN NoDate ELSE c.date
    BY <1>4, <2>2, ConfigDate DEF l
  <2> HIDE DEF a
  <2>4. Value(e, "date", NoDate) = c.date
    BY <1>4, <2>3
  <2> QED
    BY <2>1, <2>4, ConfigSeenIs DEF e
<1>6. UsersSeen(<<>>) = <<>>
  <2>1. 0 \in 0 .. n /\ <<>> \in {<<>>, <<Unknown>>}
    BY <1>1
  <2>2. UsersSeen(Part(nodes, 0) \o <<>>) = SubSeq(users, 1, 0)
    BY <2>1, UsersMet
  <2>3. SubSeq(users, 1, 0) = <<>> /\ Part(nodes, 0) = <<>>
    <3>1. \A s : \A S : s \in Seq(S) => SubSeq(s, 1, 0) = <<>>
      BY SubSeqEmpty
    <3>2. KidsRead(ConfigKids(c), nodes, ConfigUserParts(c))
      BY ConfigKidsRead
    <3>3. nodes \in Seq(NodesOf(nodes, ConfigUserParts(c)))
      BY <3>2, KidsAreKids
    <3> QED
      BY <1>1, <3>1, <3>3 DEF Part
  <2>4. <<>> \o <<>> = <<>>
    BY ConcatEmptySeq, EmptySeq
  <2> QED
    BY <2>2, <2>3, <2>4
<1>7. ASSUME NEW j \in 0 .. l
      PROVE  ConfigSeen(Element(name, Part(a, j), <<>>)) = [date |-> IF j = 0 THEN NoDate ELSE c.date, users |-> <<>>]
  <2> DEFINE e == Element(name, Part(a, j), <<>>)
  <2>1. e.attributes = Part(a, j) /\ e.children = <<>>
    BY ElementFields
  <2> HIDE DEF e
  <2>2. Value(e, "date", NoDate) = IF j = 0 THEN NoDate ELSE c.date
    BY <2>1, ConfigDate
  <2> QED
    BY <1>6, <2>1, <2>2, ConfigSeenIs DEF e
<1> QED
  BY <1>5, <1>7

\* Whatever CutConfig has is read from a beginning of the text.
LEMMA ConfigGives ==
    ASSUME NEW c \in GoodConfigs, NEW z \in CutConfig(c)
    PROVE  \E y \in ConfigParts(c) : Gives(ConfigPrint(c), y) /\ ConfigSeen(y) = z
<1> DEFINE name == "Config"
           a == ConfigAttributes(c)
           nodes == ConfigNodes(c)
           parts == ConfigUserParts(c)
           children == ConfigKids(c)
           users == c.users
           n == Len(users)
           N == NodesOf(nodes, parts)
           l == Len(a)
           seen(us) == [date |-> c.date, users |-> us]
           w == ConfigPrint(c)
           Q(z0) == \E y \in ConfigParts(c) : Gives(w, y) /\ ConfigSeen(y) = z0
<1>1. /\ users \in Seq(GoodUsers) /\ n \in Nat /\ DOMAIN users = 1 .. n
      /\ \A k \in 1 .. n : users[k] \in GoodUsers
  BY GoodConfigsAre
<1>2. l = (IF c.date = NoDate THEN 0 ELSE 1) /\ l \in Nat
  BY ConfigAttributesAre
<1>3. Len(nodes) = n /\ Len(children) = n /\ KidsRead(children, nodes, parts)
  BY ConfigKidsRead
<1>4. Kids(children, nodes, N) /\ nodes \in Seq(N) /\ \A k \in 1 .. Len(nodes) : \A y \in parts[k] : y \in N
  BY <1>3, KidsAreKids
<1>5. PICK place : PrintOf(w, name, a, children, place)
  BY ConfigIsPrinted
<1>6. CutConfig(c) = {[date |-> NoDate, users |-> <<>>]} \cup {seen(us) : us \in CutUsers(users)}
  BY CutConfigIs
<1>7. ConfigParts(c) = PartsOf(name, a, nodes, parts)
  BY DEF ConfigParts
<1>8. /\ \A K \in 0 .. n, x \in {<<>>, <<Unknown>>} : UsersSeen(Part(nodes, K) \o x) = SubSeq(users, 1, K)
      /\ \A k \in 1 .. n : \A y \in UserParts(users[k]) :
             UsersSeen(Part(nodes, k - 1) \o <<y>>) = Append(SubSeq(users, 1, k - 1), UserSeen(y))
  BY UsersMet
<1>9. /\ \A x : ConfigSeen(Element(name, a, x)) = seen(UsersSeen(x))
      /\ \A j \in 0 .. l : ConfigSeen(Element(name, Part(a, j), <<>>)) =
                               [date |-> IF j = 0 THEN NoDate ELSE c.date, users |-> <<>>]
  BY ConfigSeenOf
<1>10. SubSeq(users, 1, 0) = <<>>
  BY <1>1, SubSeqEmpty
<1>11. \A us \in CutUsers(users) :
           \/ \E K \in 0 .. n : us = SubSeq(users, 1, K)
           \/ \E k \in 1 .. n : \E u \in CutUser(users[k]) : us = Append(SubSeq(users, 1, k - 1), u)
  <2> HIDE DEF users
  <2> QED
    BY <1>1, CutUsersAre DEF n
<1> HIDE DEF name, a, nodes, parts, children, users, n, N, w
<1>12. ASSUME NEW j \in 0 .. l, j < l \/ n = 0 PROVE Q([date |-> IF j = 0 THEN NoDate ELSE c.date, users |-> <<>>])
  <2>1. Gives(w, Element(name, Part(a, j), <<>>))
    BY <1>3, <1>5, <1>12, GivesAttributes
  <2>2. Element(name, Part(a, j), <<>>) \in ConfigParts(c)
    BY <1>7, InParts
  <2> QED
    BY <1>9, <2>1, <2>2
<1>13. ASSUME n # 0, NEW K \in 0 .. n PROVE Q(seen(SubSeq(users, 1, K)))
  <2>1. Part(nodes, K) \o <<>> = Part(nodes, K)
    <3>1. Part(nodes, K) \in Seq(N)
      BY <1>3, <1>4, PartIs
    <3> QED
      BY <3>1, ConcatEmptySeq
  <2>2. Gives(w, Element(name, a, Part(nodes, K)))
    BY <1>3, <1>4, <1>5, <1>13, GivesChildren
  <2>3. Element(name, a, Part(nodes, K) \o <<>>) \in ConfigParts(c)
    BY <1>3, <1>7, InParts
  <2>4. UsersSeen(Part(nodes, K) \o <<>>) = SubSeq(users, 1, K)
    BY <1>8
  <2> QED
    BY <1>9, <2>1, <2>2, <2>3, <2>4
<1>14. ASSUME NEW k \in 1 .. n, NEW u \in CutUser(users[k]) PROVE Q(seen(Append(SubSeq(users, 1, k - 1), u)))
  <2> DEFINE v == users[k]
  <2>1. v \in GoodUsers /\ u \in CutUser(v)
    BY <1>1
  <2>2. parts[k] = UserParts(v) /\ children[k] = UserPrint(v)
    <3>1. k \in DOMAIN c.users
      BY <1>1 DEF users
    <3> QED
      BY <3>1 DEF parts, ConfigUserParts, children, ConfigKids, users
  <2> HIDE DEF v
  <2>3. PICK y \in UserParts(v) : Gives(UserPrint(v), y) /\ UserSeen(y) = u
    BY <2>1, UserGives
  <2>4. y \in N /\ y \in parts[k] /\ n # 0 /\ k \in 1 .. Len(children) /\ k \in 1 .. Len(nodes)
    BY <1>1, <1>3, <1>4, <2>2, <2>3
  <2>5. Gives(children[k], y)
    BY <2>2, <2>3
  <2>6. Gives(w, Element(name, a, Part(nodes, k - 1) \o <<y>>))
    BY <1>3, <1>4, <1>5, <2>4, <2>5, GivesChild
  <2>7. Element(name, a, Part(nodes, k - 1) \o <<y>>) \in ConfigParts(c)
    BY <1>7, <2>4, InParts
  <2>8. UsersSeen(Part(nodes, k - 1) \o <<y>>) = Append(SubSeq(users, 1, k - 1), u)
    BY <1>8, <2>3 DEF v
  <2> QED
    BY <1>9, <2>6, <2>7, <2>8
<1>0. Q(z) => \E y \in ConfigParts(c) : Gives(ConfigPrint(c), y) /\ ConfigSeen(y) = z
  BY DEF w
<1> SUFFICES Q(z)
  BY <1>0
<1> HIDE DEF Q
<1>15. CASE z = [date |-> NoDate, users |-> <<>>]
  <2>1. CASE n = 0 \/ l # 0
    <3> DEFINE j == 0
    <3>1. j \in 0 .. l /\ (j < l \/ n = 0) /\ j = 0
      BY <1>2, <2>1
    <3> HIDE DEF j, l
    <3>2. Q([date |-> IF j = 0 THEN NoDate ELSE c.date, users |-> <<>>])
      BY <1>12, <3>1
    <3> QED
      BY <1>15, <3>1, <3>2
  <2>2. CASE n # 0 /\ l = 0
    <3>1. 0 \in 0 .. n /\ c.date = NoDate
      BY <1>1, <1>2, <2>2
    <3>2. Q(seen(SubSeq(users, 1, 0)))
      BY <1>13, <2>2, <3>1
    <3> QED
      BY <1>10, <1>15, <3>1, <3>2
  <2> QED
    BY <2>1, <2>2
<1>16. CASE z # [date |-> NoDate, users |-> <<>>]
  <2>1. PICK us \in CutUsers(users) : z = seen(us)
    BY <1>6, <1>16
  <2>2. CASE \E k \in 1 .. n : \E u \in CutUser(users[k]) : us = Append(SubSeq(users, 1, k - 1), u)
    <3>1. PICK k \in 1 .. n : \E u \in CutUser(users[k]) : us = Append(SubSeq(users, 1, k - 1), u)
      BY <2>2
    <3>2. PICK u \in CutUser(users[k]) : us = Append(SubSeq(users, 1, k - 1), u)
      BY <3>1
    <3> QED
      BY <1>14, <2>1, <3>2
  <2>3. CASE \E K \in 0 .. n : us = SubSeq(users, 1, K)
    <3>1. PICK K \in 0 .. n : us = SubSeq(users, 1, K)
      BY <2>3
    <3>2. CASE n # 0
      BY <1>13, <2>1, <3>1, <3>2
    <3>3. CASE n = 0
      <4>1. K = 0
        BY <3>1, <3>3
      <4>2. z = seen(<<>>)
        BY <1>10, <2>1, <3>1, <4>1
      <4>3. l \in 0 .. l /\ (l = 0 => c.date = NoDate)
        BY <1>2
      <4> HIDE DEF l
      <4>4. Q([date |-> IF l = 0 THEN NoDate ELSE c.date, users |-> <<>>])
        BY <1>12, <3>3, <4>3
      <4> QED
        BY <4>2, <4>3, <4>4
    <3> QED
      BY <3>2, <3>3
  <2> QED
    BY <1>11, <2>2, <2>3
<1> QED
  BY <1>15, <1>16

\* Whatever can be left of the configurations is left by a beginning of the print.
LEMMA RootGives ==
    ASSUME NEW d, d.configs \in Seq(GoodConfigs), NEW z \in CutConfigs(d.configs)
    PROVE  \E y \in RootParts(d.configs) : Gives(RootPrint(d), y) /\ ConfigsSeen(y.children) = z
<1> DEFINE name == "ConfigReseau"
           a == <<>>
           cs == d.configs
           nodes == RootNodes(cs)
           parts == RootConfigParts(cs)
           children == RootKids(cs)
           n == Len(cs)
           N == NodesOf(nodes, parts)
           w == RootPrint(d)
           Q(z0) == \E y \in RootParts(cs) : Gives(w, y) /\ ConfigsSeen(y.children) = z0
<1>0. cs \in Seq(GoodConfigs) /\ z \in CutConfigs(cs)
  OBVIOUS
<1>1. PICK place : PrintOf(w, name, a, children, place)
  BY RootIsPrinted
<1> HIDE DEF cs, w
<1>2. n \in Nat /\ DOMAIN cs = 1 .. n /\ \A k \in 1 .. n : cs[k] \in GoodConfigs
  BY <1>0, GoodConfigsSequence
<1>3. Len(nodes) = n /\ Len(children) = n /\ KidsRead(children, nodes, parts)
  BY <1>0, RootKidsRead
<1>4. Kids(children, nodes, N) /\ nodes \in Seq(N) /\ \A k \in 1 .. Len(nodes) : \A y \in parts[k] : y \in N
  BY <1>3, KidsAreKids
<1>5. RootParts(cs) = PartsOf(name, a, nodes, parts)
  BY DEF RootParts
<1>6. /\ \A K \in 0 .. n, x \in {<<>>, <<Unknown>>} : ConfigsSeen(Part(nodes, K) \o x) = SubSeq(cs, 1, K)
      /\ \A k \in 1 .. n : \A y \in ConfigParts(cs[k]) :
             ConfigsSeen(Part(nodes, k - 1) \o <<y>>) = Append(SubSeq(cs, 1, k - 1), ConfigSeen(y))
  BY <1>0, ConfigsMet
<1>7. SubSeq(cs, 1, 0) = <<>>
  BY <1>0, SubSeqEmpty
<1>8. \/ z = SubSeq(cs, 1, 0)
      \/ \E k \in 1 .. n : \E c \in CutConfig(cs[k]) : z = Append(SubSeq(cs, 1, k - 1), c)
  BY <1>0, CutConfigsAre
<1>9. Len(a) = 0 /\ Part(a, 0) = a /\ Part(nodes, 0) = <<>> /\ <<>> \o <<>> = <<>>
  <2>1. \A s : \A S : s \in Seq(S) => SubSeq(s, 1, 0) = <<>>
    BY SubSeqEmpty
  <2>2. a \in Seq(N) /\ <<>> \o <<>> = <<>>
    BY ConcatEmptySeq, EmptySeq
  <2> QED
    BY <1>4, <2>1, <2>2 DEF Part
<1> HIDE DEF nodes, parts, children, n, N, name, a
<1>10. CASE z = SubSeq(cs, 1, 0)
  <2> DEFINE y == Element(name, a, <<>>)
  <2>1. 0 \in 0 .. n /\ <<>> \in {<<>>, <<Unknown>>}
    BY <1>2
  <2>2. Gives(w, y)
    <3>1. CASE n = 0
      <4>1. 0 \in 0 .. Len(a)
        BY <1>9
      <4>2. Gives(w, Element(name, Part(a, 0), <<>>))
        BY <1>1, <1>3, <3>1, <4>1, GivesAttributes
      <4> QED
        BY <1>9, <4>2
    <3>2. CASE n # 0
      <4>1. Gives(w, Element(name, a, Part(nodes, 0)))
        BY <1>1, <1>3, <1>4, <2>1, <3>2, GivesChildren
      <4> QED
        BY <1>9, <4>1
    <3> QED
      BY <3>1, <3>2
  <2>3. y \in RootParts(cs)
    <3>1. Element(name, a, Part(nodes, 0) \o <<>>) \in RootParts(cs)
      BY <1>3, <1>5, <2>1, InParts
    <3> QED
      BY <1>9, <3>1
  <2>4. ConfigsSeen(<<>>) = SubSeq(cs, 1, 0)
    <3>1. ConfigsSeen(Part(nodes, 0) \o <<>>) = SubSeq(cs, 1, 0)
      BY <1>6, <2>1
    <3> QED
      BY <1>9, <3>1
  <2>5. y.children = <<>>
    BY ElementFields
  <2> QED
    BY <1>10, <2>2, <2>3, <2>4, <2>5 DEF cs, w
<1>11. CASE \E k \in 1 .. n : \E c \in CutConfig(cs[k]) : z = Append(SubSeq(cs, 1, k - 1), c)
  <2>0. PICK k \in 1 .. n : \E c \in CutConfig(cs[k]) : z = Append(SubSeq(cs, 1, k - 1), c)
    BY <1>11
  <2>1. PICK c \in CutConfig(cs[k]) : z = Append(SubSeq(cs, 1, k - 1), c)
    BY <2>0
  <2> DEFINE v == cs[k]
  <2>2. v \in GoodConfigs /\ c \in CutConfig(v)
    BY <1>2
  <2>3. parts[k] = ConfigParts(v) /\ children[k] = ConfigPrint(v)
    BY <1>2 DEF parts, RootConfigParts, children, RootKids
  <2> HIDE DEF v
  <2>4. PICK x \in ConfigParts(v) : Gives(ConfigPrint(v), x) /\ ConfigSeen(x) = c
    BY <2>2, ConfigGives
  <2>5. x \in N /\ x \in parts[k] /\ n # 0 /\ k \in 1 .. Len(children) /\ k \in 1 .. Len(nodes)
    BY <1>2, <1>3, <1>4, <2>3, <2>4
  <2>6. Gives(children[k], x)
    BY <2>3, <2>4
  <2> DEFINE s == Part(nodes, k - 1) \o <<x>>
             y == Element(name, a, s)
  <2>7. Gives(w, y)
    BY <1>1, <1>3, <1>4, <2>5, <2>6, GivesChild
  <2>8. y \in RootParts(cs)
    BY <1>5, <2>5, InParts
  <2>9. ConfigsSeen(s) = z
    BY <1>6, <2>1, <2>4 DEF v
  <2> HIDE DEF s
  <2>10. y.children = s
    BY ElementFields
  <2> QED
    BY <2>7, <2>8, <2>9, <2>10 DEF cs, w
<1> QED
  BY <1>8, <1>10, <1>11

\* A text is read as its document, and its beginnings as what can be left of it: nothing else,
\* and all of that.
LEMMA TextCuts ==
    ASSUME NEW w, NEW d, NEW pre, IsGood(d), IsText(w, d, pre)
    PROVE  Read(w) = d /\ {Read(t) : t \in Beginnings(w)} = Cuts(d)
<1> DEFINE r == RootPrint(d)
           cs == d.configs
           B == Beginnings(w)
<1>1. w \in Seq(Pieces) /\ Len(w) \in Nat /\ pre \in Nat
  BY LenProperties DEF IsText
<1>2. cs \in Seq(GoodConfigs) /\ r \in Seq(Pieces) /\ Opens(r) /\ Len(r) \in Nat
  BY RootReads, LenProperties DEF IsGood
<1>3. /\ \A t \in B : t \in Seq(Pieces) /\ Len(t) <= Len(w) /\ Follows(t, 0, w)
      /\ w \in B /\ \A k \in 0 .. Len(w) : SubSeq(w, 1, k) \in B
      /\ Follows(w, 0, w)
  BY <1>1, BeginningsFollow
<1>4. Read(w) = d
  BY <1>1, <1>3, TextReads
<1>5. ASSUME NEW t \in B PROVE Read(t) \in Cuts(d)
  <2> HIDE DEF B
  <2> QED
    BY <1>3, <1>5, TextReads
<1>6. \A z \in Cuts(d) :
          \/ z = EmptyDocument \/ z = d
          \/ d.root /\ \E c \in CutConfigs(cs) : z = [root |-> TRUE, configs |-> c, whole |-> FALSE]
  BY CutsAre
<1>7. \E t \in B : Read(t) = EmptyDocument
  <2> DEFINE t == SubSeq(w, 1, 0)
  <2>1. t \in B
    <3>1. 0 \in 0 .. Len(w)
      BY <1>1
    <3> QED
      BY <1>3, <3>1
  <2>2. t = <<>>
    BY <1>1, SubSeqEmpty
  <2>3. Len(t) = 0
    BY <2>2
  <2> HIDE DEF t, B
  <2>4. Read(t) = EmptyDocument
    BY <1>1, <1>3, <2>1, <2>3, TextReads
  <2> QED
    BY <2>1, <2>4
<1>8. ASSUME d.root, NEW c \in CutConfigs(cs)
      PROVE  \E t \in B : Read(t) = [root |-> TRUE, configs |-> c, whole |-> FALSE]
  <2>1. PICK y \in RootParts(cs) : Gives(r, y) /\ ConfigsSeen(y.children) = c
    BY <1>2, <1>8, RootGives
  <2>2. PICK j \in 1 .. Len(r) - 1 : GivesAt(r, y, j)
    BY <2>1 DEF Gives
  <2>3. y.type = "element"
    <3> HIDE DEF cs
    <3> QED
      BY <1>2, <2>1, RootIsSeen
  <2>4. Lies(w, pre, r) /\ Len(w) = pre + Len(r) + 1
    BY <1>8 DEF IsText
  <2> DEFINE K == pre + j
             t == SubSeq(w, 1, K)
             l == Len(r)
             m == Len(w)
  <2> HIDE DEF r
  <2>5. K \in 0 .. m /\ K \in Nat /\ j \in 1 .. l /\ j \in Nat /\ pre < K
    <3>1. m = pre + l + 1 /\ l \in Nat /\ j \in 1 .. l - 1
      BY <1>2, <2>4
    <3> HIDE DEF m, l
    <3> QED
      BY <1>1, <3>1
  <2> HIDE DEF K, B
  <2>6. t \in B
    BY <1>3, <2>5
  <2>7. t \in Seq(Pieces) /\ Len(t) = K /\ \A i \in 1 .. K : t[i] = w[i]
    BY <1>1, <2>5, SubSeqProperties
  <2> HIDE DEF t
  <2>8. Starts(t, pre, r, j)
    <3>1. ASSUME NEW i \in 1 .. j PROVE t[pre + i] = r[i]
      <4>1. pre + i \in 1 .. K
        BY <1>1, <2>5 DEF K
      <4>2. i \in 1 .. Len(r)
        BY <1>2, <2>5
      <4>3. w[pre + i] = r[i]
        BY <2>4, <4>2 DEF Lies
      <4> QED
        BY <2>7, <4>1, <4>3
    <3> QED
      BY <2>7, <3>1 DEF Starts, K
  <2>9. BrokenAt(t, pre, y)
    BY <1>1, <2>2, <2>7, <2>8 DEF GivesAt
  <2>10. PICK at \in 0 .. Len(t) + 1 :
             /\ SkipWhiteSpace(t, at) = pre + 1
             /\ \A x : Wrong(t, at, <<x>>) => RootsWrong(t, Elements(<<x>>))
    <3>1. ~ (Len(t) <= pre)
      BY <1>1, <2>5, <2>7
    <3>2. Follows(t, 0, w) /\ Len(t) <= Len(w)
      BY <1>3, <2>6
    <3> QED
      BY <1>2, <2>7, <3>1, <3>2, Started DEF r
  <2>11. Wrong(t, at, <<y>>)
    <3>1. pre < Len(t)
      BY <2>5, <2>7
    <3> QED
      BY <1>1, <2>7, <2>9, <2>10, <3>1, LinkedWrong
  <2>12. RootsWrong(t, <<y>>)
    <3>1. Elements(<<y>>) = <<y>>
      BY <2>3, FewElements
    <3> QED
      BY <2>10, <2>11, <3>1
  <2>13. Read(t) = [root |-> TRUE, configs |-> ConfigsSeen(y.children), whole |-> FALSE]
    BY <2>7, <2>12, SeenIs
  <2> QED
    BY <2>1, <2>6, <2>13
<1>9. ASSUME NEW z \in Cuts(d) PROVE z \in {Read(t) : t \in B}
  <2>1. \E t \in B : Read(t) = z
    <3> HIDE DEF B
    <3> QED
      <4>1. CASE z = EmptyDocument
        BY <1>7, <4>1
      <4>2. CASE z = d
        BY <1>3, <1>4, <4>2
      <4>3. CASE d.root /\ \E c \in CutConfigs(cs) : z = [root |-> TRUE, configs |-> c, whole |-> FALSE]
        BY <1>8, <4>3
      <4> QED
        BY <1>6, <1>9, <4>1, <4>2, <4>3
  <2> QED
    BY <2>1
<1> QED
  BY <1>4, <1>5, <1>9
-----------------------------------------------------------------------------
\* What a document of this specification is made of.
DocumentInv == subject = "document" => IsGood(document)

\* What can be left of a user that is saved can be saved again.
LEMMA FullUserIsGood ==
    ASSUME NEW m \in Machines, NEW u \in CutUser(FullUser(m))
    PROVE  u \in GoodUsers
<1>1. FullUser(m) \in GoodUsers
  <2> DEFINE b == TRUE
  <2>1. b \in BOOLEAN /\ FullUser(m) = [ip |-> m, rest |-> b]
    BY DEF FullUser
  <2> HIDE DEF b
  <2> QED
    BY <2>1 DEF GoodUsers
<1> QED
  BY <1>1, CutUserIs

\* A document with other configurations.
LEMMA OtherConfigs ==
    ASSUME NEW b, NEW c, NEW d, d = [root |-> b, configs |-> c, whole |-> b], NEW x
    PROVE  [d EXCEPT !.configs = x] = [root |-> d.root, configs |-> x, whole |-> d.whole]
OBVIOUS

\* The configurations of a document.
LEMMA GoodDocumentIs ==
    ASSUME NEW d, IsGood(d), d.root
    PROVE  /\ d.configs \in Seq(GoodConfigs)
           /\ \A cs \in Seq(GoodConfigs) : IsGood([d EXCEPT !.configs = cs])
<1> DEFINE b == TRUE
           c == d.configs
<1>1. d = [root |-> b, configs |-> c, whole |-> b] /\ c \in Seq(GoodConfigs) /\ b \in BOOLEAN /\ b
  BY DEF IsGood
<1> HIDE DEF b, c
<1>2. ASSUME NEW cs \in Seq(GoodConfigs) PROVE IsGood([d EXCEPT !.configs = cs])
  <2> DEFINE e == [d EXCEPT !.configs = cs]
  <2>1. e = [root |-> b, configs |-> cs, whole |-> b]
    <3>1. d.root = b /\ d.whole = b /\ d = [root |-> b, configs |-> c, whole |-> b]
      BY <1>1
    <3>2. e = [root |-> d.root, configs |-> cs, whole |-> d.whole]
      BY <3>1, OtherConfigs
    <3> QED
      BY <3>1, <3>2
  <2>2. b = TRUE
    BY DEF b
  <2> HIDE DEF e
  <2>3. e.configs = cs /\ e.root = b
    BY <2>1
  <2>4. e.root /\ e.root \in BOOLEAN /\ e.configs \in Seq(GoodConfigs)
    BY <1>1, <2>3
  <2>5. e = [root |-> TRUE, configs |-> e.configs, whole |-> TRUE]
    BY <2>1, <2>2, <2>3
  <2>6. IsGood(e)
    BY <2>4, <2>5 DEF IsGood
  <2> QED
    BY <2>6 DEF e
<1> QED
  BY <1>1, <1>2 DEF c

\* A user is added to the last configuration.
LEMMA UserAdded ==
    ASSUME NEW cs \in Seq(GoodConfigs), cs # <<>>, NEW u \in GoodUsers
    PROVE  [cs EXCEPT ![Len(cs)].users = Append(@, u)] \in Seq(GoodConfigs)
<1> DEFINE n == Len(cs)
           c == cs[n]
<1>1. n \in Nat /\ n \in 1 .. n /\ DOMAIN cs = 1 .. n /\ \A k \in 1 .. n : cs[k] \in GoodConfigs
  <2>1. n \in Nat /\ n # 0
    BY LenProperties, EmptySeq
  <2> QED
    BY <2>1, LenProperties, ElementOfSeq
<1>2. c \in GoodConfigs
  BY <1>1
<1> HIDE DEF c
<1>3. c.users \in Seq(GoodUsers) /\ c.date \in Dates \cup {NoDate}
      /\ \A us : [c EXCEPT !.users = us] = [date |-> c.date, users |-> us]
  BY <1>2, GoodConfigsAre
<1>4. Append(c.users, u) \in Seq(GoodUsers)
  BY <1>3, AppendProperties
<1>5. [c EXCEPT !.users = Append(@, u)] \in GoodConfigs
  <2>1. [c EXCEPT !.users = Append(@, u)] = [c EXCEPT !.users = Append(c.users, u)]
    OBVIOUS
  <2> QED
    BY <1>3, <1>4, <2>1 DEF GoodConfigs
<1> DEFINE e == [c EXCEPT !.users = Append(@, u)]
           g == [cs EXCEPT ![n] = e]
<1>6. [cs EXCEPT ![n].users = Append(@, u)] = g
  BY DEF c
<1> HIDE DEF e
<1>7. e \in GoodConfigs
  BY <1>5 DEF e
<1>8. g = [k \in 1 .. n |-> IF k = n THEN e ELSE cs[k]]
  BY <1>1
<1> HIDE DEF g, n
<1>9. g \in [1 .. n -> GoodConfigs]
  BY <1>1, <1>7, <1>8
<1>10. g \in Seq(GoodConfigs)
  BY <1>1, <1>9, Sequenced
<1> QED
  BY <1>6, <1>10 DEF n

\* Every document the window saves or loads is one these lemmas are about.
LEMMA DocumentsAreGood == Spec => []DocumentInv
<1>1. Init => DocumentInv
  <2> SUFFICES ASSUME Init, subject = "document" PROVE IsGood(document)
    BY DEF DocumentInv
  <2>1. document \in {EmptyDocument, BlankDocument}
    BY DEF Init
  <2>2. <<>> \in Seq(GoodConfigs)
    BY EmptySeq
  <2>3. CASE document = EmptyDocument
    BY <2>2, <2>3 DEF IsGood, EmptyDocument
  <2>4. CASE document = BlankDocument
    BY <2>2, <2>4 DEF IsGood, BlankDocument
  <2> QED
    BY <2>1, <2>3, <2>4
<1>2. DocumentInv /\ [Next]_xmlVars => DocumentInv'
  <2> SUFFICES ASSUME DocumentInv, [Next]_xmlVars, subject' = "document" PROVE IsGood(document')
    BY DEF DocumentInv, IsGood, GoodConfigs, GoodUsers
  <2>1. ASSUME UNCHANGED <<subject, document>> PROVE IsGood(document')
    BY <2>1 DEF DocumentInv
  <2>2. CASE AddElement
    <3>1. subject = "document" /\ document.root
      BY <2>2 DEF AddElement
    <3>2. IsGood(document)
      BY <3>1 DEF DocumentInv
    <3>3. document.configs \in Seq(GoodConfigs)
          /\ \A cs \in Seq(GoodConfigs) : IsGood([document EXCEPT !.configs = cs])
      BY <3>1, <3>2, GoodDocumentIs
    <3> DEFINE cs == document.configs
    <3>4. ASSUME NEW date \in Dates \cup {NoDate},
                 document' = [document EXCEPT !.configs = Append(@, [date |-> date, users |-> <<>>])]
          PROVE  IsGood(document')
      <4>1. [date |-> date, users |-> <<>>] \in GoodConfigs
        BY EmptySeq DEF GoodConfigs
      <4>2. Append(cs, [date |-> date, users |-> <<>>]) \in Seq(GoodConfigs)
        BY <3>3, <4>1, AppendProperties
      <4>3. document' = [document EXCEPT !.configs = Append(cs, [date |-> date, users |-> <<>>])]
        BY <3>4
      <4> QED
        BY <3>3, <4>2, <4>3
    <3>5. ASSUME cs # <<>>, NEW m \in Machines, NEW u \in CutUser(FullUser(m)),
                 document' = [document EXCEPT !.configs[Len(document.configs)].users = Append(@, u)]
          PROVE  IsGood(document')
      <4> DEFINE new == [cs EXCEPT ![Len(cs)].users = Append(@, u)]
      <4>1. u \in GoodUsers
        BY FullUserIsGood
      <4>2. new \in Seq(GoodConfigs)
        <5> HIDE DEF cs
        <5> QED
          BY <3>3, <3>5, <4>1, UserAdded DEF cs
      <4>3. document' = [document EXCEPT !.configs = new]
        BY <3>5
      <4> QED
        BY <3>3, <4>2, <4>3
    <3> QED
      BY <2>2, <3>4, <3>5 DEF AddElement
  <2>3. CASE TypeCharacter
    BY <2>1, <2>3 DEF TypeCharacter
  <2>4. CASE TypeName
    BY <2>1, <2>4 DEF TypeName
  <2>5. CASE ChangeTree
    BY <2>1, <2>5 DEF ChangeTree
  <2>6. CASE ChangeAttributes
    BY <2>1, <2>6 DEF ChangeAttributes
  <2>7. CASE UNCHANGED xmlVars
    BY <2>1, <2>7 DEF xmlVars
  <2> QED
    BY <2>2, <2>3, <2>4, <2>5, <2>6, <2>7 DEF Next
<1> QED
  BY <1>1, <1>2, PTL DEF Spec

\* A document saved is loaded as it was, with any number of configurations and of users: what
\* SaveFile prints, LoadFile parses into the elements the window takes the same dates and users
\* from.
THEOREM SavedDocumentsAreLoaded == Spec => []SavedIsLoaded
<1>1. DocumentInv => SavedIsLoaded
  <2> SUFFICES ASSUME DocumentInv, subject = "document", NEW declared \in BOOLEAN
               PROVE  Read(DocumentPrint(document, declared)) = document
    BY DEF SavedIsLoaded
  <2>1. IsGood(document)
    BY DEF DocumentInv
  <2>2. PICK pre : IsText(DocumentPrint(document, declared), document, pre)
    BY <2>1, TextIs DEF IsGood
  <2> QED
    BY <2>1, <2>2, TextCuts
<1> QED
  BY <1>1, DocumentsAreGood, PTL

\* What LoadFile makes of a file that was cut anywhere, inside a tag, a name or a value too, is
\* the document up to the cut and nothing else: a configuration or user is whole, is cut itself
\* (the last one), or is gone.
THEOREM CutDocumentsAreBeginnings == Spec => []CutsAreBeginnings
<1>1. DocumentInv => CutsAreBeginnings
  <2> SUFFICES ASSUME DocumentInv, subject = "document", NEW declared \in BOOLEAN
               PROVE  {Read(t) : t \in Beginnings(DocumentPrint(document, declared))} = Cuts(document)
    BY DEF CutsAreBeginnings
  <2>1. IsGood(document)
    BY DEF DocumentInv
  <2>2. PICK pre : IsText(DocumentPrint(document, declared), document, pre)
    BY <2>1, TextIs DEF IsGood
  <2> QED
    BY <2>1, <2>2, TextCuts
<1> QED
  BY <1>1, DocumentsAreGood, PTL
=============================================================================

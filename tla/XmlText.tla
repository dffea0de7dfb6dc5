------------------------------- MODULE XmlText -------------------------------
(***************************************************************************)
(* The value of an attribute as TinyXML writes it into ConfigReseau.xml and*)
(* reads it back: EncodeString against ReadText and GetEntity.  Characters *)
(* are bytes; the encoding is that of the file's declaration (ISO-8859-1), *)
(* in which each byte is a character.                                      *)
(***************************************************************************)
EXTENDS Naturals, Sequences, SequencesExt

Newline == 10
Blank == 32
DoubleQuote == 34
Hash == 35
Ampersand == 38
SingleQuote == 39
Semicolon == 59
Less == 60
Greater == 62
LetterX == 120

\* &amp; &lt; &gt; &quot; &apos;
entity ==
    [c \in {Ampersand, Less, Greater, DoubleQuote, SingleQuote} |->
        CASE c = Ampersand -> <<38, 97, 109, 112, 59>>
          [] c = Less -> <<38, 108, 116, 59>>
          [] c = Greater -> <<38, 103, 116, 59>>
          [] c = DoubleQuote -> <<38, 113, 117, 111, 116, 59>>
          [] c = SingleQuote -> <<38, 97, 112, 111, 115, 59>>]

Earliest(K) == CHOOSE k \in K : \A j \in K : k <= j
Latest(K) == CHOOSE k \in K : \A j \in K : j <= k
From(t, p, c) == {k \in p .. Len(t) : t[k] = c}
-----------------------------------------------------------------------------
HexDigit(n) == IF n < 10 THEN 48 + n ELSE 55 + n
Reference(c) == <<Ampersand, Hash, LetterX, HexDigit(c \div 16), HexDigit(c % 16), Semicolon>>

\* Mutant: "&" is left as it is.
EncodedRaw(c) ==
    CASE c \in DOMAIN entity \ {Ampersand} -> entity[c]
      [] c < Blank -> Reference(c)
      [] OTHER -> <<c>>

Encoded(c) ==
    CASE c \in DOMAIN entity -> entity[c]
      [] c < Blank -> Reference(c)
      [] OTHER -> <<c>>

\* "&#x" and what follows passes unchanged, up to ";" or to the last character.
BeginsReference(s, i) ==
    i + 2 <= Len(s) /\ SubSeq(s, i, i + 2) = <<Ampersand, Hash, LetterX>>

EncodeString(s) ==
    LET enc[i \in 1 .. Len(s) + 1] ==
            IF i > Len(s) THEN <<>>
            ELSE IF BeginsReference(s, i)
                 THEN LET j == Earliest(From(s, i, Semicolon) \cup {Len(s)})
                      IN  SubSeq(s, i, j - 1) \o enc[j]
                 ELSE Encoded(s[i]) \o enc[i + 1]
    IN  enc[1]

\* TiXmlAttribute::Print: the quote, the value, the quote.
QuoteFor(s) == IF From(s, 1, DoubleQuote) = {} THEN DoubleQuote ELSE SingleQuote
PrintValue(s) == <<QuoteFor(s)>> \o EncodeString(s) \o <<QuoteFor(s)>>
-----------------------------------------------------------------------------
(***************************************************************************)
(* Reading text t from p on.  Position 0 is the NULL pointer.              *)
(***************************************************************************)
Got(value, next) == [value |-> value, next |-> next]

DigitValue(c) ==
    CASE c \in 48 .. 57 -> c - 48
      [] c \in 97 .. 102 -> c - 87
      [] c \in 65 .. 70 -> c - 55
      [] OTHER -> 16

\* The digits, read backwards from ";" to the mark ("x" or "#"); a char is kept of the sum.
Numeric(t, p, mark, base) ==
    LET ends == From(t, p + 2, Semicolon)
        end == Earliest(ends)
        start == Latest({k \in p .. end : t[k] = mark})
        digits == [k \in 1 .. end - start - 1 |-> DigitValue(t[start + k])]
        ucs[k \in 0 .. end - start - 1] ==
            IF k = 0 THEN 0 ELSE (base * ucs[k - 1] + digits[k]) % 256
    IN  IF ends = {} \/ \E k \in DOMAIN digits : digits[k] >= base
        THEN Got(<<>>, 0)
        ELSE Got(<<ucs[end - start - 1]>>, end + 1)

GetEntity(t, p) ==
    LET named == {c \in DOMAIN entity : IsPrefix(entity[c], SubSeq(t, p, Len(t)))} IN
    CASE p + 2 <= Len(t) /\ t[p + 1] = Hash ->
             IF t[p + 2] = LetterX THEN Numeric(t, p, LetterX, 16) ELSE Numeric(t, p, Hash, 10)
      [] ~(p + 2 <= Len(t) /\ t[p + 1] = Hash) /\ named # {} ->
             LET c == CHOOSE n \in named : TRUE IN Got(<<c>>, p + Len(entity[c]))
      [] OTHER -> Got(<<>>, p + 1)

GetChar(t, p) == IF t[p] = Ampersand THEN GetEntity(t, p) ELSE Got(<<t[p]>>, p + 1)

\* Up to the end quote; NULL unless something follows it.
ReadText(t, first, quote) ==
    LET read[p \in 0 .. Len(t) + 1] ==
            CASE p = 0 \/ p > Len(t) -> Got(<<>>, 0)
              [] p \in 1 .. Len(t) /\ t[p] = quote -> Got(<<>>, IF p < Len(t) THEN p + 1 ELSE 0)
              [] OTHER ->
                   LET char == GetChar(t, p)
                       rest == read[char.next]
                   IN  Got(char.value \o rest.value, rest.next)
    IN  read[first]

\* TiXmlAttribute::Parse from the opening quote on.
ParseValue(t) == ReadText(t, 2, t[1])
=============================================================================

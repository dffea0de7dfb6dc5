-------------------------------- MODULE XmlMC --------------------------------
(***************************************************************************)
(* A small instance of XmlProperties for TLC.                              *)
(***************************************************************************)
EXTENDS XmlProperties

CONSTANTS a, n1, n2, n3, c1, c2, c3

\* & # x ; " ' < and a digit, a letter, a newline, an accented letter.
MCCharacters == {Ampersand, Hash, LetterX, Semicolon, DoubleQuote, SingleQuote, Less,
                 52, 65, Newline, 233}
\* Places are interchangeable.
MCPlaces == Permutations({n1, n2, n3}) \cup Permutations({c1, c2, c3})

MCLetters == {".", "a", "v", "i", "t", "x"}
=============================================================================

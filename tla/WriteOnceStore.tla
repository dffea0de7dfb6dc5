---------------------------- MODULE WriteOnceStore ----------------------------
(***************************************************************************)
(* What the server's directory promises to the masters, without protocol:  *)
(* a name that is free can be taken once, and the file then grows by the   *)
(* blocks of one source, in order, possibly not to its end: a block cut    *)
(* short by the disk is its last.                                          *)
(***************************************************************************)
EXTENDS Integers, Sequences

CONSTANTS Authors, NameOf, SourceOf, DataCells, InitStored, InitContent

VARIABLES stored, content

storeVars == <<stored, content>>

\* The first k blocks of a source.
Blocks(source, k) ==
    SubSeq(source, 1, IF k * DataCells < Len(source) THEN k * DataCells ELSE Len(source))

StoreInit == stored = InitStored /\ content = InitContent

Create(s) ==
    /\ NameOf[s] \notin stored
    /\ stored' = stored \cup {NameOf[s]}
    /\ content' = [content EXCEPT ![NameOf[s]] = <<>>]

Extend(s) ==
    LET n == NameOf[s]
        k == Len(content[n]) \div DataCells
    IN  /\ n \in stored \ InitStored
        /\ content[n] = Blocks(SourceOf[s], k)
        /\ \E m \in Len(content[n]) .. Len(Blocks(SourceOf[s], k + 1)) :
               content' = [content EXCEPT ![n] = SubSeq(SourceOf[s], 1, m)]
        /\ UNCHANGED stored

StoreNext == \E s \in Authors : Create(s) \/ Extend(s)

StoreSpec == StoreInit /\ [][StoreNext]_storeVars
=============================================================================

------------------------------- MODULE FileName -------------------------------
(***************************************************************************)
(* Extension::verifierExtension: the destination names OnSend accepts, and *)
(* the field in which one is typed.                                        *)
(***************************************************************************)
EXTENDS Naturals, Sequences, FiniteSets

CONSTANTS
    Letters,   \* those a name is made of
    MaxName    \* bound: length of a name

VARIABLE Destination   \* what the field holds

DestinationInit == Destination = <<".", ".", ".">>

\* The user types at the end or deletes there: any name can be come to in this way.
DestinationNext ==
    \/ /\ Len(Destination) < MaxName
       /\ \E c \in Letters : Destination' = Append(Destination, c)
    \/ /\ Destination # <<>>
       /\ Destination' = SubSeq(Destination, 1, Len(Destination) - 1)

DestinationSpec == DestinationInit /\ [][DestinationNext]_Destination
-----------------------------------------------------------------------------
avi == <<".", "a", "v", "i">>
txt == <<".", "t", "x", "t">>

Points(name) == {k \in DOMAIN name : name[k] = "."}

\* strrchr: from the last point on.
extension(name) ==
    LET last == CHOOSE k \in Points(name) : \A j \in Points(name) : j <= k
    IN  SubSeq(name, last, Len(name))

nbPoint(name) == Cardinality(Points(name))

\* Mutant: the length is not looked at.
verifierExtensionOnly(name) ==
    nbPoint(name) = 1 /\ extension(name) \in {avi, txt}

verifierExtension(name) ==
    /\ nbPoint(name) = 1
    /\ extension(name) \in {avi, txt}
    /\ Len(name) > 4
-----------------------------------------------------------------------------
(***************************************************************************)
(* OnSend accepts exactly the names that are one of the two extensions     *)
(* behind something that is not empty and has no point.                    *)
(***************************************************************************)
NamesAccepted ==
    verifierExtension(Destination) <=>
        \E n \in 1 .. Len(Destination) :
            /\ SubSeq(Destination, n + 1, Len(Destination)) \in {avi, txt}
            /\ \A k \in 1 .. n : Destination[k] # "."
=============================================================================

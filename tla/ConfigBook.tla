------------------------------ MODULE ConfigBook ------------------------------
(***************************************************************************)
(* What keeping network configurations for a future use promises: a book   *)
(* of configurations in the order of their dates, each under a date of its *)
(* own.  The last one may get further machines, any one may be erased; in  *)
(* a fault a beginning is left of what was being written, of whose last    *)
(* word nothing may be legible.                                            *)
(***************************************************************************)
EXTENDS Naturals, Sequences

CONSTANTS
    Machines,
    Dates,
    NoDate,      \* a date that is not legible
    NoAddress,   \* a machine that is not legible
    InitBook

VARIABLES
    book,    \* the configurations: date and users
    clock,   \* the last date used
    faults

bookVars == <<book, clock, faults>>

Init ==
    /\ book = InitBook
    /\ clock = Len(InitBook)
    /\ faults = 0

\* s up to its k-th element, of which last is left.
UpTo(s, k, last) == Append(SubSeq(s, 1, k - 1), last)

CutUsers(us) ==
    {SubSeq(us, 1, k) : k \in 0 .. Len(us)} \cup {UpTo(us, k, NoAddress) : k \in DOMAIN us}

CutEntry(c) ==
    {[date |-> NoDate, users |-> <<>>]} \cup
        {[date |-> c.date, users |-> us] : us \in CutUsers(c.users)}

Beginnings(b) ==
    {SubSeq(b, 1, k) : k \in 0 .. Len(b)} \cup
        UNION {{UpTo(b, k, c) : c \in CutEntry(b[k])} : k \in DOMAIN b}

Write(b) ==
    /\ faults' >= faults
    /\ book' = b \/ (faults' > faults /\ book' \in Beginnings(b))

Open ==
    /\ clock' \in Dates /\ clock' > clock
    /\ Write(Append(book, [date |-> clock', users |-> <<>>]))

DateUnused ==
    /\ clock' \in Dates /\ clock' > clock
    /\ Write(book)

Add ==
    /\ book # <<>>
    /\ \E m \in Machines : Write([book EXCEPT ![Len(book)].users = Append(@, m)])
    /\ UNCHANGED clock

Erase ==
    /\ \E k \in DOMAIN book : Write(SubSeq(book, 1, k - 1) \o SubSeq(book, k + 1, Len(book)))
    /\ UNCHANGED clock

EraseAll == Write(<<>>) /\ UNCHANGED clock

Rewrite == Write(book) /\ UNCHANGED clock

Next == Open \/ DateUnused \/ Add \/ Erase \/ EraseAll \/ Rewrite

Spec == Init /\ [][Next]_bookVars
=============================================================================

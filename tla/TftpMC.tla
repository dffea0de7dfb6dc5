-------------------------------- MODULE TftpMC --------------------------------
(***************************************************************************)
(* Small instances of TftpProperties for TLC.                              *)
(***************************************************************************)
EXTENDS TftpProperties

CONSTANTS p, q, g, h,             \* sessions: two that send, two that fetch
          movie, archive, trailer \* file names

\* Local files: two full blocks and a short one; two full blocks and an empty one.
Film(s, n) == [k \in 1 .. n |-> <<s, k>>]
MCCell == {p, q, g} \X (1 .. 5)
MCSourceOf == [s \in Putters |-> Film(s, IF s = p THEN 5 ELSE 4)]

\* Both senders want the same name; g fetches a file that is there before
\* anything is sent, h one that is not.
MCNameOf == [s \in Sessions |-> CASE s \in {p, q} -> movie
                                  [] s = g -> archive
                                  [] s = h -> trailer]
\* h fetches what p and q send.
MCNameOfShared == [s \in Sessions |-> IF s = g THEN archive ELSE movie]

MCInitContent == [n \in Names |-> IF n = archive THEN Film(g, 4) ELSE <<>>]
=============================================================================

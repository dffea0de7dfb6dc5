------------------------------ MODULE MasterMC ------------------------------
(***************************************************************************)
(* Small instances of MasterProperties for TLC.                            *)
(***************************************************************************)
EXTENDS MasterProperties

CONSTANTS pc1, pc2, pc3,  \* machines
          film            \* a destination name

\* One configuration is in the file already, of one or of two machines.
Stored(us) == [root |-> TRUE, configs |-> <<[date |-> 1, users |-> us]>>, whole |-> TRUE]
MCDocument == Stored(<<FullUser(pc2)>>)
MCPairDocument == Stored(<<FullUser(pc2), FullUser(pc1)>>)
=============================================================================

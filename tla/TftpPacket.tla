------------------------------ MODULE TftpPacket ------------------------------
(***************************************************************************)
(* The packets of tftp_packet.cpp, which master and server share.          *)
(*                                                                         *)
(* A packet is a record, not bytes: its opcode, the word that follows it   *)
(* (block number or error code), the file name of a request, and the       *)
(* payload.  Sizes are counted in cells: the four bytes of opcode and      *)
(* number are one cell, and a payload is a sequence of cells.              *)
(***************************************************************************)
EXTENDS Integers, Sequences

CONSTANTS
    Names,       \* names a file may have below the server's root directory
    NoName,      \* no file name
    Cell,        \* what a payload is made of
    HeaderCell,  \* a packet header that ended up inside a payload
    DataCells,   \* TFTP_PACKET_DATA_SIZE (512 bytes)
    MaxCells,    \* TFTP_PACKET_MAX_SIZE (1024 bytes), also the size given to recv
    WordMod      \* number of values of a WORD (65536)

\* A full DATA packet fits the buffer (so addMemory never refuses one), and two
\* of them do not: 516 < 1024 < 1032.
ASSUME PacketAssumption ==
    /\ NoName \notin Names
    /\ DataCells \in Nat \ {0}
    /\ MaxCells \in Nat
    /\ 1 + DataCells < MaxCells
    /\ MaxCells < 2 * (1 + DataCells)
    /\ WordMod \in Nat \ {0}

\* "RAW": bytes that do not start with an opcode, because the packet they belong
\* to has been read in part; "NONE": the buffer after clear().
Opcode == {"RRQ", "WRQ", "DATA", "ACK", "ERROR", "RAW", "NONE"}
Payload == Seq(Cell \cup {HeaderCell})

Packet == {p \in [op : Opcode, num : Nat, name : Names \cup {NoName}, data : Payload] :
             p.op \in {"RRQ", "WRQ"} => p.name \in Names}

\* The outcome of writing an int into the packet as a WORD (addWord).
Word(n) == n % WordMod

Raw(data) == [op |-> "RAW", num |-> 0, name |-> NoName, data |-> data]
Cleared == [op |-> "NONE", num |-> 0, name |-> NoName, data |-> <<>>]

createRRQ(name) == [Cleared EXCEPT !.op = "RRQ", !.name = name]
createWRQ(name) == [Cleared EXCEPT !.op = "WRQ", !.name = name]
createACK(n) == [Cleared EXCEPT !.op = "ACK", !.num = Word(n)]
createData(block, data) ==
    [Cleared EXCEPT !.op = "DATA", !.num = Word(block), !.data = data]
createError(code) == [Cleared EXCEPT !.op = "ERROR", !.num = code]

isRRQ(p) == p.op = "RRQ"
isWRQ(p) == p.op = "WRQ"
isData(p) == p.op = "DATA"
isACK(p) == p.op = "ACK"
isError(p) == p.op = "ERROR"

getNumber(p) == IF isData(p) \/ isACK(p) THEN p.num ELSE 0

\* copyData(4, buffer, length) refuses a payload longer than length.
copyDataFits(p, length) == Len(p.data) <= length

\* ifstream::read of the k-th block of a file, and whether it hit end of file.
ChunkOf(file, k) ==
    SubSeq(file, (k - 1) * DataCells + 1,
           IF k * DataCells <= Len(file) THEN k * DataCells ELSE Len(file))
EndsAt(file, k) == Len(file) < k * DataCells
=============================================================================

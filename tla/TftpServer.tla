------------------------------ MODULE TftpServer ------------------------------
(***************************************************************************)
(* tftp_server.cpp: the single thread that serves up to MaxClients         *)
(* connections.  Its loop (acceptClients, receiveFromClients,              *)
(* sendToClients) visits the elements of the array clients in order; one   *)
(* step below is what it does with one element, so that masters may act    *)
(* between any two of them.  acceptClients makes two steps per element:    *)
(* accept, then look for a request.                                        *)
(***************************************************************************)
EXTENDS TftpNet

CONSTANTS
    MaxClients,   \* TFTP_SERVER_MAX_CLIENTS
    MaxBlock,     \* bound: no DATA packet after this one is sent for a READ
    MayFault,     \* may undefined behaviour end the process?
    DiskMayFail,  \* may creating a file or writing to it fail?
    InitStored,   \* files below the root directory at the start
    InitContent   \* and what they contain

ASSUME ServerAssumption ==
    /\ MaxClients \in Nat \ {0}
    /\ MaxBlock \in Nat
    /\ MayFault \in BOOLEAN
    /\ DiskMayFail \in BOOLEAN
    /\ InitStored \subseteq Names
    /\ InitContent \in [Names -> Payload]

VARIABLES
    clients,      \* the array of ServerClient
    phase, slot,  \* which loop the thread is in, and at which element
    stored,       \* names of the files that exist below the root directory
    content       \* what they contain

serverVars == <<clients, phase, slot, stored, content>>

Slots == 0 .. MaxClients - 1
Phases == {"accept", "request", "receive", "send"}

(***************************************************************************)
(* A pointer to a stream is "wild" until it is first assigned (the         *)
(* constructor does not initialise it), "live", or "freed": delete never   *)
(* resets it.  name, pos and good are the state of the stream that is      *)
(* live: the file it has open, ifstream's position, ofstream's state.      *)
(***************************************************************************)
Pointer == {"wild", "live", "freed"}

ServerClient ==
    [connected         : BOOLEAN,
     request           : {"UNDEFINED", "READ", "WRITE"},
     block             : Nat,
     acknowledged      : {"WAITING", "OK"},
     disconnect_on_ack : BOOLEAN,
     client_socket     : Sessions \cup {NoSession},
     last_sent_packet  : Packet,
     file_rrq          : Pointer,
     file_wrq          : Pointer,
     name              : Names \cup {NoName},
     pos               : Nat,
     good              : BOOLEAN]

NewServerClient ==
    [connected |-> FALSE, request |-> "UNDEFINED", block |-> 0,
     acknowledged |-> "WAITING", disconnect_on_ack |-> FALSE,
     client_socket |-> NoSession, last_sent_packet |-> Cleared,
     file_rrq |-> "wild", file_wrq |-> "wild",
     name |-> NoName, pos |-> 0, good |-> TRUE]

ServerTypeOK ==
    /\ clients \in [Slots -> ServerClient]
    /\ phase \in Phases
    /\ slot \in Slots
    /\ stored \in SUBSET Names
    /\ content \in [Names -> Payload]

ServerInit ==
    /\ clients = [i \in Slots |-> NewServerClient]
    /\ phase = "accept"
    /\ slot = 0
    /\ stored = InitStored
    /\ content = InitContent
-----------------------------------------------------------------------------
\* The element the thread is at, and its connection.
Me == clients[slot]
Line == conn[Me.client_socket]

Serving(request) == Me.connected /\ Me.request = request

\* On to the next of n elements, or the next of the three loops.
Visit(n) ==
    /\ phase' = CASE phase = "accept" -> "request"
                  [] phase = "request" /\ slot + 1 < n -> "accept"
                  [] phase = "request" /\ slot + 1 = n -> "receive"
                  [] phase = "receive" /\ slot + 1 = n -> "send"
                  [] phase = "send" /\ slot + 1 = n -> "accept"
                  [] OTHER -> phase
    /\ slot' = IF phase = "accept" THEN slot
               ELSE IF slot + 1 < n THEN slot + 1 ELSE 0

\* Mutant: the loop condition is i <= TFTP_SERVER_MAX_CLIENTS.
VisitPastEnd == Visit(MaxClients + 1)
Advance == Visit(MaxClients)

Store(cl, c) ==
    /\ clients' = [clients EXCEPT ![slot] = cl]
    /\ conn' = [conn EXCEPT ![cl.client_socket] = c]

\* sendPacket for an answer whose result the code only prints.
Answer(cl, c, p) == \E o \in ServerSends(c, p) : Store(cl, o.conn)

\* A step with undefined behaviour: it changes nothing else or ends the process.
Undefined == running' \in IF MayFault THEN {TRUE, FALSE} ELSE {TRUE}

(***************************************************************************)
(* disconnectClient.  acknowledged and both pointers keep their values.    *)
(* At most one pointer is live, and the code follows both: the other one   *)
(* is wild or freed.                                                       *)
(***************************************************************************)
Deleted(pointer) == IF pointer = "live" THEN "freed" ELSE pointer

Released(cl) ==
    [cl EXCEPT !.connected = FALSE, !.request = "UNDEFINED",
               !.disconnect_on_ack = FALSE, !.last_sent_packet = Cleared,
               !.file_rrq = Deleted(@), !.file_wrq = Deleted(@),
               !.name = NoName, !.pos = 0, !.good = TRUE]

\* Mutant: block is not reset.
DisconnectedKeepsBlock(cl) == Released(cl)
Disconnected(cl) == [Released(cl) EXCEPT !.block = 0]

disconnectClient(cl, c) ==
    /\ Store(Disconnected(cl), ServerCloses(c))
    /\ Undefined

\* sendError followed by disconnectClient.
Refuse(cl, c, code) ==
    \E o \in ServerSends(c, createError(code)) : disconnectClient(cl, o.conn)

\* sendPacketData: read a block of the file and send it.  After end of file
\* the stream yields nothing more.
NextBlock(cl) ==
    LET file == content[cl.name]
        n == IF cl.disconnect_on_ack THEN 0
             ELSE IF Len(file) - cl.pos < DataCells THEN Len(file) - cl.pos
             ELSE DataCells
    IN  [cl EXCEPT !.block = @ + 1,
                   !.pos = @ + n,
                   !.disconnect_on_ack = @ \/ n < DataCells,
                   !.last_sent_packet =
                        createData(cl.block + 1, SubSeq(file, cl.pos + 1, cl.pos + n))]

sendPacketData(cl, c) ==
    \E o \in ServerSends(c, NextBlock(cl).last_sent_packet) :
        Store([NextBlock(cl) EXCEPT !.acknowledged = IF o.ok THEN "WAITING" ELSE @],
              o.conn)

\* receivePacket: the packets recv may yield, each with the stream it leaves.
\* recv is called only where Receiving holds.
Receiving ==
    /\ Me.connected
    /\ \/ phase = "request" /\ Me.request = "UNDEFINED"
       \/ phase = "receive" /\ Me.request = "READ" /\ Me.acknowledged = "WAITING"
       \/ phase = "receive" /\ Me.request = "WRITE"

receivePacket == IF Receiving THEN Reads(Line.up) ELSE {}
After(r) == [Line EXCEPT !.up = r.rest]

filesUnchanged == UNCHANGED <<stored, content>>
-----------------------------------------------------------------------------
(* acceptClients *)

accept ==
    /\ phase = "accept"
    /\ backlog # <<>>
    /\ Store([Me EXCEPT !.connected = TRUE, !.client_socket = Head(backlog)],
             [conn[Head(backlog)] EXCEPT !.srv = "open"])
    /\ backlog' = Tail(backlog)
    /\ UNCHANGED running /\ filesUnchanged

\* Mutant: a slot in use accepts too.
acceptClientAnywhere == accept
acceptClient == ~Me.connected /\ accept

\* accept would block: it returns INVALID_SOCKET, which is stored.
NothingToAccept ==
    /\ phase = "accept"
    /\ Me.connected \/ backlog = <<>>
    /\ clients' = [clients EXCEPT ![slot].client_socket =
                                      IF Me.connected THEN @ ELSE NoSession]
    /\ UNCHANGED netVars /\ filesUnchanged

\* recv returned 0.
PeerClosed ==
    /\ Receiving
    /\ ClientGone(Line)
    /\ disconnectClient(Me, Line)
    /\ UNCHANGED backlog /\ filesUnchanged

\* No recv here, or it fails: nothing to read yet, or the connection was reset.
NothingReceived ==
    /\ phase \in {"request", "receive"}
    /\ receivePacket = {}
    /\ ~(Receiving /\ ClientGone(Line))
    /\ UNCHANGED <<netVars, clients>> /\ filesUnchanged

ReadMissingFile(r) ==
    /\ phase = "request"
    /\ isRRQ(r.pkt)
    /\ r.pkt.name \notin stored
    /\ Refuse([Me EXCEPT !.request = "READ", !.file_rrq = "live"], After(r), 1)
    /\ UNCHANGED backlog /\ filesUnchanged

StartRead(r) ==
    /\ phase = "request"
    /\ isRRQ(r.pkt)
    /\ r.pkt.name \in stored
    /\ sendPacketData([Me EXCEPT !.request = "READ", !.file_rrq = "live",
                                 !.name = r.pkt.name], After(r))
    /\ UNCHANGED <<backlog, running>> /\ filesUnchanged

WriteExistingFile(r) ==
    /\ phase = "request"
    /\ isWRQ(r.pkt)
    /\ r.pkt.name \in stored
    /\ Refuse([Me EXCEPT !.request = "WRITE", !.file_rrq = "live"], After(r), 6)
    /\ UNCHANGED backlog /\ filesUnchanged

CreateFile(r) ==
    /\ phase = "request"
    /\ isWRQ(r.pkt)
    /\ \E opened \in IF DiskMayFail THEN {TRUE, FALSE} ELSE {TRUE} :
         /\ stored' = IF opened THEN stored \cup {r.pkt.name} ELSE stored
         /\ content' = IF opened THEN [content EXCEPT ![r.pkt.name] = <<>>]
                       ELSE content
         /\ Answer([Me EXCEPT !.request = "WRITE", !.file_rrq = "freed",
                              !.file_wrq = "live", !.name = r.pkt.name,
                              !.good = opened],
                   After(r), createACK(0))
    /\ UNCHANGED <<backlog, running>>

\* Mutant: without the test for an existing file.
StartWriteUnchecked(r) == CreateFile(r)

\* The result of opening the ofstream is not looked at.
StartWrite(r) == CreateFile(r) /\ r.pkt.name \notin stored

RequestUnexpected(r) ==
    /\ phase = "request"
    /\ ~isRRQ(r.pkt) /\ ~isWRQ(r.pkt)
    /\ Refuse(Me, After(r), 4)
    /\ UNCHANGED backlog /\ filesUnchanged
-----------------------------------------------------------------------------
(* receiveFromClients, a slot that reads *)

AckFor(r) ==
    /\ phase = "receive" /\ Serving("READ")
    /\ isACK(r.pkt)
    /\ Me.block = getNumber(r.pkt)

AckOK(r) ==
    /\ Store([Me EXCEPT !.acknowledged = "OK"], After(r))
    /\ UNCHANGED <<backlog, running>> /\ filesUnchanged

\* Mutant: any acknowledgement will do.
AckAccepted(r) ==
    /\ phase = "receive" /\ Serving("READ") /\ isACK(r.pkt)
    /\ ~Me.disconnect_on_ack
    /\ AckOK(r)

AckExpected(r) == AckFor(r) /\ ~Me.disconnect_on_ack /\ AckOK(r)

\* Mutant: the last acknowledgement does not disconnect.
AckFinalStays(r) == AckFor(r) /\ Me.disconnect_on_ack /\ AckOK(r)

AckFinal(r) ==
    /\ AckFor(r)
    /\ Me.disconnect_on_ack
    /\ disconnectClient([Me EXCEPT !.acknowledged = "OK"], After(r))
    /\ UNCHANGED backlog /\ filesUnchanged

\* Another block is acknowledged: send the last packet again.
AckMismatch(r) ==
    /\ phase = "receive" /\ Serving("READ")
    /\ isACK(r.pkt)
    /\ Me.block # getNumber(r.pkt)
    /\ Answer(Me, After(r), Me.last_sent_packet)
    /\ UNCHANGED <<backlog, running>> /\ filesUnchanged

ReadUnexpected(r) ==
    /\ phase = "receive" /\ Serving("READ")
    /\ ~isACK(r.pkt)
    /\ Refuse(Me, After(r), 4)
    /\ UNCHANGED backlog /\ filesUnchanged
-----------------------------------------------------------------------------
(* receiveFromClients, a slot that writes *)

\* n cells of a block reach the file: all of them, unless the disk fails.
WriteBlock(data, n) ==
    /\ n < Len(data) => ~Me.good \/ DiskMayFail
    /\ content' = [content EXCEPT ![Me.name] = @ \o SubSeq(data, 1, n)]
    /\ UNCHANGED stored

\* Mutant: the stream recovers, and goes on after what it has lost.
writeRecovers(data, n) == WriteBlock(data, n)

\* ofstream::write: once it has failed, the stream drops all that follows.
\* A payload longer than DataCells has overrun memblock on its way.
write(data, n) == (Me.good \/ n = 0) /\ WriteBlock(data, n)

InOrder(r) == isData(r.pkt) /\ Me.block + 1 = getNumber(r.pkt)

DataExpected(r) ==
    /\ phase = "receive" /\ Serving("WRITE")
    /\ InOrder(r)
    /\ Len(r.pkt.data) >= DataCells
    /\ \E n \in 0 .. Len(r.pkt.data) :
         /\ write(r.pkt.data, n)
         /\ Answer([Me EXCEPT !.block = @ + 1,
                              !.good = @ /\ n = Len(r.pkt.data)],
                   After(r), createACK(Me.block + 1))
    /\ IF copyDataFits(r.pkt, DataCells) THEN UNCHANGED running ELSE Undefined
    /\ UNCHANGED backlog

EndTransfer(r) ==
    /\ \E n \in 0 .. Len(r.pkt.data) :
         /\ write(r.pkt.data, n)
         /\ \E o \in ServerSends(After(r), createACK(Me.block + 1)) :
                disconnectClient(Me, o.conn)
    /\ UNCHANGED backlog

\* Mutant: a full packet ends the transfer too.
DataFinalTooSoon(r) ==
    /\ phase = "receive" /\ Serving("WRITE")
    /\ InOrder(r) /\ Len(r.pkt.data) <= DataCells
    /\ EndTransfer(r)

\* A short packet ends the transfer.
DataFinal(r) ==
    /\ phase = "receive" /\ Serving("WRITE")
    /\ InOrder(r) /\ Len(r.pkt.data) < DataCells
    /\ EndTransfer(r)

DataMismatch(r) ==
    /\ phase = "receive" /\ Serving("WRITE")
    /\ isData(r.pkt)
    /\ ~InOrder(r)
    /\ Store([Me EXCEPT !.block = @ + 1], After(r))
    /\ UNCHANGED <<backlog, running>> /\ filesUnchanged

WriteUnexpected(r) ==
    /\ phase = "receive" /\ Serving("WRITE")
    /\ ~isData(r.pkt)
    /\ Refuse(Me, After(r), 4)
    /\ UNCHANGED backlog /\ filesUnchanged
-----------------------------------------------------------------------------
(* sendToClients *)

MaySend == Serving("READ") /\ Me.acknowledged = "OK" /\ Me.block < MaxBlock

SendNextBlock ==
    /\ phase = "send"
    /\ MaySend
    /\ sendPacketData(Me, Line)
    /\ UNCHANGED <<backlog, running>> /\ filesUnchanged

NothingToSend ==
    /\ phase = "send"
    /\ ~MaySend
    /\ UNCHANGED <<netVars, clients>> /\ filesUnchanged
-----------------------------------------------------------------------------
OnPacket(r) ==
    \/ ReadMissingFile(r) \/ StartRead(r)
    \/ WriteExistingFile(r) \/ StartWrite(r) \/ RequestUnexpected(r)
    \/ AckExpected(r) \/ AckFinal(r) \/ AckMismatch(r) \/ ReadUnexpected(r)
    \/ DataExpected(r) \/ DataFinal(r) \/ DataMismatch(r) \/ WriteUnexpected(r)

ServerStep ==
    /\ running
    /\ Advance
    /\ \/ acceptClient \/ NothingToAccept
       \/ PeerClosed \/ NothingReceived
       \/ \E r \in receivePacket : OnPacket(r)
       \/ SendNextBlock \/ NothingToSend
=============================================================================

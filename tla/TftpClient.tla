------------------------------ MODULE TftpClient ------------------------------
(***************************************************************************)
(* tftp_client.cpp: TFTPClient as the master uses it, one connection per   *)
(* session.  A session of Putters runs one iteration of tftpSend           *)
(* (connectToServer, sendFile, destructor), a session of Getters the same  *)
(* around getFile.                                                         *)
(***************************************************************************)
EXTENDS TftpNet

CONSTANTS
    Putters, Getters,  \* which sessions send a file, which fetch one
    NameOf,            \* the file name each asks the server for
    SourceOf,          \* the local file each of Putters sends
    Unreadable         \* Putters whose local file may be impossible to open

ASSUME ClientAssumption ==
    /\ Sessions = Putters \cup Getters
    /\ Putters \cap Getters = {}
    /\ NameOf \in [Sessions -> Names]
    /\ SourceOf \in [Putters -> Seq(Cell)]
    /\ Unreadable \subseteq Putters

VARIABLE tx   \* the state of each session's client

(***************************************************************************)
(* at: "waiting" is the loop of sendFile or getFile, at its select;        *)
(*     "closing" the end of the scope of client, whose destructor closes;  *)
(*     "spinning" the loop of getFile once the connection is lost.         *)
(* last_packet_no: in sendFile the block sent last (the code increments it *)
(*     before it waits for the answer), in getFile the block expected.     *)
(* file: the local file getFile writes.                                    *)
(* result: what sendFile or getFile returns (or "error" for no connection), *)
(*     known when its last send is called.                                 *)
(***************************************************************************)
Transfer ==
    [at             : {"idle", "connected", "waiting", "closing", "done", "spinning"},
     last_packet_no : Nat,
     timeout_count  : Nat,
     packet_ack     : Packet,
     file           : Payload,
     result         : {"none", "ok", "error"}]

NewTransfer ==
    [at |-> "idle", last_packet_no |-> 0, timeout_count |-> 0,
     packet_ack |-> Cleared, file |-> <<>>, result |-> "none"]

ClientTypeOK == tx \in [Sessions -> Transfer]
ClientInit == tx = [s \in Sessions |-> NewTransfer]

Move(s, t, c) ==
    /\ tx' = [tx EXCEPT ![s] = t]
    /\ conn' = [conn EXCEPT ![s] = c]

Heard(s, r) == [conn[s] EXCEPT !.down = r.rest]

PutWaits(s) == s \in Putters /\ tx[s].at = "waiting"
GetWaits(s) == s \in Getters /\ tx[s].at = "waiting"
-----------------------------------------------------------------------------
connectToServer(s) ==
    /\ tx[s].at = "idle"
    /\ running
    /\ Len(backlog) < MaxBacklog
    /\ Move(s, [tx[s] EXCEPT !.at = "connected"],
               [conn[s] EXCEPT !.cli = "open", !.srv = "backlog"])
    /\ backlog' = Append(backlog, s)
    /\ UNCHANGED running

ConnectFails(s) ==
    /\ tx[s].at = "idle"
    /\ ~running \/ Len(backlog) >= MaxBacklog
    /\ tx' = [tx EXCEPT ![s] = [@ EXCEPT !.at = "done", !.result = "error"]]
    /\ UNCHANGED netVars

\* sendFile: the file opens, the write request is sent.
SendWRQ(s) ==
    /\ s \in Putters
    /\ tx[s].at = "connected"
    /\ Move(s, [tx[s] EXCEPT !.at = "waiting"],
               ClientSends(conn[s], createWRQ(NameOf[s])))
    /\ UNCHANGED <<backlog, running>>

SourceUnreadable(s) ==
    /\ s \in Unreadable
    /\ tx[s].at = "connected"
    /\ Move(s, [tx[s] EXCEPT !.at = "closing", !.result = "error"], conn[s])
    /\ UNCHANGED <<backlog, running>>

\* Read the next block, send it with a number, stop at end of file.
SendData(s, c, number) ==
    LET n == tx[s].last_packet_no + 1
        eof == EndsAt(SourceOf[s], n)
    IN  Move(s, [tx[s] EXCEPT !.last_packet_no = n,
                              !.at = IF eof THEN "closing" ELSE @,
                              !.result = IF eof THEN "ok" ELSE @],
                ClientSends(c, createData(number, ChunkOf(SourceOf[s], n))))

\* Mutant: the number is read before it is incremented.
SendNextDataFromZero(s, c) == SendData(s, c, tx[s].last_packet_no)

\* waitForPacketACK returned true.
SendNextData(s, c) == SendData(s, c, tx[s].last_packet_no + 1)

\* Any packet but an error is taken for the acknowledgement.
PutAnswered(s) ==
    /\ PutWaits(s)
    /\ \E r \in Reads(conn[s].down) :
          ~isError(r.pkt) /\ SendNextData(s, Heard(s, r))
    /\ UNCHANGED <<backlog, running>>

\* Mutant: it goes on waiting.
PutWaitsOn(s) ==
    /\ PutWaits(s)
    /\ conn[s].down = <<>>
    /\ conn[s].srv # "closed"
    /\ UNCHANGED <<netVars, tx>>

\* select timed out: waitForPacketACK returns true all the same.
PutTimesOut(s) ==
    /\ PutWaits(s)
    /\ conn[s].down = <<>>
    /\ conn[s].srv # "closed"
    /\ SendNextData(s, conn[s])
    /\ UNCHANGED <<backlog, running>>

\* recv returned 0 or an error: likewise.
PutConnectionLost(s) ==
    /\ PutWaits(s)
    /\ ServerGone(conn[s])
    /\ SendNextData(s, [conn[s] EXCEPT !.down = <<>>])
    /\ UNCHANGED <<backlog, running>>

\* errorReceived closes the socket; sendFile and getFile return false.
ErrorReceived(s) ==
    /\ tx[s].at = "waiting"
    /\ \E r \in Reads(conn[s].down) :
         /\ isError(r.pkt)
         /\ Move(s, [tx[s] EXCEPT !.at = "closing", !.result = "error"],
                    ClientCloses(Heard(s, r)))
    /\ UNCHANGED <<backlog, running>>

Destructor(s) ==
    /\ tx[s].at = "closing"
    /\ Move(s, [tx[s] EXCEPT !.at = "done"], ClientCloses(conn[s]))
    /\ UNCHANGED <<backlog, running>>
-----------------------------------------------------------------------------
(* getFile *)

SendRRQ(s) ==
    /\ s \in Getters
    /\ tx[s].at = "connected"
    /\ Move(s, [tx[s] EXCEPT !.at = "waiting", !.last_packet_no = 1],
               ClientSends(conn[s], createRRQ(NameOf[s])))
    /\ UNCHANGED <<backlog, running>>

Accepted(t) == [t EXCEPT !.last_packet_no = @ + 1,
                         !.timeout_count = IF @ = 1 THEN 0 ELSE @]

\* Write the packet and acknowledge it.
Take(s, r, number) ==
    LET ack == createACK(number)
        last == Len(r.pkt.data) < DataCells
    IN  /\ ~isError(r.pkt)
        /\ copyDataFits(r.pkt, DataCells)
        /\ Move(s, [Accepted(tx[s]) EXCEPT
                       !.packet_ack = ack,
                       !.file = @ \o r.pkt.data,
                       !.at = IF last THEN "closing" ELSE @,
                       !.result = IF last THEN "ok" ELSE @],
                   ClientSends(Heard(s, r), ack))
        /\ UNCHANGED <<backlog, running>>

\* Mutant: the number of the packet is not looked at.
GetAnything(s) ==
    /\ GetWaits(s)
    /\ \E r \in Reads(conn[s].down) : Take(s, r, tx[s].last_packet_no)

Expected(s, r) == getNumber(r.pkt) = tx[s].last_packet_no

\* Mutant: it acknowledges the packet it waits for next.
GetAcksNext(s) ==
    /\ GetWaits(s)
    /\ \E r \in Reads(conn[s].down) :
          Expected(s, r) /\ Take(s, r, tx[s].last_packet_no + 1)

GetExpected(s) ==
    /\ GetWaits(s)
    /\ \E r \in Reads(conn[s].down) :
          Expected(s, r) /\ Take(s, r, tx[s].last_packet_no)

\* copyData refuses a payload longer than the buffer: counted, but neither
\* written nor acknowledged.
GetOversized(s) ==
    /\ GetWaits(s)
    /\ \E r \in Reads(conn[s].down) :
         /\ ~isError(r.pkt)
         /\ Expected(s, r)
         /\ ~copyDataFits(r.pkt, DataCells)
         /\ Move(s, Accepted(tx[s]), Heard(s, r))
    /\ UNCHANGED <<backlog, running>>

\* "This should not happen!"
GetMismatch(s) ==
    /\ GetWaits(s)
    /\ \E r \in Reads(conn[s].down) :
         /\ ~isError(r.pkt)
         /\ ~Expected(s, r)
         /\ Move(s, tx[s], Heard(s, r))
    /\ UNCHANGED <<backlog, running>>

\* The first timeout sends packet_ack again, the second one gives up.
GetTimesOut(s) ==
    LET t == [tx[s] EXCEPT !.timeout_count = @ + 1]
    IN  /\ GetWaits(s)
        /\ conn[s].down = <<>>
        /\ conn[s].srv # "closed"
        /\ IF t.timeout_count < 2
           THEN Move(s, t, ClientSends(conn[s], t.packet_ack))
           ELSE Move(s, [t EXCEPT !.at = "closing", !.result = "error"], conn[s])
        /\ UNCHANGED <<backlog, running>>

\* recv returns 0 or an error, the cleared packet has number 0, the loop
\* reads again: for ever.
GetConnectionLost(s) ==
    /\ GetWaits(s)
    /\ ServerGone(conn[s])
    /\ Move(s, [tx[s] EXCEPT !.at = "spinning"], [conn[s] EXCEPT !.down = <<>>])
    /\ UNCHANGED <<backlog, running>>
-----------------------------------------------------------------------------
\* What the client does next waits for its last send to return.
TimesOut(s) ==
    /\ SendReturned(conn[s])
    /\ PutTimesOut(s) \/ GetTimesOut(s)

ClientStep(s) ==
    /\ SendReturned(conn[s])
    /\ \/ connectToServer(s) \/ ConnectFails(s)
       \/ SendWRQ(s) \/ SourceUnreadable(s) \/ SendRRQ(s)
       \/ PutAnswered(s) \/ PutConnectionLost(s)
       \/ ErrorReceived(s) \/ Destructor(s)
       \/ GetExpected(s) \/ GetOversized(s) \/ GetMismatch(s) \/ GetConnectionLost(s)
=============================================================================

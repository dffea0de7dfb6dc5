------------------------------- MODULE TftpNet -------------------------------
(***************************************************************************)
(* The TCP connections between masters and the server, as the code in src/ *)
(* uses them through Winsock (socket is SOCK_STREAM on both sides).        *)
(* Everything here is external to the repository.                          *)
(*                                                                         *)
(* One session is one connection: one iteration of tftpSend, or one        *)
(* getFile.  TCP delivers bytes in order but keeps no packet boundaries:   *)
(* with Segmented a recv may return a part of a DATA packet, or a packet   *)
(* together with the start of the next one.                                *)
(***************************************************************************)
EXTENDS TftpPacket

CONSTANTS
    Sessions,    \* connections, each with the client that opens it
    NoSession,   \* INVALID_SOCKET
    Segmented,   \* may recv ignore packet boundaries?
    MaxBacklog,  \* SOMAXCONN
    SendRoom     \* packets that the client's send buffer and the server's
                 \* receive window hold together

ASSUME NetAssumption ==
    /\ NoSession \notin Sessions
    /\ Segmented \in BOOLEAN
    /\ MaxBacklog \in Nat
    /\ SendRoom \in Nat \ {0}

VARIABLES
    conn,        \* the connection of each session
    backlog,     \* connections the server has not accepted yet, oldest first
    running      \* is the server process alive?

netVars == <<conn, backlog, running>>

(***************************************************************************)
(* cli, srv: the two ends.  A client end that is closed with unread input  *)
(*     is "aborted": its peer gets a reset, not an end of stream.          *)
(* up, down: bytes in flight to the server and to the client; the last     *)
(*     packet of up may still be waiting for room in the client's send.    *)
(* rst: a reset on its way to the server, or arrived there.                *)
(* lost: the client end may be reset, with what it has not read.           *)
(***************************************************************************)
Connection ==
    [cli  : {"none", "open", "closed", "aborted"},
     srv  : {"none", "backlog", "open", "closed"},
     up   : Seq(Packet),
     down : Seq(Packet),
     rst  : {"no", "owed", "arrived"},
     lost : BOOLEAN]

NoConnection == [cli |-> "none", srv |-> "none", up |-> <<>>, down |-> <<>>,
                 rst |-> "no", lost |-> FALSE]

NetTypeOK ==
    /\ conn \in [Sessions -> Connection]
    /\ backlog \in Seq(Sessions)
    /\ running \in BOOLEAN

NetInit ==
    /\ conn = [s \in Sessions |-> NoConnection]
    /\ backlog = <<>>
    /\ running = TRUE
-----------------------------------------------------------------------------
(***************************************************************************)
(* What one recv of MaxCells may take from a stream: the packet it yields  *)
(* and the stream it leaves.                                               *)
(***************************************************************************)
WholeRead(q) == [pkt |-> Head(q), rest |-> Tail(q)]

\* Only the first k payload cells of a DATA packet have arrived.
ShortRead(q, k) ==
    LET data == Head(q).data
    IN  [pkt  |-> [Head(q) EXCEPT !.data = SubSeq(data, 1, k)],
         rest |-> <<Raw(SubSeq(data, k + 1, Len(data)))>> \o Tail(q)]

\* The first packet together with the header and j payload cells of the second.
JoinedRead(q, j) ==
    LET next == q[2]
        left == SubSeq(next.data, j + 1, Len(next.data))
    IN  [pkt  |-> [Head(q) EXCEPT
                     !.data = @ \o <<HeaderCell>> \o SubSeq(next.data, 1, j)],
         rest |-> (IF left = <<>> THEN <<>> ELSE <<Raw(left)>>) \o Tail(Tail(q))]

ShortReads(q) ==
    IF isData(Head(q))
    THEN {ShortRead(q, k) : k \in 0 .. Len(Head(q).data) - 1}
    ELSE {}

JoinedReads(q) ==
    IF Len(q) > 1
    THEN {JoinedRead(q, j) :
            j \in {i \in 0 .. Len(q[2].data) :
                     1 + Len(Head(q).data) + 1 + i <= MaxCells}}
    ELSE {}

Reads(q) ==
    IF q = <<>> THEN {}
    ELSE {WholeRead(q)} \cup
         (IF Segmented THEN ShortReads(q) \cup JoinedReads(q) ELSE {})
-----------------------------------------------------------------------------
(***************************************************************************)
(* send on the client's socket, which is left in blocking mode: the packet *)
(* joins the stream, and send returns when all of the stream fits between  *)
(* the two ends.  Until then the client does nothing else.  The server     *)
(* reading, or the connection ending, makes room.                          *)
(* An empty packet_ack has size 0 and sends nothing.  A peer that has      *)
(* closed its end answers with a reset.                                    *)
(***************************************************************************)
ClientSends(c, p) ==
    IF p.op = "NONE" THEN c
    ELSE IF c.srv = "closed" THEN [c EXCEPT !.lost = TRUE]
    ELSE [c EXCEPT !.up = Append(@, p)]

SendReturned(c) == Len(c.up) <= SendRoom

\* closesocket on the client's end; a second close of the same socket fails.
ClientCloses(c) ==
    IF c.cli # "open" THEN c
    ELSE IF c.down # <<>> /\ c.srv # "closed"
         THEN [c EXCEPT !.cli = "aborted", !.rst = "owed", !.down = <<>>]
         ELSE [c EXCEPT !.cli = "closed", !.down = <<>>]

\* The reset reaches the server's host, which drops what was not read yet.
Reset(c) == [c EXCEPT !.rst = "arrived", !.up = <<>>]

\* send on the server's socket, which never waits (FIONBIO) and, with packets sent
\* in turn, never fills: the possible results and connections after it.
\* Data for a closed client end is answered with a reset; a reset that has
\* arrived makes send fail.
ServerSends(c, p) ==
    CASE c.rst = "arrived" -> {[ok |-> FALSE, conn |-> c]}
      [] c.rst = "owed"    -> {[ok |-> TRUE, conn |-> c],
                               [ok |-> FALSE, conn |-> Reset(c)]}
      [] OTHER ->
           IF c.cli = "open"
           THEN {[ok |-> TRUE, conn |-> [c EXCEPT !.down = Append(@, p)]]}
           ELSE {[ok |-> TRUE, conn |-> [c EXCEPT !.rst = "owed"]]}

\* closesocket on the server's end; closing with unread input resets the peer.
ServerCloses(c) ==
    [c EXCEPT !.srv = "closed", !.lost = @ \/ c.up # <<>>, !.up = <<>>]

\* What a read on the client's socket can find besides data: the end of the
\* stream, or a reset that took the unread data with it.
ServerGone(c) == c.srv = "closed" /\ (c.down = <<>> \/ c.lost)

\* recv on the server's socket returns 0: the client closed and all was read.
ClientGone(c) == c.up = <<>> /\ c.cli = "closed" /\ c.rst # "arrived"
-----------------------------------------------------------------------------
ResetArrives(s) ==
    /\ conn[s].rst = "owed"
    /\ conn[s].srv = "open"
    /\ conn' = [conn EXCEPT ![s] = Reset(@)]
    /\ UNCHANGED <<backlog, running>>

\* The operating system closes the sockets of a server process that died.
OsReclaims(s) ==
    /\ ~running
    /\ conn[s].srv \in {"backlog", "open"}
    /\ conn' = [conn EXCEPT ![s] = [ServerCloses(@) EXCEPT !.lost = TRUE]]
    /\ UNCHANGED <<backlog, running>>
=============================================================================

----------------------------- MODULE StreamProofs -----------------------------
(***************************************************************************)
(* What sendFile sends is what the server stores: theorems about files on  *)
(* their way to the server, for a recv that returns whole packets          *)
(* (~Segmented; the run split shows what happens otherwise).               *)
(***************************************************************************)
EXTENDS TftpProofs

-----------------------------------------------------------------------------
(***************************************************************************)
(* The inductive invariant.  A session of Putters sends the write request  *)
(* and then one DATA packet after the other, whatever it hears, so what is *)
(* in flight are the last packets it has sent; a slot that writes counts   *)
(* every DATA packet it takes.  Hence the packet a slot takes next is the  *)
(* one after its count.                                                    *)
(***************************************************************************)

\* What sendFile sends as its packet k, the write request being packet 0.
Sent(s, k) ==
    IF k = 0 THEN createWRQ(NameOf[s]) ELSE createData(k, ChunkOf(SourceOf[s], k))

\* up holds the last packets that s sent, up to the number last.
LastSent(s, up, last) ==
    /\ Len(up) <= last + 1
    /\ \A j \in 1 .. Len(up) : up[j] = Sent(s, last - Len(up) + j)

\* The request is sent.
Begun(t) == t.at \notin {"idle", "connected"}

\* The server has read nothing of what the client t sent.
Untouched(c, t) ==
    \/ Len(c.up) = t.last_packet_no + 1
    \/ c.up = <<>> /\ t.last_packet_no = 0 /\ t.at # "waiting"

EndsAgree(c, t) ==
    /\ t.at = "idle" => c.srv = "none" /\ c.rst = "no" /\ c.up = <<>>
    /\ t.at \in {"connected", "waiting"} => c.cli = "open"
    /\ c.rst # "no" => c.cli # "open"
    /\ c.rst = "arrived" \/ c.srv = "closed" => c.up = <<>>

PutterSends(s, c, t) ==
    /\ ~Begun(t) => c.up = <<>> /\ t.last_packet_no = 0
    /\ LastSent(s, c.up, t.last_packet_no)
    /\ (t.last_packet_no - 1) * DataCells <= Len(SourceOf[s])
    /\ t.at = "waiting" => t.last_packet_no * DataCells <= Len(SourceOf[s])
    /\ c.srv \in {"none", "backlog"} /\ c.rst # "arrived" => Untouched(c, t)

GetterSends(s, c, t) ==
    /\ \A j \in 1 .. Len(c.up) : isACK(c.up[j]) \/ c.up[j] = createRRQ(NameOf[s])
    /\ isACK(t.packet_ack) \/ t.packet_ack = Cleared

SessionOK(s, c, t) ==
    /\ EndsAgree(c, t)
    /\ s \in Putters => PutterSends(s, c, t)
    /\ s \in Getters => GetterSends(s, c, t)

\* A slot that serves nobody, or nobody's request yet, has its counter at zero.
CountsFromZero(cl) == ~cl.connected \/ cl.request = "UNDEFINED" => cl.block = 0

WaitsRequest(cl, c, t) ==
    cl.connected /\ cl.request = "UNDEFINED" /\ cl.client_socket \in Putters
        /\ c.srv = "open" /\ c.rst # "arrived" => Untouched(c, t)

ReadsFor(cl) ==
    cl.connected /\ cl.request = "READ" =>
        /\ cl.client_socket \in Getters
        /\ cl.name = NameOf[cl.client_socket]

WritesFor(cl, c, t) ==
    cl.connected /\ cl.request = "WRITE" =>
        /\ cl.client_socket \in Putters
        /\ cl.name = NameOf[cl.client_socket]
        /\ Begun(t)
        /\ c.srv = "open" /\ c.rst # "arrived" =>
               cl.block + Len(c.up) = t.last_packet_no
        /\ ~DiskMayFail => cl.good

SlotCounts(cl, c, t) ==
    CountsFromZero(cl) /\ WaitsRequest(cl, c, t) /\ ReadsFor(cl) /\ WritesFor(cl, c, t)

CountInv ==
    /\ \A s \in Sessions : SessionOK(s, conn[s], tx[s])
    /\ \A i \in Slots :
          IF clients[i].connected
          THEN LET s == clients[i].client_socket IN SlotCounts(clients[i], conn[s], tx[s])
          ELSE clients[i].block = 0
-----------------------------------------------------------------------------
(* The pipe of one session. *)

\* Without segmentation recv returns the first packet, whole.
LEMMA WholeReads ==
    ASSUME ~Segmented, NEW q \in Seq(Packet), NEW r \in Reads(q)
    PROVE  q # <<>> /\ r.pkt = Head(q) /\ r.rest = Tail(q)
BY DEF Reads, WholeRead

\* Taking the oldest packet leaves the last ones sent.
LEMMA LastSentTail ==
    ASSUME NEW s, NEW q \in Seq(Packet), q # <<>>, NEW last \in Nat, LastSent(s, q, last)
    PROVE  LastSent(s, Tail(q), last) /\ Head(q) = Sent(s, last - Len(q) + 1)
<1>1. /\ Len(q) \in Nat /\ Len(q) >= 1 /\ Len(Tail(q)) = Len(q) - 1
      /\ Head(q) = q[1]
      /\ \A j \in 1 .. Len(q) - 1 : Tail(q)[j] = q[j + 1]
  OBVIOUS
<1>2. \A j \in 1 .. Len(q) - 1 : Tail(q)[j] = Sent(s, last - Len(q) + (j + 1))
  BY <1>1 DEF LastSent
<1>3. \A j \in Int : last - Len(q) + (j + 1) = last - (Len(q) - 1) + j
  BY <1>1
<1> QED
  BY <1>1, <1>2, <1>3 DEF LastSent

\* Sending the next packet keeps up the last ones sent.
LEMMA LastSentAppend ==
    ASSUME NEW s, NEW q \in Seq(Packet), NEW last \in Nat, LastSent(s, q, last)
    PROVE  LastSent(s, Append(q, Sent(s, last + 1)), last + 1)
<1> DEFINE longer == Append(q, Sent(s, last + 1))
<1>1. /\ Len(q) \in Nat /\ Len(longer) = Len(q) + 1
      /\ \A j \in 1 .. Len(q) : longer[j] = q[j]
      /\ longer[Len(q) + 1] = Sent(s, last + 1)
  OBVIOUS
<1> HIDE DEF longer
<1>2. ASSUME NEW j \in 1 .. Len(longer)
      PROVE  longer[j] = Sent(s, (last + 1) - Len(longer) + j)
  <2>1. (last + 1) - Len(longer) + j = last - Len(q) + j
    BY <1>1
  <2>2. CASE j \in 1 .. Len(q)
    BY <1>1, <2>1, <2>2 DEF LastSent
  <2>3. CASE j = Len(q) + 1
    <3>1. last - Len(q) + j = last + 1
      BY <1>1, <2>3
    <3> QED
      BY <1>1, <2>1, <2>3, <3>1
  <2> QED
    BY <1>1, <2>2, <2>3
<1>3. Len(longer) <= (last + 1) + 1
  BY <1>1 DEF LastSent
<1> QED
  BY <1>2, <1>3 DEF LastSent, longer

\* What the server's end and the network do to a connection keeps its session:
\* they take packets from it, lose them all, close it or answer it.
LEMMA ServerSideKeeps ==
    ASSUME NEW s \in Sessions, NEW c \in Connection, NEW d \in Connection, NEW t \in Transfer,
           SessionOK(s, c, t), c.srv # "none",
           d.srv \in {"open", "closed"},
           d.cli = c.cli,
           d.up = c.up \/ d.up = <<>> \/ (c.up # <<>> /\ d.up = Tail(c.up)),
           d.rst # "no" => c.cli # "open",
           d.rst = "arrived" \/ d.srv = "closed" => d.up = <<>>
    PROVE  SessionOK(s, d, t)
<1>1. c.up \in Seq(Packet) /\ t.last_packet_no \in Nat
  BY DEF Connection, Transfer
<1>2. EndsAgree(d, t)
  BY DEF SessionOK, EndsAgree
<1>3. ASSUME s \in Putters PROVE PutterSends(s, d, t)
  <2>1. PutterSends(s, c, t)
    BY <1>3 DEF SessionOK
  <2>2. LastSent(s, <<>>, t.last_packet_no)
    BY <1>1 DEF LastSent
  <2>3. LastSent(s, d.up, t.last_packet_no)
    BY <1>1, <2>1, <2>2, LastSentTail DEF PutterSends
  <2>4. ~Begun(t) => d.up = <<>>
    BY <2>1 DEF PutterSends
  <2> QED
    BY <2>1, <2>3, <2>4 DEF PutterSends
<1>4. ASSUME s \in Getters PROVE GetterSends(s, d, t)
  <2>1. GetterSends(s, c, t)
    BY <1>4 DEF SessionOK
  <2>2. CASE d.up = <<>>
    BY <2>1, <2>2 DEF GetterSends
  <2>3. CASE d.up = c.up
    BY <2>1, <2>3 DEF GetterSends
  <2>4. CASE c.up # <<>> /\ d.up = Tail(c.up)
    <3>1. /\ Len(d.up) = Len(c.up) - 1 /\ Len(c.up) \in Nat
          /\ \A j \in 1 .. Len(c.up) - 1 : d.up[j] = c.up[j + 1]
      BY <1>1, <2>4
    <3> QED
      BY <2>1, <3>1 DEF GetterSends
  <2> QED
    BY <2>2, <2>3, <2>4
<1> QED
  BY <1>2, <1>3, <1>4 DEF SessionOK

\* recv on the server's socket.
LEMMA TakingKeeps ==
    ASSUME NEW s \in Sessions, NEW c \in Connection, NEW t \in Transfer,
           SessionOK(s, c, t), c.srv = "open", c.up # <<>>
    PROVE  LET d == [c EXCEPT !.up = Tail(c.up)]
           IN  /\ d \in Connection /\ d.srv = "open" /\ d.cli = c.cli
               /\ d.rst = c.rst /\ d.up = Tail(c.up)
               /\ SessionOK(s, d, t)
<1> DEFINE d == [c EXCEPT !.up = Tail(c.up)]
<1>1. Tail(c.up) \in Seq(Packet)
  BY DEF Connection
<1>2. /\ d \in Connection /\ d.srv = "open" /\ d.cli = c.cli
      /\ d.rst = c.rst /\ d.up = Tail(c.up)
  BY <1>1 DEF Connection
<1>3. c.rst # "arrived" /\ (c.rst # "no" => c.cli # "open")
  BY DEF SessionOK, EndsAgree
<1> HIDE DEF d
<1>4. SessionOK(s, d, t)
  BY <1>2, <1>3, ServerSideKeeps
<1> QED
  BY <1>2, <1>4 DEF d

\* send on the server's socket.
LEMMA SendingKeeps ==
    ASSUME NEW s \in Sessions, NEW c \in Connection, NEW t \in Transfer,
           SessionOK(s, c, t), c.srv = "open",
           NEW p \in Packet, NEW o \in ServerSends(c, p)
    PROVE  /\ o.conn \in Connection /\ o.conn.srv = "open"
           /\ SessionOK(s, o.conn, t)
           /\ o.conn.rst # "arrived" => o.conn.up = c.up /\ c.rst # "arrived"
<1>1. o.conn \in Connection /\ o.conn.srv = c.srv
  BY ServerSendsType
<1>2. c.rst # "no" => c.cli # "open"
  BY DEF SessionOK, EndsAgree
<1>3. /\ o.conn.cli = c.cli
      /\ o.conn.up = c.up \/ o.conn.rst = "arrived"
      /\ o.conn.rst # "no" => c.cli # "open"
      /\ o.conn.rst = "arrived" => o.conn.up = <<>>
      /\ c.rst = "arrived" => o.conn.rst = "arrived"
  <2>1. c.rst \in {"no", "owed", "arrived"} /\ (c.rst = "arrived" => c.up = <<>>)
    BY DEF Connection, SessionOK, EndsAgree
  <2>2. CASE c.rst = "arrived"
    <3>1. o = [ok |-> FALSE, conn |-> c]
      BY <2>2 DEF ServerSends
    <3> QED
      BY <1>2, <2>1, <2>2, <3>1
  <2>3. CASE c.rst = "owed"
    <3>1. o = [ok |-> TRUE, conn |-> c] \/ o = [ok |-> FALSE, conn |-> Reset(c)]
      BY <2>3 DEF ServerSends
    <3>2. Reset(c).cli = c.cli /\ Reset(c).up = <<>> /\ Reset(c).rst = "arrived"
      BY DEF Reset, Connection
    <3> QED
      BY <1>2, <2>3, <3>1, <3>2
  <2>4. CASE c.rst = "no"
    <3> DEFINE sent == [c EXCEPT !.down = Append(@, p)]
               owed == [c EXCEPT !.rst = "owed"]
    <3>1. \/ o = [ok |-> TRUE, conn |-> sent]
          \/ o = [ok |-> TRUE, conn |-> owed] /\ c.cli # "open"
      BY <2>4 DEF ServerSends
    <3>2. /\ sent.cli = c.cli /\ sent.up = c.up /\ sent.rst = "no"
          /\ owed.cli = c.cli /\ owed.up = c.up /\ owed.rst = "owed"
      BY <2>4 DEF Connection
    <3> HIDE DEF sent, owed
    <3>3. o.conn = sent \/ (o.conn = owed /\ c.cli # "open")
      BY <3>1
    <3> QED
      BY <2>4, <3>2, <3>3
  <2> QED
    BY <2>1, <2>2, <2>3, <2>4
<1>4. SessionOK(s, o.conn, t)
  BY <1>1, <1>3, ServerSideKeeps
<1> QED
  BY <1>1, <1>3, <1>4

\* closesocket on the server's socket.
LEMMA ClosingKeeps ==
    ASSUME NEW s \in Sessions, NEW c \in Connection, NEW t \in Transfer,
           SessionOK(s, c, t), c.srv # "none"
    PROVE  ServerCloses(c) \in Connection /\ SessionOK(s, ServerCloses(c), t)
<1>0. Cleared \in Packet
  BY PacketTypes
<1>1. ServerCloses(c) \in Connection /\ ServerCloses(c).srv = "closed"
  BY <1>0, ConnectionTypes
<1>2. /\ ServerCloses(c).cli = c.cli /\ ServerCloses(c).up = <<>>
      /\ ServerCloses(c).rst = c.rst
  BY DEF ServerCloses, Connection
<1>3. c.rst # "no" => c.cli # "open"
  BY DEF SessionOK, EndsAgree
<1> QED
  BY <1>1, <1>2, <1>3, ServerSideKeeps
-----------------------------------------------------------------------------
(* What the clients do to their sessions. *)

\* From (c, t) to (d, u) a client sends nothing, or what comes next, and the
\* server reads nothing.
Forwards(c, t, d, u) ==
    /\ Begun(t) => Begun(u)
    /\ d.srv = "open" => c.srv = "open"
    /\ d.srv = "open" /\ d.rst # "arrived" =>
           /\ c.rst # "arrived"
           /\ Untouched(c, t) => Untouched(d, u)
           /\ Begun(t) => Len(d.up) - u.last_packet_no = Len(c.up) - t.last_packet_no

ClientMoves(s) ==
    \E u, d : /\ Move(s, u, d)
              /\ u \in Transfer /\ d \in Connection
              /\ SessionOK(s, d, u)
              /\ s \in Putters => Forwards(conn[s], tx[s], d, u)

\* A slot's count stays right when its client goes on.
LEMMA CountFollows ==
    ASSUME NEW cl \in ServerClient,
           NEW c \in Connection, NEW d \in Connection,
           NEW t \in Transfer, NEW u \in Transfer,
           SlotCounts(cl, c, t),
           cl.client_socket \in Putters => Forwards(c, t, d, u)
    PROVE  SlotCounts(cl, d, u)
<1>1. /\ Len(c.up) \in Nat /\ Len(d.up) \in Nat /\ cl.block \in Nat
      /\ t.last_packet_no \in Nat /\ u.last_packet_no \in Nat
  BY DEF Connection, Transfer, ServerClient
<1>2. CountsFromZero(cl) /\ ReadsFor(cl)
  BY DEF SlotCounts
<1>3. WaitsRequest(cl, d, u)
  BY DEF SlotCounts, WaitsRequest, Forwards
<1>4. ASSUME cl.connected, cl.request = "WRITE"
      PROVE  /\ cl.client_socket \in Putters
             /\ cl.name = NameOf[cl.client_socket]
             /\ Begun(u)
             /\ ~DiskMayFail => cl.good
             /\ d.srv = "open" /\ d.rst # "arrived" =>
                    cl.block + Len(d.up) = u.last_packet_no
  <2>1. /\ cl.client_socket \in Putters
        /\ cl.name = NameOf[cl.client_socket]
        /\ Begun(t)
        /\ ~DiskMayFail => cl.good
        /\ c.srv = "open" /\ c.rst # "arrived" => cl.block + Len(c.up) = t.last_packet_no
    BY <1>4 DEF SlotCounts, WritesFor
  <2>2. Forwards(c, t, d, u)
    BY <2>1
  <2>3. ASSUME d.srv = "open", d.rst # "arrived"
        PROVE  cl.block + Len(d.up) = u.last_packet_no
    <3>1. /\ cl.block + Len(c.up) = t.last_packet_no
          /\ Len(d.up) - u.last_packet_no = Len(c.up) - t.last_packet_no
      BY <2>1, <2>2, <2>3 DEF Forwards
    <3> QED
      BY <1>1, <3>1
  <2> QED
    BY <2>1, <2>2, <2>3 DEF Forwards
<1>5. WritesFor(cl, d, u)
  BY <1>4 DEF WritesFor
<1> QED
  BY <1>2, <1>3, <1>5 DEF SlotCounts

\* A client that sends nothing: it may have read, closed its end or ended.
LEMMA SilentKeeps ==
    ASSUME NEW s \in Sessions, NEW c \in Connection, NEW d \in Connection,
           NEW t \in Transfer, NEW u \in Transfer,
           SessionOK(s, c, t),
           d.up = c.up, d.srv = c.srv,
           d.rst = c.rst \/ (d.rst = "owed" /\ c.rst # "arrived"),
           d.rst # "no" => d.cli # "open",
           u.last_packet_no = t.last_packet_no, u.packet_ack = t.packet_ack,
           u.at = t.at \/ u.at \in {"closing", "done", "spinning"},
           u.at # "idle",
           u.at \in {"connected", "waiting"} => d.cli = "open"
    PROVE  SessionOK(s, d, u) /\ (s \in Putters => Forwards(c, t, d, u))
<1>1. EndsAgree(d, u)
  BY DEF SessionOK, EndsAgree
<1>2. Untouched(c, t) => Untouched(d, u)
  BY DEF Untouched
<1>3. ASSUME s \in Putters PROVE PutterSends(s, d, u)
  <2>1. PutterSends(s, c, t)
    BY <1>3 DEF SessionOK
  <2> QED
    BY <1>2, <2>1 DEF PutterSends, Begun
<1>4. ASSUME s \in Getters PROVE GetterSends(s, d, u)
  BY <1>4 DEF SessionOK, GetterSends
<1>5. Forwards(c, t, d, u)
  BY <1>2 DEF Forwards, Begun
<1> QED
  BY <1>1, <1>3, <1>4, <1>5 DEF SessionOK

\* closesocket on the client's socket.
LEMMA ClientClosing ==
    ASSUME NEW c \in Connection, c.rst # "no" => c.cli # "open"
    PROVE  LET d == ClientCloses(c)
           IN  /\ d \in Connection /\ d.up = c.up /\ d.srv = c.srv
               /\ d.rst = c.rst \/ (d.rst = "owed" /\ c.rst # "arrived")
               /\ d.cli # "open"
<1> DEFINE aborted == [c EXCEPT !.cli = "aborted", !.rst = "owed", !.down = <<>>]
           closed == [c EXCEPT !.cli = "closed", !.down = <<>>]
<1>0. Cleared \in Packet
  BY PacketTypes
<1>1. ClientCloses(c) \in Connection /\ ClientCloses(c).srv = c.srv
  BY <1>0, ConnectionTypes
<1>2. /\ aborted.up = c.up /\ aborted.rst = "owed" /\ aborted.cli = "aborted"
      /\ closed.up = c.up /\ closed.rst = c.rst /\ closed.cli = "closed"
  BY DEF Connection
<1> HIDE DEF aborted, closed
<1>3. \/ ClientCloses(c) = c /\ c.cli # "open"
      \/ (ClientCloses(c) = aborted \/ ClientCloses(c) = closed) /\ c.cli = "open"
  BY DEF ClientCloses, aborted, closed
<1> QED
  BY <1>1, <1>2, <1>3

\* send on the client's socket.
LEMMA ClientSending ==
    ASSUME NEW c \in Connection, NEW p \in Packet, p.op # "NONE"
    PROVE  LET d == ClientSends(c, p)
           IN  /\ d \in Connection /\ d.srv = c.srv /\ d.rst = c.rst /\ d.cli = c.cli
               /\ c.srv = "closed" => d.up = c.up
               /\ c.srv # "closed" => d.up = Append(c.up, p)
<1>1. ClientSends(c, p) \in Connection /\ ClientSends(c, p).srv = c.srv
  BY ConnectionTypes
<1>2. CASE c.srv = "closed"
  <2>1. ClientSends(c, p) = [c EXCEPT !.lost = TRUE]
    BY <1>2 DEF ClientSends
  <2> QED
    BY <1>1, <1>2, <2>1 DEF Connection
<1>3. CASE c.srv # "closed"
  <2>1. ClientSends(c, p) = [c EXCEPT !.up = Append(@, p)]
    BY <1>3 DEF ClientSends
  <2> QED
    BY <1>1, <1>3, <2>1 DEF Connection
<1> QED
  BY <1>2, <1>3

\* The next block of the file, sent after an answer, a timeout or an error.
LEMMA SendNextMoves ==
    ASSUME TypeInv, NEW s \in Putters, PutWaits(s), SessionOK(s, conn[s], tx[s]),
           NEW c \in Connection, c.up = conn[s].up, c.srv = conn[s].srv,
           c.rst = conn[s].rst, c.cli = conn[s].cli,
           SendNextData(s, c)
    PROVE  ClientMoves(s)
<1>1. /\ s \in Sessions /\ tx[s] \in Transfer /\ tx[s].at = "waiting"
      /\ conn[s] \in Connection /\ SourceOf[s] \in Seq(Cell)
  BY ClientAssumption DEF TypeInv, TypeOK, ClientTypeOK, NetTypeOK, PutWaits
<1> DEFINE last == tx[s].last_packet_no
           n == last + 1
           p == createData(n, ChunkOf(SourceOf[s], n))
           eof == EndsAt(SourceOf[s], n)
           u == [tx[s] EXCEPT !.last_packet_no = n,
                              !.at = IF eof THEN "closing" ELSE @,
                              !.result = IF eof THEN "ok" ELSE @]
           d == ClientSends(c, p)
<1>2. last \in Nat /\ n \in Nat \ {0} /\ n # 0 /\ n - 1 = last
  BY <1>1 DEF Transfer
<1>3. p \in Packet /\ p.op = "DATA"
  <2>1. p \in Packet
    BY <1>1, <1>2, ChunkType, PacketTypes
  <2> QED
    BY <2>1 DEF createData, Cleared
<1>4. p = Sent(s, n)
  BY <1>2 DEF Sent
<1>5. Move(s, u, d)
  BY DEF SendNextData, SendData
<1>6. u \in Transfer /\ u.last_packet_no = n /\ u.packet_ack = tx[s].packet_ack
      /\ (eof => u.at = "closing") /\ (~eof => u.at = "waiting")
  BY <1>1, <1>2 DEF Transfer
<1> HIDE DEF p
<1>7. /\ d \in Connection /\ d.srv = c.srv /\ d.rst = c.rst /\ d.cli = c.cli
      /\ c.srv = "closed" => d.up = c.up
      /\ c.srv # "closed" => d.up = Append(c.up, p)
  BY <1>3, ClientSending
<1>8. EndsAgree(conn[s], tx[s]) /\ PutterSends(s, conn[s], tx[s])
  BY DEF SessionOK
<1>9. /\ last * DataCells <= Len(SourceOf[s])
      /\ ~eof => n * DataCells <= Len(SourceOf[s])
  <2>1. n * DataCells \in Int /\ Len(SourceOf[s]) \in Int
    BY <1>1, <1>2, PacketAssumption
  <2> QED
    BY <1>1, <1>8, <2>1 DEF PutterSends, EndsAt
<1> HIDE DEF u, d, eof
<1>10. c.cli = "open" /\ c.rst = "no" /\ (c.srv = "closed" => c.up = <<>>)
  <2>1. c.rst \in {"no", "owed", "arrived"}
    BY DEF Connection
  <2> QED
    BY <1>1, <1>8, <2>1 DEF EndsAgree
<1>11. c.up \in Seq(Packet)
  BY DEF Connection
<1>12. EndsAgree(d, u)
  BY <1>6, <1>7, <1>10 DEF EndsAgree
<1>13. LastSent(s, d.up, n)
  <2>1. CASE c.srv = "closed"
    <3>1. d.up = <<>>
      BY <1>7, <1>10, <2>1
    <3> QED
      BY <1>2, <3>1 DEF LastSent
  <2>2. CASE c.srv # "closed"
    <3>1. LastSent(s, c.up, last)
      BY <1>8 DEF PutterSends
    <3> QED
      BY <1>2, <1>4, <1>7, <1>11, <2>2, <3>1, LastSentAppend
  <2> QED
    BY <2>1, <2>2
<1>14. c.srv # "closed" => Len(d.up) = Len(c.up) + 1
  BY <1>7, <1>11
<1>15. Untouched(conn[s], tx[s]) /\ c.srv # "closed" => Untouched(d, u)
  BY <1>1, <1>2, <1>6, <1>11, <1>14 DEF Untouched
<1>16. PutterSends(s, d, u)
  <2>1. Begun(u)
    BY <1>6 DEF Begun
  <2>2. (u.last_packet_no - 1) * DataCells <= Len(SourceOf[s])
    BY <1>2, <1>6, <1>9
  <2>3. u.at = "waiting" => u.last_packet_no * DataCells <= Len(SourceOf[s])
    BY <1>6, <1>9
  <2>4. d.srv \in {"none", "backlog"} /\ d.rst # "arrived" => Untouched(d, u)
    BY <1>7, <1>8, <1>15 DEF PutterSends
  <2> QED
    BY <1>6, <1>13, <2>1, <2>2, <2>3, <2>4 DEF PutterSends
<1>17. Forwards(conn[s], tx[s], d, u)
  <2>1. Begun(u)
    BY <1>6 DEF Begun
  <2>2. ASSUME d.srv = "open" PROVE Len(d.up) - n = Len(c.up) - last
    <3>1. Len(d.up) = Len(c.up) + 1 /\ Len(c.up) \in Nat
      BY <1>7, <1>11, <1>14, <2>2
    <3>2. \A a, b \in Nat : (a + 1) - (b + 1) = a - b
      OBVIOUS
    <3> QED
      BY <1>2, <3>1, <3>2
  <2> QED
    BY <1>6, <1>7, <1>15, <2>1, <2>2 DEF Forwards
<1>18. SessionOK(s, d, u)
  BY <1>12, <1>16, ClientAssumption DEF SessionOK
<1> QED
  BY <1>5, <1>6, <1>7, <1>17, <1>18 DEF ClientMoves

\* tftpSend, but for what SendNextMoves says.
LEMMA PutterMoves ==
    ASSUME TypeInv, ~Segmented, NEW s \in Putters, SessionOK(s, conn[s], tx[s]),
           SendWRQ(s) \/ SourceUnreadable(s) \/ PutAnswered(s) \/ PutConnectionLost(s)
           \/ PutTimesOut(s)
    PROVE  ClientMoves(s)
<1>1. /\ s \in Sessions /\ tx[s] \in Transfer /\ conn[s] \in Connection
      /\ NameOf[s] \in Names
  BY ClientAssumption DEF TypeInv, TypeOK, ClientTypeOK, NetTypeOK
<1>2. EndsAgree(conn[s], tx[s]) /\ PutterSends(s, conn[s], tx[s])
  BY DEF SessionOK
<1>3. CASE SendWRQ(s)
  <2> DEFINE p == createWRQ(NameOf[s])
             d == ClientSends(conn[s], p)
             u == [tx[s] EXCEPT !.at = "waiting"]
  <2>1. tx[s].at = "connected" /\ Move(s, u, d)
    BY <1>3 DEF SendWRQ
  <2>2. p \in Packet /\ p.op = "WRQ" /\ p = Sent(s, 0)
    <3>1. p \in Packet
      BY <1>1, PacketTypes
    <3> QED
      BY <3>1 DEF createWRQ, Cleared, Sent
  <2>3. conn[s].up = <<>> /\ tx[s].last_packet_no = 0 /\ conn[s].cli = "open"
    BY <1>2, <2>1 DEF EndsAgree, PutterSends, Begun
  <2>4. /\ u \in Transfer /\ u.last_packet_no = 0 /\ u.at = "waiting"
    BY <1>1, <2>3 DEF Transfer
  <2> HIDE DEF p, u
  <2>5. /\ d \in Connection /\ d.srv = conn[s].srv /\ d.rst = conn[s].rst
        /\ d.cli = conn[s].cli
        /\ conn[s].srv = "closed" => d.up = <<>>
        /\ conn[s].srv # "closed" => d.up = <<p>>
    <3>1. <<p>> = Append(<<>>, p)
      OBVIOUS
    <3> QED
      BY <1>1, <2>2, <2>3, <3>1, ClientSending
  <2> HIDE DEF d
  <2>6. EndsAgree(d, u)
    BY <1>2, <2>3, <2>4, <2>5 DEF EndsAgree
  <2>7. LastSent(s, d.up, 0)
    <3>1. LastSent(s, <<>>, 0)
      BY DEF LastSent
    <3>2. ASSUME NEW up, up = <<p>> PROVE LastSent(s, up, 0)
      <4>1. Len(up) = 1 /\ up[1] = p
        BY <3>2
      <4>2. \A j \in 1 .. 1 : j = 1 /\ 0 - 1 + j = 0
        OBVIOUS
      <4> QED
        BY <2>2, <4>1, <4>2 DEF LastSent
    <3> QED
      BY <2>5, <3>1, <3>2
  <2>8. Untouched(conn[s], tx[s]) /\ (conn[s].srv # "closed" => Untouched(d, u))
    <3>1. Len(<<p>>) = 0 + 1
      OBVIOUS
    <3>2. Untouched(conn[s], tx[s])
      BY <2>1, <2>3 DEF Untouched
    <3>3. conn[s].srv # "closed" => Untouched(d, u)
      BY <2>4, <2>5, <3>1 DEF Untouched
    <3> QED
      BY <3>2, <3>3
  <2>9. PutterSends(s, d, u)
    <3>1. (0 - 1) * DataCells <= Len(SourceOf[s]) /\ 0 * DataCells <= Len(SourceOf[s])
      <4>1. Len(SourceOf[s]) \in Nat /\ DataCells \in Nat
        BY ClientAssumption, PacketAssumption
      <4> QED
        BY <4>1
    <3> QED
      BY <2>4, <2>5, <2>7, <2>8, <3>1 DEF PutterSends, Begun
  <2>10. Forwards(conn[s], tx[s], d, u)
    BY <2>1, <2>4, <2>5, <2>8 DEF Forwards, Begun
  <2> QED
    BY <2>1, <2>4, <2>5, <2>6, <2>9, <2>10, ClientAssumption DEF ClientMoves, SessionOK
<1>4. CASE SourceUnreadable(s)
  <2> DEFINE u == [tx[s] EXCEPT !.at = "closing", !.result = "error"]
  <2>1. Move(s, u, conn[s])
    BY <1>4 DEF SourceUnreadable
  <2>2. /\ u \in Transfer /\ u.last_packet_no = tx[s].last_packet_no
        /\ u.packet_ack = tx[s].packet_ack /\ u.at = "closing"
    BY <1>1 DEF Transfer
  <2> HIDE DEF u
  <2>3. conn[s].rst # "no" => conn[s].cli # "open"
    BY <1>2 DEF EndsAgree
  <2>4. SessionOK(s, conn[s], u) /\ Forwards(conn[s], tx[s], conn[s], u)
    BY <1>1, <2>2, <2>3, SilentKeeps
  <2> QED
    BY <1>1, <2>1, <2>2, <2>4 DEF ClientMoves
<1>5. CASE PutAnswered(s)
  <2>1. PICK r \in Reads(conn[s].down) : SendNextData(s, Heard(s, r))
    BY <1>5 DEF PutAnswered
  <2>2. PutWaits(s)
    BY <1>5 DEF PutAnswered
  <2>3. /\ Heard(s, r).up = conn[s].up /\ Heard(s, r).srv = conn[s].srv
        /\ Heard(s, r).rst = conn[s].rst /\ Heard(s, r).cli = conn[s].cli
        /\ Heard(s, r) \in Connection
    BY <1>1, HeardType DEF Heard, Connection
  <2> QED
    BY <2>1, <2>2, <2>3, SendNextMoves
<1>6. CASE PutConnectionLost(s)
  <2> DEFINE c == [conn[s] EXCEPT !.down = <<>>]
  <2>1. PutWaits(s) /\ SendNextData(s, c)
    BY <1>6 DEF PutConnectionLost
  <2>2. /\ c \in Connection /\ c.up = conn[s].up /\ c.srv = conn[s].srv
        /\ c.rst = conn[s].rst /\ c.cli = conn[s].cli
    <3>1. <<>> \in Seq(Packet)
      OBVIOUS
    <3> QED
      BY <1>1, <3>1 DEF Connection
  <2> HIDE DEF c
  <2> QED
    BY <2>1, <2>2, SendNextMoves
<1>7. CASE PutTimesOut(s)
  <2>1. PutWaits(s) /\ SendNextData(s, conn[s])
    BY <1>7 DEF PutTimesOut
  <2> QED
    BY <1>1, <2>1, SendNextMoves
<1> QED
  BY <1>3, <1>4, <1>5, <1>6, <1>7

\* getFile sends its request and acknowledgements, nothing else.
LEMMA GetterKeeps ==
    ASSUME NEW s \in Getters, NEW c \in Connection, NEW d \in Connection,
           NEW t \in Transfer, NEW u \in Transfer,
           SessionOK(s, c, t),
           d.srv = c.srv, d.rst = c.rst, d.cli = c.cli,
           NEW p, isACK(p) \/ p = createRRQ(NameOf[s]),
           d.up = c.up \/ (d.up = Append(c.up, p) /\ c.srv # "closed" /\ c.cli = "open"),
           isACK(u.packet_ack) \/ u.packet_ack = t.packet_ack,
           u.at # "idle",
           u.at \in {"connected", "waiting"} => c.cli = "open"
    PROVE  SessionOK(s, d, u)
<1>1. c.up \in Seq(Packet) /\ c.rst \in {"no", "owed", "arrived"}
  BY DEF Connection
<1>2. EndsAgree(d, u)
  BY <1>1 DEF SessionOK, EndsAgree
<1>3. GetterSends(s, c, t)
  BY DEF SessionOK
<1>4. GetterSends(s, d, u)
  <2>1. CASE d.up = c.up
    BY <1>3, <2>1 DEF GetterSends
  <2>2. CASE d.up = Append(c.up, p)
    <3>1. /\ Len(d.up) = Len(c.up) + 1 /\ Len(c.up) \in Nat
          /\ \A j \in 1 .. Len(c.up) : d.up[j] = c.up[j]
          /\ d.up[Len(c.up) + 1] = p
      BY <1>1, <2>2
    <3>2. \A j \in 1 .. Len(d.up) : j \in 1 .. Len(c.up) \/ j = Len(c.up) + 1
      BY <3>1
    <3> QED
      BY <1>3, <3>1, <3>2 DEF GetterSends
  <2> QED
    BY <2>1, <2>2
<1> QED
  BY <1>2, <1>4, ClientAssumption DEF SessionOK

\* What a session of Getters needs for ClientMoves.
LEMMA GetterMovesIf ==
    ASSUME NEW s \in Getters, NEW u \in Transfer, NEW d \in Connection,
           Move(s, u, d), SessionOK(s, d, u)
    PROVE  ClientMoves(s)
BY ClientAssumption DEF ClientMoves

\* Every step of getFile is such a move.
LEMMA GetterMoves ==
    ASSUME TypeInv, NEW s \in Getters, SessionOK(s, conn[s], tx[s]),
           \/ SendRRQ(s) \/ GetExpected(s) \/ GetOversized(s) \/ GetMismatch(s)
           \/ GetConnectionLost(s) \/ GetTimesOut(s)
    PROVE  ClientMoves(s)
<1> DEFINE c == conn[s]
           t == tx[s]
<1>1. /\ s \in Sessions /\ t \in Transfer /\ c \in Connection
      /\ NameOf[s] \in Names
  BY ClientAssumption DEF TypeInv, TypeOK, ClientTypeOK, NetTypeOK
<1>2. /\ EndsAgree(c, t) /\ GetterSends(s, c, t)
      /\ c.rst = "no" \/ c.cli # "open"
  BY <1>1 DEF SessionOK, EndsAgree
<1>3. \A r \in Reads(c.down) :
          /\ Heard(s, r) \in Connection
          /\ Heard(s, r).up = c.up /\ Heard(s, r).srv = c.srv
          /\ Heard(s, r).rst = c.rst /\ Heard(s, r).cli = c.cli
  BY <1>1, HeardType DEF Heard, Connection
<1> DEFINE rrq == createRRQ(NameOf[s])
<1>4. rrq \in Packet /\ rrq.op = "RRQ"
  <2>1. rrq \in Packet
    BY <1>1, PacketTypes
  <2> QED
    BY <2>1 DEF createRRQ, Cleared
<1>5. \A n \in Nat : createACK(n) \in Packet /\ isACK(createACK(n)) /\ createACK(n).op # "NONE"
  <2>1. \A n \in Nat : createACK(n) \in Packet
    BY PacketTypes
  <2> QED
    BY <2>1 DEF createACK, Cleared, isACK
<1>6. CASE SendRRQ(s)
  <2> DEFINE u == [t EXCEPT !.at = "waiting", !.last_packet_no = 1]
             d == ClientSends(c, rrq)
  <2>1. t.at = "connected" /\ Move(s, u, d)
    BY <1>6 DEF SendRRQ
  <2>2. u \in Transfer /\ u.at = "waiting" /\ u.packet_ack = t.packet_ack
    BY <1>1 DEF Transfer
  <2> HIDE DEF u, rrq
  <2>3. /\ d \in Connection /\ d.srv = c.srv /\ d.rst = c.rst /\ d.cli = c.cli
        /\ d.up = c.up \/ (d.up = Append(c.up, rrq) /\ c.srv # "closed")
    BY <1>1, <1>4, ClientSending
  <2>4. c.cli = "open"
    BY <1>2, <2>1 DEF EndsAgree
  <2> HIDE DEF c, t, d
  <2>5. SessionOK(s, d, u)
    BY <1>1, <2>2, <2>3, <2>4, GetterKeeps DEF c, t, rrq
  <2> QED
    BY <2>1, <2>2, <2>3, <2>5, GetterMovesIf
<1>7. CASE GetExpected(s)
  <2>1. PICK r \in Reads(c.down) : Take(s, r, t.last_packet_no)
    BY <1>7 DEF GetExpected
  <2>2. t.at = "waiting"
    BY <1>7 DEF GetExpected, GetWaits
  <2> DEFINE ack == createACK(t.last_packet_no)
             old == Accepted(t)
             last == Len(r.pkt.data) < DataCells
             u == [old EXCEPT !.packet_ack = ack,
                              !.file = @ \o r.pkt.data,
                              !.at = IF last THEN "closing" ELSE @,
                              !.result = IF last THEN "ok" ELSE @]
             d == ClientSends(Heard(s, r), ack)
  <2>3. Move(s, u, d)
    BY <2>1 DEF Take
  <2>4. ack \in Packet /\ isACK(ack) /\ ack.op # "NONE"
    BY <1>1, <1>5 DEF Transfer
  <2>5. u \in Transfer /\ u.packet_ack = ack /\ u.at # "idle"
    <3>1. old \in Transfer /\ old.at = "waiting"
      BY <1>1, <2>2, AcceptedType
    <3>2. r.pkt \in Packet
      BY <1>1, <2>1, HeardType
    <3> HIDE DEF old, ack
    <3>3. old.file \o r.pkt.data \in Payload
      BY <3>1, <3>2 DEF Transfer, Payload, Packet
    <3> QED
      BY <2>4, <3>1, <3>3 DEF Transfer
  <2> HIDE DEF u, ack
  <2>6. /\ d \in Connection /\ d.srv = c.srv /\ d.rst = c.rst /\ d.cli = c.cli
        /\ d.up = c.up \/ (d.up = Append(c.up, ack) /\ c.srv # "closed")
    <3> DEFINE h == Heard(s, r)
    <3>1. h \in Connection /\ h.up = c.up /\ h.srv = c.srv /\ h.rst = c.rst /\ h.cli = c.cli
      BY <1>3, <2>1
    <3> HIDE DEF h
    <3>2. LET e == ClientSends(h, ack)
          IN  /\ e \in Connection /\ e.srv = h.srv /\ e.rst = h.rst /\ e.cli = h.cli
              /\ h.srv = "closed" => e.up = h.up
              /\ h.srv # "closed" => e.up = Append(h.up, ack)
      BY <2>4, <3>1, ClientSending
    <3> QED
      BY <3>1, <3>2 DEF h
  <2>7. c.cli = "open"
    BY <1>2, <2>2 DEF EndsAgree
  <2> HIDE DEF c, t, d
  <2>8. SessionOK(s, d, u)
    BY <1>1, <2>4, <2>5, <2>6, <2>7, GetterKeeps DEF c, t
  <2> QED
    BY <2>3, <2>5, <2>6, <2>8, GetterMovesIf
<1>8. CASE GetOversized(s) \/ GetMismatch(s)
  <2>1. PICK r \in Reads(c.down), u \in {t, Accepted(t)} : Move(s, u, Heard(s, r))
    BY <1>8 DEF GetOversized, GetMismatch
  <2>2. t.at = "waiting"
    BY <1>8 DEF GetOversized, GetMismatch, GetWaits
  <2>3. u \in Transfer /\ u.at = "waiting" /\ u.packet_ack = t.packet_ack
    <3>1. Accepted(t).packet_ack = t.packet_ack
      BY <1>1 DEF Accepted, Transfer
    <3> QED
      BY <1>1, <2>1, <2>2, <3>1, AcceptedType
  <2>4. c.cli = "open"
    BY <1>2, <2>2 DEF EndsAgree
  <2>5. SessionOK(s, Heard(s, r), u)
    BY <1>1, <1>3, <2>1, <2>3, <2>4, GetterKeeps
  <2> QED
    BY <1>3, <2>1, <2>3, <2>5, GetterMovesIf
<1>9. CASE GetConnectionLost(s)
  <2> DEFINE u == [t EXCEPT !.at = "spinning"]
             d == [c EXCEPT !.down = <<>>]
  <2>1. Move(s, u, d)
    BY <1>9 DEF GetConnectionLost
  <2>2. u \in Transfer /\ u.at = "spinning" /\ u.packet_ack = t.packet_ack
    BY <1>1 DEF Transfer
  <2>3. d \in Connection /\ d.srv = c.srv /\ d.rst = c.rst /\ d.cli = c.cli /\ d.up = c.up
    <3>1. <<>> \in Seq(Packet)
      OBVIOUS
    <3> QED
      BY <1>1, <3>1 DEF Connection
  <2> HIDE DEF u, d
  <2>4. SessionOK(s, d, u)
    BY <1>1, <2>2, <2>3, GetterKeeps
  <2> QED
    BY <2>1, <2>2, <2>3, <2>4, GetterMovesIf
<1>10. CASE GetTimesOut(s)
  <2> DEFINE u == [t EXCEPT !.timeout_count = @ + 1]
             gone == [u EXCEPT !.at = "closing", !.result = "error"]
             d == ClientSends(c, u.packet_ack)
  <2>1. t.at = "waiting" /\ (Move(s, u, d) \/ Move(s, gone, c))
    BY <1>10 DEF GetTimesOut, GetWaits
  <2>2. u \in Transfer /\ u.at = "waiting" /\ u.packet_ack = t.packet_ack
    BY <1>1, <2>1 DEF Transfer
  <2> HIDE DEF u
  <2>3. gone \in Transfer /\ gone.at = "closing" /\ gone.packet_ack = t.packet_ack
    BY <2>2 DEF Transfer
  <2> HIDE DEF gone
  <2>4. c.cli = "open"
    BY <1>2, <2>1 DEF EndsAgree
  <2>5. CASE Move(s, gone, c)
    <3>1. SessionOK(s, c, gone)
      BY <1>1, <2>3, GetterKeeps
    <3> QED
      BY <1>1, <2>3, <2>5, <3>1, GetterMovesIf
  <2>6. CASE Move(s, u, d) /\ t.packet_ack.op = "NONE"
    <3>1. d = c
      BY <2>2, <2>6 DEF ClientSends
    <3>2. SessionOK(s, c, u)
      BY <1>1, <2>2, <2>4, GetterKeeps
    <3> QED
      BY <1>1, <2>2, <2>6, <3>1, <3>2, GetterMovesIf
  <2>7. CASE Move(s, u, d) /\ t.packet_ack.op # "NONE"
    <3>1. isACK(t.packet_ack) /\ t.packet_ack \in Packet
      BY <1>1, <1>2, <2>7 DEF GetterSends, Cleared, Transfer
    <3>2. /\ d \in Connection /\ d.srv = c.srv /\ d.rst = c.rst /\ d.cli = c.cli
          /\ d.up = c.up \/ (d.up = Append(c.up, t.packet_ack) /\ c.srv # "closed")
      BY <1>1, <2>2, <2>7, <3>1, ClientSending
    <3> HIDE DEF d, c, t
    <3>3. SessionOK(s, d, u)
      BY <1>1, <2>2, <2>4, <3>1, <3>2, GetterKeeps DEF c, t
    <3> QED
      BY <2>2, <2>7, <3>2, <3>3, GetterMovesIf
  <2> QED
    BY <2>1, <2>5, <2>6, <2>7
<1> QED
  BY <1>6, <1>7, <1>8, <1>9, <1>10

\* Opening a connection, failing to, and the ends that sendFile and getFile share.
LEMMA EitherMoves ==
    ASSUME TypeInv, NEW s \in Sessions, SessionOK(s, conn[s], tx[s]),
           connectToServer(s) \/ ConnectFails(s) \/ ErrorReceived(s) \/ Destructor(s)
    PROVE  ClientMoves(s)
<1> DEFINE c == conn[s]
           t == tx[s]
<1>1. t \in Transfer /\ c \in Connection
  BY DEF TypeInv, TypeOK, ClientTypeOK, NetTypeOK
<1>2. EndsAgree(c, t)
  BY DEF SessionOK
<1>3. CASE connectToServer(s)
  <2> DEFINE u == [t EXCEPT !.at = "connected"]
             d == [c EXCEPT !.cli = "open", !.srv = "backlog"]
  <2>1. t.at = "idle" /\ Move(s, u, d)
    BY <1>3 DEF connectToServer
  <2>2. /\ u \in Transfer /\ u.at = "connected" /\ u.packet_ack = t.packet_ack
        /\ u.last_packet_no = t.last_packet_no
        /\ d \in Connection /\ d.cli = "open" /\ d.srv = "backlog"
        /\ d.rst = c.rst /\ d.up = c.up
    BY <1>1 DEF Transfer, Connection
  <2> HIDE DEF u, d
  <2>3. c.rst = "no" /\ c.up = <<>>
    BY <1>2, <2>1 DEF EndsAgree
  <2>4. EndsAgree(d, u)
    BY <2>2, <2>3 DEF EndsAgree
  <2>5. ASSUME s \in Putters PROVE PutterSends(s, d, u)
    <3>1. PutterSends(s, c, t)
      BY <2>5 DEF SessionOK
    <3>2. t.last_packet_no = 0
      BY <2>1, <3>1 DEF PutterSends, Begun
    <3> QED
      BY <2>2, <2>3, <3>1, <3>2 DEF PutterSends, Begun, Untouched
  <2>6. ASSUME s \in Getters PROVE GetterSends(s, d, u)
    BY <2>2, <2>6 DEF SessionOK, GetterSends
  <2>7. Forwards(c, t, d, u)
    BY <2>1, <2>2 DEF Forwards, Begun
  <2> QED
    BY <2>1, <2>2, <2>4, <2>5, <2>6, <2>7 DEF SessionOK, ClientMoves
<1>4. CASE ConnectFails(s)
  <2> DEFINE u == [t EXCEPT !.at = "done", !.result = "error"]
  <2>1. Move(s, u, c)
    BY <1>4 DEF ConnectFails, Move, netVars, TypeInv, TypeOK, NetTypeOK, ClientTypeOK
  <2>2. /\ u \in Transfer /\ u.last_packet_no = t.last_packet_no
        /\ u.packet_ack = t.packet_ack /\ u.at = "done"
    BY <1>1 DEF Transfer
  <2> HIDE DEF u
  <2>3. c.rst # "no" => c.cli # "open"
    BY <1>2 DEF EndsAgree
  <2>4. SessionOK(s, c, u) /\ (s \in Putters => Forwards(c, t, c, u))
    BY <1>1, <2>2, <2>3, SilentKeeps
  <2> QED
    BY <1>1, <2>1, <2>2, <2>4 DEF ClientMoves
<1>5. CASE ErrorReceived(s) \/ Destructor(s)
  <2>1. PICK u \in {[t EXCEPT !.at = "closing", !.result = "error"], [t EXCEPT !.at = "done"]},
             h \in {c} \cup {Heard(s, r) : r \in Reads(c.down)} :
                Move(s, u, ClientCloses(h))
    BY <1>5 DEF ErrorReceived, Destructor
  <2>2. /\ u \in Transfer /\ u.last_packet_no = t.last_packet_no
        /\ u.packet_ack = t.packet_ack /\ u.at \in {"closing", "done"}
    <3>1. CASE u = [t EXCEPT !.at = "closing", !.result = "error"]
      BY <1>1, <3>1 DEF Transfer
    <3>2. CASE u = [t EXCEPT !.at = "done"]
      BY <1>1, <3>2 DEF Transfer
    <3> QED
      BY <2>1, <3>1, <3>2
  <2>3. /\ h \in Connection /\ h.up = c.up /\ h.srv = c.srv /\ h.rst = c.rst
        /\ h.cli = c.cli
    <3>1. \A r \in Reads(c.down) :
              /\ Heard(s, r) \in Connection
              /\ Heard(s, r).up = c.up /\ Heard(s, r).srv = c.srv
              /\ Heard(s, r).rst = c.rst /\ Heard(s, r).cli = c.cli
      BY <1>1, HeardType DEF Heard, Connection
    <3> QED
      BY <1>1, <2>1, <3>1
  <2> DEFINE d == ClientCloses(h)
  <2>4. h.rst # "no" => h.cli # "open"
    BY <1>2, <2>3 DEF EndsAgree
  <2>5. /\ d \in Connection /\ d.up = h.up /\ d.srv = h.srv
        /\ d.rst = h.rst \/ (d.rst = "owed" /\ h.rst # "arrived")
        /\ d.cli # "open"
    BY <2>3, <2>4, ClientClosing
  <2> HIDE DEF d, c, t
  <2>6. SessionOK(s, d, u) /\ (s \in Putters => Forwards(c, t, d, u))
    BY <1>1, <2>2, <2>3, <2>5, SilentKeeps DEF c, t
  <2> QED
    BY <2>1, <2>2, <2>5, <2>6 DEF ClientMoves, d, c, t
<1> QED
  BY <1>3, <1>4, <1>5

\* Every step of a client.
LEMMA EveryClientMoves ==
    ASSUME TypeInv, ~Segmented, NEW s \in Sessions, SessionOK(s, conn[s], tx[s]),
           ClientStep(s) \/ TimesOut(s)
    PROVE  ClientMoves(s)
<1>1. CASE connectToServer(s) \/ ConnectFails(s) \/ ErrorReceived(s) \/ Destructor(s)
  BY <1>1, EitherMoves
<1>2. CASE SendWRQ(s) \/ SourceUnreadable(s) \/ PutAnswered(s) \/ PutConnectionLost(s)
           \/ PutTimesOut(s)
  <2>1. s \in Putters
    BY <1>2, ClientAssumption
       DEF SendWRQ, SourceUnreadable, PutAnswered, PutConnectionLost, PutTimesOut, PutWaits
  <2> QED
    BY <1>2, <2>1, PutterMoves
<1>3. CASE \/ SendRRQ(s) \/ GetExpected(s) \/ GetOversized(s) \/ GetMismatch(s)
           \/ GetConnectionLost(s) \/ GetTimesOut(s)
  <2>1. s \in Getters
    BY <1>3 DEF SendRRQ, GetExpected, GetOversized, GetMismatch, GetConnectionLost,
                GetTimesOut, GetWaits
  <2> QED
    BY <1>3, <2>1, GetterMoves
<1> QED
  BY <1>1, <1>2, <1>3 DEF ClientStep, TimesOut
-----------------------------------------------------------------------------
(* What the server does to the session of its slot. *)

\* The slot goes on with its session, or lets go of it.
Turned ==
    /\ Me.connected
    /\ \E cl, c : /\ Store(cl, c)
                  /\ cl \in ServerClient /\ c \in Connection
                  /\ cl.client_socket = Me.client_socket
                  /\ SessionOK(Me.client_socket, c, tx[Me.client_socket])
                  /\ SlotCounts(cl, c, tx[Me.client_socket])

\* The invariant, for the slot the thread is at.
LEMMA MyCount ==
    ASSUME SlotsInv, CountInv, running, Me.connected
    PROVE  /\ Me \in ServerClient /\ Me.client_socket \in Sessions
           /\ Line \in Connection /\ Line.srv = "open"
           /\ tx[Me.client_socket] \in Transfer
           /\ SessionOK(Me.client_socket, Line, tx[Me.client_socket])
           /\ SlotCounts(Me, Line, tx[Me.client_socket])
<1>1. TypeInv /\ slot \in Slots /\ SlotOK(Me) /\ Me = clients[slot]
  BY MeType DEF SlotsInv, Me
<1>2. Me \in ServerClient /\ Me.client_socket \in Sessions /\ Line \in Connection
  BY <1>1, MeType DEF SlotOK
<1>3. Line.srv = "open"
  BY <1>1 DEF SlotsInv, SlotsServeConnections, SlotOwnsConnection, Line
<1>4. tx[Me.client_socket] \in Transfer
  BY <1>1, <1>2 DEF TypeInv, TypeOK, ClientTypeOK
<1>5. SessionOK(Me.client_socket, Line, tx[Me.client_socket])
  BY <1>2 DEF CountInv, Line
<1>6. SlotCounts(Me, Line, tx[Me.client_socket])
  BY <1>1 DEF CountInv, Line
<1> QED
  BY <1>2, <1>3, <1>4, <1>5, <1>6

\* The packet a slot takes, and its session after that.
LEMMA MyPacket ==
    ASSUME SlotsInv, CountInv, running, ~Segmented, NEW r \in receivePacket
    PROVE  /\ Me.connected
           /\ r.pkt = Head(Line.up) /\ r.pkt \in Packet
           /\ Line.up # <<>> /\ Line.rst # "arrived"
           /\ After(r) \in Connection /\ After(r).srv = "open"
           /\ After(r).up = Tail(Line.up) /\ After(r).rst = Line.rst
           /\ After(r).cli = Line.cli
           /\ SessionOK(Me.client_socket, After(r), tx[Me.client_socket])
<1>1. Me.connected /\ r \in Reads(Line.up)
  BY DEF receivePacket, Receiving
<1>2. /\ Me.client_socket \in Sessions
      /\ Line \in Connection /\ Line.srv = "open"
      /\ tx[Me.client_socket] \in Transfer
      /\ SessionOK(Me.client_socket, Line, tx[Me.client_socket])
  BY <1>1, MyCount
<1>3. Line.up \in Seq(Packet)
  BY <1>2 DEF Connection
<1>4. Line.up # <<>> /\ r.pkt = Head(Line.up) /\ r.rest = Tail(Line.up) /\ r.pkt \in Packet
  BY <1>1, <1>3, WholeReads, ReadsType
<1>5. Line.rst # "arrived"
  BY <1>2, <1>4 DEF SessionOK, EndsAgree
<1>6. After(r) = [Line EXCEPT !.up = Tail(Line.up)]
  BY <1>4 DEF After
<1> QED
  BY <1>1, <1>2, <1>4, <1>5, <1>6, TakingKeeps

\* A slot whose count is right answers: the answer may reset the connection.
LEMMA AnswerTurned ==
    ASSUME Me.connected, Me.client_socket \in Sessions, tx[Me.client_socket] \in Transfer,
           NEW cl \in ServerClient, cl.client_socket = Me.client_socket,
           cl.request # "UNDEFINED",
           NEW c \in Connection, c.srv = "open",
           SessionOK(Me.client_socket, c, tx[Me.client_socket]),
           SlotCounts(cl, c, tx[Me.client_socket]),
           NEW p \in Packet, NEW o \in ServerSends(c, p), Store(cl, o.conn)
    PROVE  Turned
<1>1. /\ o.conn \in Connection /\ o.conn.srv = "open"
      /\ SessionOK(Me.client_socket, o.conn, tx[Me.client_socket])
      /\ o.conn.rst # "arrived" => o.conn.up = c.up /\ c.rst # "arrived"
  BY SendingKeeps
<1>2. SlotCounts(cl, o.conn, tx[Me.client_socket])
  BY <1>1 DEF SlotCounts, WaitsRequest, WritesFor
<1> QED
  BY <1>1, <1>2 DEF Turned

\* disconnectClient resets the counter.
LEMMA DisconnectTurned ==
    ASSUME Me.connected, Me.client_socket \in Sessions, tx[Me.client_socket] \in Transfer,
           NEW cl \in ServerClient, cl.client_socket = Me.client_socket,
           NEW c \in Connection, c.srv = "open",
           SessionOK(Me.client_socket, c, tx[Me.client_socket]),
           disconnectClient(cl, c)
    PROVE  Turned
<1> DEFINE new == Disconnected(cl)
<1>1. /\ new \in ServerClient /\ ~new.connected /\ new.block = 0
      /\ new.client_socket = Me.client_socket
  <2>1. \A ptr \in Pointer : Deleted(ptr) \in Pointer
    BY DEF Deleted, Pointer
  <2> DEFINE rel == Released(cl)
  <2>2. /\ rel \in ServerClient /\ ~rel.connected
        /\ rel.client_socket = Me.client_socket
    BY <2>1, PacketTypes DEF ServerClient, Released
  <2> HIDE DEF rel
  <2>3. /\ [rel EXCEPT !.block = 0] \in ServerClient
        /\ ~[rel EXCEPT !.block = 0].connected
        /\ [rel EXCEPT !.block = 0].block = 0
        /\ [rel EXCEPT !.block = 0].client_socket = Me.client_socket
    BY <2>2 DEF ServerClient
  <2> QED
    BY <2>3 DEF Disconnected, rel
<1>2. Store(new, ServerCloses(c))
  BY DEF disconnectClient
<1>3. /\ ServerCloses(c) \in Connection
      /\ SessionOK(Me.client_socket, ServerCloses(c), tx[Me.client_socket])
  BY ClosingKeeps
<1> HIDE DEF new
<1>4. SlotCounts(new, ServerCloses(c), tx[Me.client_socket])
  BY <1>1 DEF SlotCounts, CountsFromZero, WaitsRequest, ReadsFor, WritesFor
<1> QED
  BY <1>1, <1>2, <1>3, <1>4 DEF Turned

\* errorReceived: the slot is given up.
LEMMA RefuseTurned ==
    ASSUME Me.connected, Me.client_socket \in Sessions, tx[Me.client_socket] \in Transfer,
           NEW cl \in ServerClient, cl.client_socket = Me.client_socket,
           NEW c \in Connection, c.srv = "open",
           SessionOK(Me.client_socket, c, tx[Me.client_socket]),
           NEW code \in Nat, Refuse(cl, c, code)
    PROVE  Turned
<1>1. PICK o \in ServerSends(c, createError(code)) : disconnectClient(cl, o.conn)
  BY DEF Refuse
<1>2. createError(code) \in Packet
  BY PacketTypes
<1>3. /\ o.conn \in Connection /\ o.conn.srv = "open"
      /\ SessionOK(Me.client_socket, o.conn, tx[Me.client_socket])
  BY <1>2, SendingKeeps
<1> QED
  BY <1>1, <1>3, DisconnectTurned

\* A slot that reads and whose answer or next block is sent.
LEMMA SendDataTurned ==
    ASSUME TypeInv, Me.connected, Me.client_socket \in Getters, tx[Me.client_socket] \in Transfer,
           NEW cl \in ServerClient, cl.client_socket = Me.client_socket,
           cl.connected, cl.request = "READ", cl.name \in Names,
           cl.name = NameOf[cl.client_socket],
           NEW c \in Connection, c.srv = "open",
           SessionOK(Me.client_socket, c, tx[Me.client_socket]),
           sendPacketData(cl, c)
    PROVE  Turned
<1> DEFINE nb == NextBlock(cl)
<1>1. /\ nb \in ServerClient /\ nb.last_sent_packet \in Packet
      /\ nb.connected = cl.connected /\ nb.client_socket = cl.client_socket
      /\ nb.request = cl.request /\ nb.name = cl.name
  BY NextBlockType DEF TypeInv, TypeOK, ServerTypeOK
<1>2. PICK o \in ServerSends(c, nb.last_sent_packet) :
          Store([nb EXCEPT !.acknowledged = IF o.ok THEN "WAITING" ELSE @], o.conn)
  BY DEF sendPacketData
<1> DEFINE new == [nb EXCEPT !.acknowledged = IF o.ok THEN "WAITING" ELSE @]
<1> HIDE DEF nb
<1>3. /\ new \in ServerClient /\ new.connected /\ new.request = "READ"
      /\ new.client_socket = Me.client_socket /\ new.name = cl.name
  BY <1>1 DEF ServerClient
<1> HIDE DEF new
<1>4. SlotCounts(new, c, tx[Me.client_socket])
  BY <1>3 DEF SlotCounts, CountsFromZero, WaitsRequest, ReadsFor, WritesFor
<1>5. Store(new, o.conn)
  BY <1>2 DEF new
<1>6. Me.client_socket \in Sessions
  BY ClientAssumption
<1> QED
  BY <1>1, <1>2, <1>3, <1>4, <1>5, <1>6, AnswerTurned

\* The first packet of a session is its request.
LEMMA FirstRequest ==
    ASSUME SlotsInv, CountInv, running, ~Segmented, NEW r \in receivePacket,
           phase = "request"
    PROVE  /\ Me.request = "UNDEFINED" /\ Me.block = 0
           /\ Me.client_socket \in Putters =>
                 /\ r.pkt = createWRQ(NameOf[Me.client_socket])
                 /\ Begun(tx[Me.client_socket])
                 /\ Len(After(r).up) = tx[Me.client_socket].last_packet_no
           /\ Me.client_socket \in Getters =>
                 isACK(r.pkt) \/ r.pkt = createRRQ(NameOf[Me.client_socket])
<1> DEFINE k == Me.client_socket
           t == tx[k]
<1>1. /\ Me.connected /\ r.pkt = Head(Line.up) /\ Line.up # <<>> /\ Line.rst # "arrived"
      /\ After(r).up = Tail(Line.up)
  BY MyPacket
<1>2. /\ k \in Sessions /\ Line \in Connection /\ Line.srv = "open" /\ t \in Transfer
      /\ SessionOK(k, Line, t) /\ SlotCounts(Me, Line, t)
  BY <1>1, MyCount
<1>3. Me.request = "UNDEFINED"
  BY DEF receivePacket, Receiving
<1>4. Me.block = 0
  BY <1>2, <1>3 DEF SlotCounts, CountsFromZero
<1>5. Line.up \in Seq(Packet) /\ t.last_packet_no \in Nat
  BY <1>2 DEF Connection, Transfer
<1>6. ASSUME k \in Putters
      PROVE  r.pkt = createWRQ(NameOf[k]) /\ Begun(t) /\ Len(After(r).up) = t.last_packet_no
  <2>1. PutterSends(k, Line, t)
    BY <1>2, <1>6 DEF SessionOK
  <2>2. Untouched(Line, t)
    BY <1>1, <1>2, <1>3, <1>6 DEF SlotCounts, WaitsRequest
  <2>3. Len(Line.up) = t.last_packet_no + 1
    BY <1>1, <2>2 DEF Untouched
  <2>4. Head(Line.up) = Sent(k, t.last_packet_no - Len(Line.up) + 1)
    BY <1>1, <1>5, <2>1, LastSentTail DEF PutterSends
  <2>5. t.last_packet_no - Len(Line.up) + 1 = 0
    BY <1>5, <2>3
  <2>6. r.pkt = createWRQ(NameOf[k])
    BY <1>1, <2>4, <2>5 DEF Sent
  <2>7. Begun(t)
    BY <1>1, <2>1 DEF PutterSends
  <2>8. Len(After(r).up) = t.last_packet_no
    BY <1>1, <1>5, <2>3
  <2> QED
    BY <2>6, <2>7, <2>8
<1>7. ASSUME k \in Getters PROVE isACK(r.pkt) \/ r.pkt = createRRQ(NameOf[k])
  <2>1. Head(Line.up) = Line.up[1] /\ 1 \in 1 .. Len(Line.up)
    BY <1>1, <1>5
  <2> QED
    BY <1>1, <1>2, <1>7, <2>1 DEF SessionOK, GetterSends
<1> QED
  BY <1>3, <1>4, <1>6, <1>7

\* The packet a slot that writes takes is the one after its count.
LEMMA NextPacket ==
    ASSUME SlotsInv, CountInv, running, ~Segmented, NEW r \in receivePacket,
           Serving("WRITE")
    PROVE  LET k == Me.client_socket
               n == Me.block + 1
           IN  /\ k \in Putters /\ n \in Nat \ {0}
               /\ Me.name = NameOf[k]
               /\ r.pkt = createData(n, ChunkOf(SourceOf[k], n))
               /\ n + Len(After(r).up) = tx[k].last_packet_no
               /\ Me.block * DataCells <= Len(SourceOf[k])
<1> DEFINE k == Me.client_socket
           t == tx[k]
           n == Me.block + 1
<1>1. /\ Me.connected /\ r.pkt = Head(Line.up) /\ Line.up # <<>> /\ Line.rst # "arrived"
      /\ After(r).up = Tail(Line.up)
  BY MyPacket
<1>2. /\ k \in Sessions /\ Line \in Connection /\ Line.srv = "open" /\ t \in Transfer
      /\ SessionOK(k, Line, t) /\ SlotCounts(Me, Line, t) /\ Me \in ServerClient
  BY <1>1, MyCount
<1>3. /\ k \in Putters /\ Me.name = NameOf[k]
      /\ Me.block + Len(Line.up) = t.last_packet_no
  BY <1>1, <1>2 DEF SlotCounts, WritesFor, Serving
<1>4. PutterSends(k, Line, t)
  BY <1>2, <1>3 DEF SessionOK
<1>5. /\ Line.up \in Seq(Packet) /\ t.last_packet_no \in Nat /\ Me.block \in Nat
      /\ n \in Nat \ {0}
  BY <1>2 DEF Connection, Transfer, ServerClient
<1>6. Len(Line.up) \in Nat /\ Len(Line.up) >= 1 /\ Len(Tail(Line.up)) = Len(Line.up) - 1
  BY <1>1, <1>5
<1>7. Head(Line.up) = Sent(k, t.last_packet_no - Len(Line.up) + 1)
  BY <1>1, <1>4, <1>5, LastSentTail DEF PutterSends
<1>8. t.last_packet_no - Len(Line.up) + 1 = n
  BY <1>3, <1>5, <1>6
<1>9. r.pkt = createData(n, ChunkOf(SourceOf[k], n))
  BY <1>1, <1>5, <1>7, <1>8 DEF Sent
<1>10. n + Len(After(r).up) = t.last_packet_no
  BY <1>1, <1>3, <1>5, <1>6
<1>11. Me.block * DataCells <= Len(SourceOf[k])
  <2>0. \A a, b, m \in Nat : a + b = m /\ b >= 1 => a <= m - 1 /\ m - 1 \in Nat
    OBVIOUS
  <2>1. Me.block <= t.last_packet_no - 1 /\ t.last_packet_no - 1 \in Nat
    BY <1>3, <1>5, <1>6, <2>0
  <2>2. (t.last_packet_no - 1) * DataCells <= Len(SourceOf[k])
    BY <1>4 DEF PutterSends
  <2>3. \A a, b, m \in Nat : a <= b => a * m <= b * m
    OBVIOUS
  <2>4. DataCells \in Nat /\ Len(SourceOf[k]) \in Nat
    BY <1>3, ClientAssumption, PacketAssumption
  <2>5. Me.block * DataCells <= (t.last_packet_no - 1) * DataCells
    BY <1>5, <2>1, <2>3, <2>4
  <2>6. \A a, b \in Nat : a * b \in Nat
    OBVIOUS
  <2>7. Me.block * DataCells \in Nat /\ (t.last_packet_no - 1) * DataCells \in Nat
    BY <1>5, <2>1, <2>4, <2>6
  <2> QED
    BY <2>2, <2>4, <2>5, <2>7
<1> QED
  BY <1>3, <1>5, <1>9, <1>10, <1>11

\* acceptRequest on a slot that waits for one.
LEMMA RequestTurned ==
    ASSUME SlotsInv, CountInv, running, ~Segmented, NEW r \in receivePacket,
           \/ ReadMissingFile(r) \/ StartRead(r)
           \/ WriteExistingFile(r) \/ StartWrite(r) \/ RequestUnexpected(r)
    PROVE  Turned
<1> DEFINE k == Me.client_socket
           t == tx[k]
<1>1. /\ Me.connected /\ r.pkt \in Packet
      /\ After(r) \in Connection /\ After(r).srv = "open"
      /\ SessionOK(k, After(r), t)
  BY MyPacket
<1>2. /\ k \in Sessions /\ t \in Transfer /\ Me \in ServerClient
  BY <1>1, MyCount
<1>3. phase = "request"
  BY DEF ReadMissingFile, StartRead, WriteExistingFile, StartWrite, CreateFile,
         RequestUnexpected
<1>4. /\ Me.request = "UNDEFINED" /\ Me.block = 0
      /\ k \in Putters => /\ r.pkt = createWRQ(NameOf[k])
                          /\ Begun(t) /\ Len(After(r).up) = t.last_packet_no
      /\ k \in Getters => isACK(r.pkt) \/ r.pkt = createRRQ(NameOf[k])
  BY <1>3, FirstRequest
<1>5. TypeInv
  BY DEF SlotsInv
<1>6. CASE ReadMissingFile(r)
  <2> DEFINE cl == [Me EXCEPT !.request = "READ", !.file_rrq = "live"]
  <2>1. cl \in ServerClient /\ cl.client_socket = k
    BY <1>2 DEF ServerClient, Pointer
  <2>2. Refuse(cl, After(r), 1)
    BY <1>6 DEF ReadMissingFile
  <2> HIDE DEF cl
  <2> QED
    BY <1>1, <1>2, <2>1, <2>2, RefuseTurned
<1>7. CASE StartRead(r)
  <2> DEFINE cl == [Me EXCEPT !.request = "READ", !.file_rrq = "live",
                              !.name = r.pkt.name]
  <2>1. isRRQ(r.pkt) /\ r.pkt.name \in Names
    BY <1>1, <1>7 DEF StartRead, isRRQ, Packet
  <2>2. k \in Getters /\ r.pkt.name = NameOf[k]
    <3>1. \A n : /\ createWRQ(n).op = "WRQ"
                 /\ createRRQ(n).name = n
      BY DEF createWRQ, createRRQ, Cleared
    <3>2. k \notin Putters
      BY <1>4, <2>1, <3>1 DEF isRRQ
    <3> QED
      BY <1>2, <1>4, <2>1, <3>1, <3>2, ClientAssumption DEF isRRQ, isACK
  <2>3. /\ cl \in ServerClient /\ cl.client_socket = k /\ cl.connected
        /\ cl.request = "READ" /\ cl.name = r.pkt.name
    BY <1>1, <1>2, <2>1 DEF ServerClient, Pointer
  <2>4. sendPacketData(cl, After(r))
    BY <1>7 DEF StartRead
  <2> HIDE DEF cl
  <2> QED
    BY <1>1, <1>2, <1>5, <2>1, <2>2, <2>3, <2>4, SendDataTurned
<1>8. CASE WriteExistingFile(r)
  <2> DEFINE cl == [Me EXCEPT !.request = "WRITE", !.file_rrq = "live"]
  <2>1. cl \in ServerClient /\ cl.client_socket = k
    BY <1>2 DEF ServerClient, Pointer
  <2>2. Refuse(cl, After(r), 6)
    BY <1>8 DEF WriteExistingFile
  <2> HIDE DEF cl
  <2> QED
    BY <1>1, <1>2, <2>1, <2>2, RefuseTurned
<1>9. CASE StartWrite(r)
  <2>1. PICK opened \in IF DiskMayFail THEN {TRUE, FALSE} ELSE {TRUE} :
           Answer([Me EXCEPT !.request = "WRITE", !.file_rrq = "freed",
                             !.file_wrq = "live", !.name = r.pkt.name,
                             !.good = opened],
                  After(r), createACK(0))
    BY <1>9 DEF StartWrite, CreateFile
  <2> DEFINE cl == [Me EXCEPT !.request = "WRITE", !.file_rrq = "freed",
                              !.file_wrq = "live", !.name = r.pkt.name,
                              !.good = opened]
  <2>2. isWRQ(r.pkt) /\ r.pkt.name \in Names
    BY <1>1, <1>9 DEF StartWrite, CreateFile, isWRQ, Packet
  <2>3. k \in Putters /\ r.pkt.name = NameOf[k]
    <3>1. \A n : /\ createRRQ(n).op = "RRQ"
                 /\ createWRQ(n).name = n
      BY DEF createWRQ, createRRQ, Cleared
    <3>2. k \notin Getters
      BY <1>4, <2>2, <3>1 DEF isWRQ, isACK
    <3> QED
      BY <1>2, <1>4, <3>1, <3>2, ClientAssumption
  <2>4. opened \in BOOLEAN /\ (~DiskMayFail => opened)
    BY <2>1
  <2>5. /\ cl \in ServerClient /\ cl.client_socket = k /\ cl.connected
        /\ cl.request = "WRITE" /\ cl.name = r.pkt.name /\ cl.block = Me.block
        /\ cl.good = opened
    BY <1>1, <1>2, <2>2, <2>4 DEF ServerClient, Pointer
  <2> HIDE DEF cl
  <2>6. SlotCounts(cl, After(r), t)
    <3>1. 0 + Len(After(r).up) = t.last_packet_no
      BY <1>2, <1>4, <2>3 DEF Transfer
    <3> QED
      BY <1>4, <2>3, <2>4, <2>5, <3>1
         DEF SlotCounts, CountsFromZero, WaitsRequest, ReadsFor, WritesFor
  <2>7. PICK o \in ServerSends(After(r), createACK(0)) : Store(cl, o.conn)
    BY <2>1 DEF Answer, cl
  <2>8. createACK(0) \in Packet
    BY PacketTypes
  <2> QED
    BY <1>1, <1>2, <2>5, <2>6, <2>7, <2>8, AnswerTurned
<1>10. CASE RequestUnexpected(r)
  <2>1. Refuse(Me, After(r), 4)
    BY <1>10 DEF RequestUnexpected
  <2> QED
    BY <1>1, <1>2, <2>1, RefuseTurned
<1> QED
  BY <1>6, <1>7, <1>8, <1>9, <1>10

\* The turn of a slot that has accepted a request.
LEMMA TransferTurned ==
    ASSUME SlotsInv, CountInv, running, ~Segmented, NEW r \in receivePacket,
           \/ AckExpected(r) \/ AckFinal(r) \/ AckMismatch(r) \/ ReadUnexpected(r)
           \/ DataExpected(r) \/ DataFinal(r) \/ DataMismatch(r) \/ WriteUnexpected(r)
    PROVE  Turned
<1> DEFINE k == Me.client_socket
           t == tx[k]
<1>1. /\ Me.connected /\ r.pkt \in Packet
      /\ After(r) \in Connection /\ After(r).srv = "open"
      /\ SessionOK(k, After(r), t)
  BY MyPacket
<1>2. /\ k \in Sessions /\ t \in Transfer /\ Me \in ServerClient /\ SlotCounts(Me, Line, t)
  BY <1>1, MyCount
<1>3. CASE AckFinal(r)
  <2>1. /\ [Me EXCEPT !.acknowledged = "OK"] \in ServerClient
        /\ [Me EXCEPT !.acknowledged = "OK"].client_socket = k
    BY <1>2 DEF ServerClient
  <2> QED
    BY <1>1, <1>2, <1>3, <2>1, DisconnectTurned DEF AckFinal
<1>4. CASE ReadUnexpected(r) \/ WriteUnexpected(r)
  <2>1. Refuse(Me, After(r), 4)
    BY <1>4 DEF ReadUnexpected, WriteUnexpected
  <2> QED
    BY <1>1, <1>2, <2>1, RefuseTurned
<1>5. CASE AckExpected(r) \/ AckMismatch(r)
  <2>1. Me.request = "READ"
    BY <1>5 DEF AckExpected, AckFor, AckMismatch, Serving
  <2>2. k \in Getters /\ Me.name = NameOf[k]
    BY <1>1, <1>2, <2>1 DEF SlotCounts, ReadsFor
  <2> DEFINE acked == [Me EXCEPT !.acknowledged = "OK"]
  <2>3. /\ acked \in ServerClient /\ acked.client_socket = k /\ acked.connected
        /\ acked.request = "READ" /\ acked.name = Me.name
    BY <1>1, <1>2, <2>1 DEF ServerClient
  <2>4. AckExpected(r) => Store(acked, After(r))
    BY DEF AckExpected, AckOK
  <2> HIDE DEF acked
  <2>5. ASSUME NEW cl, cl.connected, cl.request = "READ", cl.client_socket = k,
               cl.name = Me.name
        PROVE  SlotCounts(cl, After(r), t)
    BY <2>2, <2>5 DEF SlotCounts, CountsFromZero, WaitsRequest, ReadsFor, WritesFor
  <2>6. CASE AckExpected(r)
    <3>1. SlotCounts(acked, After(r), t)
      BY <2>3, <2>5
    <3> QED
      BY <1>1, <2>3, <2>4, <2>6, <3>1 DEF Turned
  <2>7. CASE AckMismatch(r)
    <3>1. PICK o \in ServerSends(After(r), Me.last_sent_packet) : Store(Me, o.conn)
      BY <2>7 DEF AckMismatch, Answer
    <3>2. Me.last_sent_packet \in Packet
      BY <1>2 DEF ServerClient
    <3>3. SlotCounts(Me, After(r), t)
      BY <1>1, <2>1, <2>5
    <3> QED
      BY <1>1, <1>2, <2>1, <3>1, <3>2, <3>3, AnswerTurned
  <2> QED
    BY <1>5, <2>6, <2>7
<1>6. CASE DataFinal(r)
  <2>1. PICK o \in ServerSends(After(r), createACK(Me.block + 1)) : disconnectClient(Me, o.conn)
    BY <1>6 DEF DataFinal, EndTransfer
  <2>2. createACK(Me.block + 1) \in Packet
    BY <1>2, PacketTypes DEF ServerClient
  <2>3. /\ o.conn \in Connection /\ o.conn.srv = "open" /\ SessionOK(k, o.conn, t)
    BY <1>1, <1>2, <2>1, <2>2, SendingKeeps
  <2> QED
    BY <1>1, <1>2, <2>1, <2>3, DisconnectTurned
<1>7. CASE DataExpected(r) \/ DataMismatch(r)
  <2>1. Serving("WRITE")
    BY <1>7 DEF DataExpected, DataMismatch
  <2>2. /\ k \in Putters /\ Me.name = NameOf[k] /\ Me.block + 1 \in Nat
        /\ (Me.block + 1) + Len(After(r).up) = t.last_packet_no
    BY <2>1, NextPacket
  <2>3. Begun(t) /\ (~DiskMayFail => Me.good)
    BY <1>2, <2>1 DEF SlotCounts, WritesFor, Serving
  <2>4. ASSUME NEW cl \in ServerClient, cl.client_socket = k, cl.connected,
               cl.request = "WRITE", cl.name = Me.name, cl.block = Me.block + 1,
               ~DiskMayFail => cl.good
        PROVE  SlotCounts(cl, After(r), t)
    BY <2>2, <2>3, <2>4 DEF SlotCounts, CountsFromZero, WaitsRequest, ReadsFor, WritesFor
  <2>5. CASE DataMismatch(r)
    <3> DEFINE cl == [Me EXCEPT !.block = @ + 1]
    <3>1. Store(cl, After(r))
      BY <2>5 DEF DataMismatch
    <3>2. /\ cl \in ServerClient /\ cl.client_socket = k /\ cl.connected
          /\ cl.request = "WRITE" /\ cl.name = Me.name /\ cl.block = Me.block + 1
          /\ cl.good = Me.good
      BY <1>2, <2>1, <2>2 DEF ServerClient, Serving
    <3> HIDE DEF cl
    <3>3. SlotCounts(cl, After(r), t)
      BY <2>3, <2>4, <3>2
    <3> QED
      BY <1>1, <3>1, <3>2, <3>3 DEF Turned
  <2>6. CASE DataExpected(r)
    <3>1. PICK n \in 0 .. Len(r.pkt.data) :
            /\ write(r.pkt.data, n)
            /\ Answer([Me EXCEPT !.block = @ + 1, !.good = @ /\ n = Len(r.pkt.data)],
                      After(r), createACK(Me.block + 1))
      BY <2>6 DEF DataExpected
    <3> DEFINE kept == Me.good /\ n = Len(r.pkt.data)
               counted == [Me EXCEPT !.block = @ + 1]
               cl == [Me EXCEPT !.block = @ + 1, !.good = kept]
    <3>2. kept \in BOOLEAN
      OBVIOUS
    <3>3. ~DiskMayFail => kept
      <4>1. n \in Nat /\ Len(r.pkt.data) \in Nat /\ n <= Len(r.pkt.data)
        BY <1>1 DEF Packet, Payload
      <4>2. n < Len(r.pkt.data) => ~Me.good \/ DiskMayFail
        BY <3>1 DEF write, WriteBlock
      <4> QED
        BY <2>3, <4>1, <4>2
    <3>4. /\ counted \in ServerClient /\ counted.client_socket = k /\ counted.connected
          /\ counted.request = "WRITE" /\ counted.name = Me.name
          /\ counted.block = Me.block + 1
      BY <1>2, <2>1, <2>2 DEF ServerClient, Serving
    <3>5. cl = [counted EXCEPT !.good = kept]
      OBVIOUS
    <3>6. PICK o \in ServerSends(After(r), createACK(Me.block + 1)) : Store(cl, o.conn)
      BY <3>1 DEF Answer
    <3> HIDE DEF counted, cl, kept
    <3>7. /\ cl \in ServerClient /\ cl.client_socket = k /\ cl.connected
          /\ cl.request = "WRITE" /\ cl.name = Me.name
          /\ cl.block = Me.block + 1 /\ cl.good = kept
      BY <3>2, <3>4, <3>5 DEF ServerClient
    <3>8. SlotCounts(cl, After(r), t)
      BY <2>4, <3>3, <3>7
    <3>9. createACK(Me.block + 1) \in Packet
      BY <2>2, PacketTypes
    <3> QED
      BY <1>1, <1>2, <3>6, <3>7, <3>8, <3>9, AnswerTurned
  <2> QED
    BY <1>7, <2>5, <2>6
<1> QED
  BY <1>3, <1>4, <1>5, <1>6, <1>7
-----------------------------------------------------------------------------
(* The counts are right in every state. *)

\* Nothing has been sent yet.
LEMMA CountInit == Init => CountInv
<1> SUFFICES ASSUME Init PROVE CountInv
  OBVIOUS
<1>1. \A i \in Slots : ~clients[i].connected /\ clients[i].block = 0
  BY DEF Init, ServerInit, NewServerClient
<1>2. ASSUME NEW s \in Sessions PROVE SessionOK(s, conn[s], tx[s])
  <2>1. conn[s] = NoConnection /\ tx[s] = NewTransfer
    BY DEF Init, NetInit, ClientInit
  <2>2. /\ conn[s].up = <<>> /\ conn[s].rst = "no" /\ conn[s].srv = "none"
        /\ tx[s].at = "idle" /\ tx[s].last_packet_no = 0 /\ tx[s].packet_ack = Cleared
    BY <2>1 DEF NoConnection, NewTransfer
  <2>3. EndsAgree(conn[s], tx[s])
    BY <2>2 DEF EndsAgree
  <2>4. ASSUME s \in Putters PROVE PutterSends(s, conn[s], tx[s])
    <3>1. LastSent(s, <<>>, 0)
      BY DEF LastSent
    <3>2. Len(SourceOf[s]) \in Nat /\ DataCells \in Nat
      BY <2>4, ClientAssumption, PacketAssumption
    <3>3. (0 - 1) * DataCells <= Len(SourceOf[s])
      BY <3>2
    <3> QED
      BY <2>2, <3>1, <3>3 DEF PutterSends, Begun, Untouched
  <2>5. s \in Getters => GetterSends(s, conn[s], tx[s])
    BY <2>2 DEF GetterSends
  <2> QED
    BY <2>3, <2>4, <2>5 DEF SessionOK
<1> QED
  BY <1>1, <1>2 DEF CountInv

\* The turn of a slot concerns its own session only.
LEMMA TurnedCounts ==
    ASSUME SlotsInv, CountInv, Turned, UNCHANGED tx
    PROVE  CountInv'
<1> DEFINE k == Me.client_socket
<1>1. /\ TypeInv /\ slot \in Slots /\ SlotOK(Me) /\ Me = clients[slot]
      /\ SlotsDisjoint
      /\ clients \in [Slots -> ServerClient] /\ conn \in [Sessions -> Connection]
  BY MeType DEF SlotsInv, SlotsServeConnections, TypeInv, TypeOK, ServerTypeOK, NetTypeOK, Me
<1>2. PICK cl, c : /\ Store(cl, c)
                   /\ cl \in ServerClient /\ c \in Connection
                   /\ cl.client_socket = k
                   /\ SessionOK(k, c, tx[k])
                   /\ SlotCounts(cl, c, tx[k])
  BY DEF Turned
<1>3. Me.connected /\ k \in Sessions
  BY <1>1 DEF Turned, SlotOK
<1>4. /\ clients' = [clients EXCEPT ![slot] = cl]
      /\ conn' = [conn EXCEPT ![k] = c]
  BY <1>2 DEF Store
<1> HIDE DEF k
<1>5. ASSUME NEW s \in Sessions PROVE SessionOK(s, conn'[s], tx'[s])
  <2>1. CASE s = k
    BY <1>1, <1>2, <1>3, <1>4, <2>1
  <2>2. CASE s # k
    BY <1>1, <1>4, <2>2 DEF CountInv
  <2> QED
    BY <2>1, <2>2
<1>6. ASSUME NEW i \in Slots
      PROVE  IF clients'[i].connected
             THEN LET s == clients'[i].client_socket
                  IN  SlotCounts(clients'[i], conn'[s], tx'[s])
             ELSE clients'[i].block = 0
  <2>1. CASE i = slot
    <3>1. clients'[i] = cl /\ conn'[k] = c
      BY <1>1, <1>3, <1>4, <2>1
    <3>2. ~cl.connected => cl.block = 0
      BY <1>2 DEF SlotCounts, CountsFromZero
    <3> QED
      BY <1>2, <3>1, <3>2
  <2>2. CASE i # slot
    <3>1. clients'[i] = clients[i]
      BY <1>1, <1>4, <2>2
    <3>2. clients[i].connected => clients[i].client_socket # k
      BY <1>1, <1>3, <2>2 DEF SlotsDisjoint, Serves, k
    <3>3. clients[i].connected => conn'[clients[i].client_socket] = conn[clients[i].client_socket]
      BY <1>1, <1>4, <3>2 DEF TypeInv, SlotOK
    <3> QED
      BY <3>1, <3>3 DEF CountInv
  <2> QED
    BY <2>1, <2>2
<1> QED
  BY <1>5, <1>6 DEF CountInv

\* A slot that accepts has nothing left from before, and the server has read
\* nothing of the session it takes.
LEMMA AcceptCounts ==
    ASSUME SlotsInv, CountInv, running, acceptClient, UNCHANGED tx
    PROVE  CountInv'
<1>1. /\ SlotOwnsConnection /\ BacklogWaits /\ TypeInv
      /\ backlog \in Seq(Sessions) /\ conn \in [Sessions -> Connection]
      /\ clients \in [Slots -> ServerClient] /\ slot \in Slots
      /\ tx \in [Sessions -> Transfer]
  BY DEF SlotsInv, SlotsServeConnections, TypeInv, TypeOK, NetTypeOK, ServerTypeOK,
         ClientTypeOK
<1> DEFINE k == Head(backlog)
           cl == [Me EXCEPT !.connected = TRUE, !.client_socket = k]
           c == [conn[k] EXCEPT !.srv = "open"]
           t == tx[k]
<1>2. /\ ~Me.connected /\ Me = clients[slot] /\ backlog # <<>> /\ Store(cl, c)
  BY DEF acceptClient, accept, Me
<1>3. /\ k \in Sessions /\ k = backlog[1] /\ 1 \in DOMAIN backlog
  BY <1>1, <1>2
<1>4. conn[k].srv = "backlog" /\ t \in Transfer
  BY <1>1, <1>3 DEF BacklogWaits
<1>5. Me.request = "UNDEFINED" /\ Me.block = 0
  BY <1>1, <1>2 DEF TypeInv, SlotOK, CountInv
<1>6. /\ cl.connected /\ cl.client_socket = k /\ cl.request = "UNDEFINED" /\ cl.block = 0
  BY <1>1, <1>2, <1>3, <1>5 DEF ServerClient
<1>7. /\ c \in Connection /\ c.srv = "open" /\ c.up = conn[k].up /\ c.rst = conn[k].rst
      /\ c.cli = conn[k].cli
  <2>1. conn[k] \in Connection
    BY <1>1, <1>3
  <2> HIDE DEF k, cl, t
  <2> QED BY <2>1 DEF Connection
<1> HIDE DEF k, cl, c, t
<1>8. clients' = [clients EXCEPT ![slot] = cl] /\ conn' = [conn EXCEPT ![k] = c]
  BY <1>2, <1>6 DEF Store
<1>9. SessionOK(k, conn[k], t)
  BY <1>3 DEF CountInv, t
<1>10. SessionOK(k, c, t)
  <2>1. conn[k] \in Connection
    BY <1>1, <1>3
  <2>2. c.rst # "no" => conn[k].cli # "open"
    BY <1>7, <1>9 DEF SessionOK, EndsAgree
  <2>3. c.rst = "arrived" \/ c.srv = "closed" => c.up = <<>>
    BY <1>7, <1>9 DEF SessionOK, EndsAgree
  <2> QED
    BY <1>3, <1>4, <1>7, <1>9, <2>1, <2>2, <2>3, ServerSideKeeps
<1>11. SlotCounts(cl, c, t)
  <2>1. k \in Putters /\ c.rst # "arrived" => Untouched(c, t)
    BY <1>4, <1>7, <1>9 DEF SessionOK, PutterSends, Untouched
  <2> QED
    BY <1>6, <2>1 DEF SlotCounts, CountsFromZero, WaitsRequest, ReadsFor, WritesFor
<1>12. ASSUME NEW s \in Sessions PROVE SessionOK(s, conn'[s], tx'[s])
  <2>1. CASE s = k
    BY <1>1, <1>3, <1>8, <1>10, <2>1 DEF t
  <2>2. CASE s # k
    BY <1>1, <1>8, <2>2 DEF CountInv
  <2> QED
    BY <2>1, <2>2
<1>13. ASSUME NEW i \in Slots
       PROVE  IF clients'[i].connected
              THEN LET s == clients'[i].client_socket
                   IN  SlotCounts(clients'[i], conn'[s], tx'[s])
              ELSE clients'[i].block = 0
  <2>1. CASE i = slot
    <3>1. clients'[i] = cl /\ conn'[k] = c
      BY <1>1, <1>3, <1>8, <2>1
    <3> QED
      BY <1>6, <1>11, <3>1 DEF t
  <2>2. CASE i # slot
    <3>1. clients'[i] = clients[i]
      BY <1>1, <1>8, <2>2
    <3>2. clients[i].connected =>
             clients[i].client_socket # k /\ clients[i].client_socket \in Sessions
      BY <1>1, <1>4 DEF SlotOwnsConnection
    <3>3. clients[i].connected =>
             conn'[clients[i].client_socket] = conn[clients[i].client_socket]
      BY <1>1, <1>8, <3>2
    <3> QED
      BY <3>1, <3>3 DEF CountInv
  <2> QED
    BY <2>1, <2>2
<1> QED
  BY <1>12, <1>13 DEF CountInv

\* What changes no connection and at most the socket of a slot that is free.
LEMMA IdleCounts ==
    ASSUME SlotsInv, CountInv, Idles, UNCHANGED tx
    PROVE  CountInv'
<1>1. clients \in [Slots -> ServerClient] /\ slot \in Slots /\ Me = clients[slot]
  BY MeType DEF SlotsInv, TypeInv, TypeOK, ServerTypeOK, Me
<1>2. conn' = conn /\ tx' = tx
  BY DEF Idles, netVars
<1>3. ASSUME NEW i \in Slots
      PROVE  \/ clients'[i] = clients[i]
             \/ ~clients[i].connected /\ ~clients'[i].connected
                /\ clients'[i].block = clients[i].block
  <2>1. CASE UNCHANGED clients
    BY <2>1
  <2>2. CASE /\ ~Me.connected
             /\ clients' = [clients EXCEPT ![slot].client_socket = NoSession]
    <3>1. CASE i = slot
      BY <1>1, <2>2, <3>1 DEF ServerClient
    <3>2. CASE i # slot
      BY <1>1, <2>2, <3>2
    <3> QED
      BY <3>1, <3>2
  <2> QED
    BY <2>1, <2>2 DEF Idles
<1> QED
  BY <1>2, <1>3 DEF CountInv

\* Every step of the server.
LEMMA ServerTurned ==
    ASSUME ~Segmented, SlotsInv, CountInv, ServerStep
    PROVE  Turned \/ acceptClient \/ Idles
<1>1. running /\ TypeInv
  BY DEF ServerStep, SlotsInv
<1>2. CASE PeerClosed
  <2>1. Me.connected /\ disconnectClient(Me, Line)
    BY <1>2 DEF PeerClosed, Receiving
  <2> QED
    BY <1>1, <2>1, MyCount, DisconnectTurned
<1>3. CASE \E r \in receivePacket : OnPacket(r)
  BY <1>1, <1>3, RequestTurned, TransferTurned DEF OnPacket
<1>4. CASE SendNextBlock
  <2>1. Me.connected /\ Me.request = "READ" /\ sendPacketData(Me, Line)
    BY <1>4 DEF SendNextBlock, MaySend, Serving
  <2>2. /\ Me.client_socket \in Getters /\ Me.name = NameOf[Me.client_socket]
        /\ Me.name \in Names
    BY <1>1, <2>1, MyCount, MeType DEF SlotCounts, ReadsFor, SlotOK
  <2> QED
    BY <1>1, <2>1, <2>2, MyCount, SendDataTurned
<1>5. CASE NothingToAccept
  <2>1. UNCHANGED netVars
    BY <1>5 DEF NothingToAccept
  <2>2. CASE Me.connected
    <3>1. slot \in Slots /\ clients \in [Slots -> ServerClient]
      BY <1>1, MeType DEF TypeInv, TypeOK, ServerTypeOK
    <3>2. UNCHANGED clients
      BY <1>5, <2>2, <3>1 DEF NothingToAccept, Me, ServerClient
    <3> QED
      BY <2>1, <3>2 DEF Idles
  <2>3. CASE ~Me.connected
    BY <1>5, <2>1, <2>3 DEF NothingToAccept, Idles
  <2> QED
    BY <2>2, <2>3
<1>6. CASE NothingReceived \/ NothingToSend
  BY <1>6 DEF NothingReceived, NothingToSend, Idles
<1> QED
  BY <1>2, <1>3, <1>4, <1>5, <1>6 DEF ServerStep

\* Every step of a client.
LEMMA ClientCounts ==
    ASSUME ~Segmented, SlotsInv, CountInv, NEW s \in Sessions, Client(s) \/ Timeout(s)
    PROVE  CountInv'
<1>1. /\ TypeInv /\ clients' = clients
      /\ conn \in [Sessions -> Connection] /\ tx \in [Sessions -> Transfer]
      /\ clients \in [Slots -> ServerClient]
      /\ \A i \in Slots : clients[i].connected => clients[i].client_socket \in Sessions
  BY DEF SlotsInv, TypeInv, TypeOK, NetTypeOK, ClientTypeOK, ServerTypeOK, SlotOK,
         Client, Timeout, serverVars
<1>2. SessionOK(s, conn[s], tx[s])
  BY DEF CountInv
<1>3. ClientMoves(s)
  BY <1>1, <1>2, EveryClientMoves DEF Client, Timeout
<1>4. PICK u, d : /\ Move(s, u, d)
                  /\ u \in Transfer /\ d \in Connection
                  /\ SessionOK(s, d, u)
                  /\ s \in Putters => Forwards(conn[s], tx[s], d, u)
  BY <1>3 DEF ClientMoves
<1>5. /\ tx' = [tx EXCEPT ![s] = u] /\ conn' = [conn EXCEPT ![s] = d]
  BY <1>4 DEF Move
<1>6. ASSUME NEW q \in Sessions PROVE SessionOK(q, conn'[q], tx'[q])
  BY <1>1, <1>4, <1>5 DEF CountInv
<1>7. ASSUME NEW i \in Slots, clients[i].connected
      PROVE  LET q == clients[i].client_socket IN SlotCounts(clients[i], conn'[q], tx'[q])
  <2> DEFINE q == clients[i].client_socket
  <2>1. q \in Sessions /\ SlotCounts(clients[i], conn[q], tx[q])
    BY <1>1, <1>7 DEF CountInv
  <2>2. CASE q = s
    <3>1. conn'[q] = d /\ tx'[q] = u
      BY <1>1, <1>5, <2>2
    <3>2. SlotCounts(clients[i], d, u)
      BY <1>1, <1>4, <2>1, <2>2, CountFollows
    <3> QED
      BY <3>1, <3>2
  <2>3. CASE q # s
    BY <1>1, <1>5, <2>1, <2>3
  <2> QED
    BY <2>2, <2>3
<1> QED
  BY <1>1, <1>6, <1>7 DEF CountInv

\* A reset, or the end of the server's process.
LEMMA NetworkCounts ==
    ASSUME SlotsInv, CountInv, NEW s \in Sessions, Network(s)
    PROVE  CountInv'
<1>1. /\ clients' = clients /\ tx' = tx
      /\ conn \in [Sessions -> Connection] /\ tx \in [Sessions -> Transfer]
      /\ \A i \in Slots : clients[i].connected => clients[i].client_socket \in Sessions
  BY DEF SlotsInv, TypeInv, TypeOK, NetTypeOK, ClientTypeOK, ServerTypeOK, SlotOK,
         Network, serverVars
<1> DEFINE c == conn[s]
<1>2. SessionOK(s, c, tx[s]) /\ c \in Connection /\ Cleared \in Packet
  BY <1>1, PacketTypes DEF CountInv
<1>3. PICK d \in Connection :
          /\ conn' = [conn EXCEPT ![s] = d]
          /\ c.srv # "none" /\ d.srv \in {"open", "closed"} /\ d.cli = c.cli
          /\ d.up = <<>> /\ (d.rst = "arrived" \/ d.srv = "closed")
          /\ d.rst # "no" => c.rst # "no"
  <2>1. CASE ResetArrives(s)
    <3>1. Reset(c) \in Connection
      BY <1>2, ConnectionTypes
    <3>2. /\ Reset(c).srv = "open" /\ Reset(c).cli = c.cli /\ Reset(c).up = <<>>
          /\ Reset(c).rst = "arrived" /\ c.rst = "owed" /\ c.srv = "open"
          /\ conn' = [conn EXCEPT ![s] = Reset(c)]
      BY <1>2, <2>1 DEF ResetArrives, Reset, Connection
    <3> QED
      BY <3>1, <3>2
  <2>2. CASE OsReclaims(s)
    <3> DEFINE closed == ServerCloses(c)
               d == [closed EXCEPT !.lost = TRUE]
    <3>1. /\ closed \in Connection /\ closed.srv = "closed"
      BY <1>2, ConnectionTypes
    <3>2. closed.cli = c.cli /\ closed.up = <<>> /\ closed.rst = c.rst
      BY <1>2 DEF ServerCloses, Connection
    <3>3. conn' = [conn EXCEPT ![s] = d] /\ c.srv # "none"
      BY <2>2 DEF OsReclaims
    <3> HIDE DEF closed
    <3>4. /\ d \in Connection /\ d.srv = "closed" /\ d.cli = c.cli /\ d.up = <<>>
          /\ d.rst = c.rst
      BY <3>1, <3>2 DEF Connection
    <3> HIDE DEF d
    <3> QED
      BY <3>3, <3>4
  <2> QED
    BY <2>1, <2>2 DEF Network
<1> HIDE DEF c
<1>4. SessionOK(s, d, tx[s])
  <2>1. tx[s] \in Transfer /\ (c.rst # "no" => c.cli # "open")
    BY <1>1, <1>2 DEF SessionOK, EndsAgree
  <2> QED
    BY <1>2, <1>3, <2>1, ServerSideKeeps
<1>5. ASSUME NEW q \in Sessions PROVE SessionOK(q, conn'[q], tx'[q])
  BY <1>1, <1>3, <1>4 DEF CountInv
<1>6. ASSUME NEW i \in Slots, clients[i].connected
      PROVE  LET q == clients[i].client_socket IN SlotCounts(clients[i], conn'[q], tx'[q])
  <2> DEFINE q == clients[i].client_socket
  <2>1. q \in Sessions /\ SlotCounts(clients[i], conn[q], tx[q])
    BY <1>1, <1>6 DEF CountInv
  <2>2. CASE q = s
    <3>1. conn'[q] = d /\ tx'[q] = tx[q]
      BY <1>1, <1>3, <2>2
    <3>2. SlotCounts(clients[i], d, tx[q])
      BY <1>3, <2>1 DEF SlotCounts, WaitsRequest, WritesFor
    <3> QED
      BY <3>1, <3>2
  <2>3. CASE q # s
    BY <1>1, <1>3, <2>1, <2>3
  <2> QED
    BY <2>2, <2>3
<1> QED
  BY <1>1, <1>5, <1>6 DEF CountInv

\* The invariant is inductive.
LEMMA CountStep ==
    ASSUME ~Segmented, SlotsInv, CountInv, [Next]_vars
    PROVE  CountInv'
<1>1. CASE Server
  <2>1. UNCHANGED tx /\ running /\ (Turned \/ acceptClient \/ Idles)
    BY <1>1, ServerTurned DEF Server, ServerStep
  <2> QED
    BY <2>1, TurnedCounts, AcceptCounts, IdleCounts
<1>2. CASE \E s \in Sessions : Client(s) \/ Timeout(s)
  BY <1>2, ClientCounts
<1>3. CASE \E s \in Sessions : Network(s)
  BY <1>3, NetworkCounts
<1>4. CASE UNCHANGED vars
  BY <1>4, IdleCounts DEF vars, netVars, serverVars, Idles
<1> QED
  BY <1>1, <1>2, <1>3, <1>4 DEF Next
-----------------------------------------------------------------------------
(***************************************************************************)
(* The files.  A file that a slot still writes, and has not lost anything  *)
(* of, holds the blocks the slot has counted: as far as their numbers are  *)
(* known to the server, that is below WordMod.                             *)
(***************************************************************************)
Held(cl) == IF cl.block < WordMod THEN cl.block ELSE WordMod - 1

FileRight(cl, file) ==
    /\ cl.name \notin InitStored
    /\ file = Archive!Blocks(SourceOf[cl.client_socket], Held(cl))

FilesInv ==
    /\ InitStored \subseteq stored
    /\ \A i \in Slots :
          StreamsTo(clients[i]) => FileRight(clients[i], content[clients[i].name])

\* The first a elements of f, and m of those from there to b.
LEMMA Pieces ==
    ASSUME NEW S, NEW f \in Seq(S), NEW a \in Nat, NEW b \in Nat,
           a <= b, b <= Len(f), NEW m \in 0 .. b - a
    PROVE  /\ Len(SubSeq(f, a + 1, b)) = b - a
           /\ SubSeq(f, 1, a) \o SubSeq(SubSeq(f, a + 1, b), 1, m) = SubSeq(f, 1, a + m)
<1> DEFINE low == SubSeq(f, 1, a)
           mid == SubSeq(f, a + 1, b)
           part == SubSeq(mid, 1, m)
           all == SubSeq(f, 1, a + m)
<1>1. low \in Seq(S) /\ Len(low) = a /\ \A i \in 1 .. a : low[i] = f[i]
  OBVIOUS
<1>2. mid \in Seq(S) /\ Len(mid) = b - a /\ \A i \in 1 .. b - a : mid[i] = f[a + i]
  OBVIOUS
<1>3. all \in Seq(S) /\ Len(all) = a + m /\ \A i \in 1 .. a + m : all[i] = f[i]
  OBVIOUS
<1> HIDE DEF low, mid, all
<1>4. part \in Seq(S) /\ Len(part) = m /\ \A i \in 1 .. m : part[i] = mid[i]
  BY <1>2
<1> HIDE DEF part
<1> DEFINE joined == low \o part
<1>5. /\ joined \in Seq(S) /\ Len(joined) = a + m
      /\ \A i \in 1 .. a : joined[i] = low[i]
      /\ \A i \in 1 .. m : joined[a + i] = part[i]
  <2>1. \A x, y \in Seq(S) : /\ x \o y \in Seq(S) /\ Len(x \o y) = Len(x) + Len(y)
                             /\ \A i \in 1 .. Len(x) : (x \o y)[i] = x[i]
                             /\ \A i \in 1 .. Len(y) : (x \o y)[Len(x) + i] = y[i]
    OBVIOUS
  <2> QED
    BY <1>1, <1>4, <2>1
<1> HIDE DEF joined
<1>6. ASSUME NEW i \in 1 .. a + m PROVE joined[i] = all[i]
  <2>1. CASE i \in 1 .. a
    BY <1>1, <1>3, <1>5, <2>1
  <2>2. CASE i \in a + 1 .. a + m
    <3>1. i - a \in 1 .. m /\ i - a \in 1 .. b - a /\ a + (i - a) = i
      BY <2>2
    <3>2. joined[i] = part[i - a] /\ part[i - a] = mid[i - a] /\ mid[i - a] = f[i]
      BY <1>2, <1>4, <1>5, <3>1
    <3> QED
      BY <1>3, <3>2
  <2> QED
    BY <2>1, <2>2
<1>7. joined = all
  BY <1>3, <1>5, <1>6
<1> QED
  BY <1>2, <1>7 DEF low, mid, part, all, joined

\* How many full blocks k of them are.
LEMMA FullBlocks ==
    ASSUME NEW k \in Nat, NEW d \in Nat \ {0}
    PROVE  k * d \in Nat /\ (k * d) \div d = k /\ (k + 1) * d = k * d + d
<1>1. k * d \in Nat /\ (k + 1) * d = k * d + d
  OBVIOUS
<1> DEFINE q == (k * d) \div d
           rem == (k * d) % d
<1>2. q \in Int /\ rem \in 0 .. d - 1 /\ k * d = d * q + rem
  BY <1>1
<1> HIDE DEF q, rem
<1>3. CASE q < k
  <2>1. d * (k - q) >= d
    BY <1>2, <1>3
  <2>2. d * (k - q) = k * d - d * q
    BY <1>2
  <2> QED
    BY <1>1, <1>2, <2>1, <2>2
<1>4. CASE q > k
  <2>1. d * (q - k) >= d
    BY <1>2, <1>4
  <2>2. d * (q - k) = d * q - k * d
    BY <1>2
  <2> QED
    BY <1>1, <1>2, <2>1, <2>2
<1> QED
  BY <1>1, <1>2, <1>3, <1>4 DEF q

\* k blocks of a file, and the beginning of the next one.
LEMMA BlocksAndPart ==
    ASSUME NEW f \in Seq(Cell), NEW k \in Nat, k * DataCells <= Len(f),
           NEW m \in 0 .. Len(ChunkOf(f, k + 1))
    PROVE  LET size == Len(ChunkOf(f, k + 1))
               low == k * DataCells
           IN  /\ Archive!Blocks(f, k) = SubSeq(f, 1, low)
               /\ Len(Archive!Blocks(f, k)) = low /\ low \in Nat
               /\ Archive!Blocks(f, k) \o SubSeq(ChunkOf(f, k + 1), 1, m)
                      = SubSeq(f, 1, low + m)
               /\ Len(Archive!Blocks(f, k + 1)) = low + size
               /\ Archive!Blocks(f, k + 1) = SubSeq(f, 1, low + size)
               /\ low + size <= Len(f) /\ size \in Nat /\ size <= DataCells
               /\ size < DataCells => low + size = Len(f)
<1> DEFINE low == k * DataCells
           high == IF low + DataCells <= Len(f) THEN low + DataCells ELSE Len(f)
<1>1. /\ DataCells \in Nat \ {0} /\ low \in Nat /\ (k + 1) * DataCells = low + DataCells
      /\ Len(f) \in Nat /\ low <= high /\ high <= Len(f) /\ high \in Nat
      /\ (k + 1) - 1 = k
  BY PacketAssumption, FullBlocks
<1>2. ChunkOf(f, k + 1) = SubSeq(f, low + 1, high)
  BY <1>1 DEF ChunkOf
<1>3. Archive!Blocks(f, k) = SubSeq(f, 1, low)
  BY <1>1 DEF Archive!Blocks
<1>4. Archive!Blocks(f, k + 1) = SubSeq(f, 1, high)
  BY <1>1 DEF Archive!Blocks
<1> HIDE DEF low
<1>5. /\ high - low \in Nat /\ high - low <= DataCells
      /\ high - low < DataCells => high = Len(f)
  BY <1>1
<1> HIDE DEF high
<1>6. Len(SubSeq(f, low + 1, high)) = high - low
  <2>1. 0 \in 0 .. high - low
    BY <1>5
  <2> QED
    BY <1>1, <2>1, Pieces
<1>7. m \in 0 .. high - low
  BY <1>2, <1>6
<1>8. SubSeq(f, 1, low) \o SubSeq(SubSeq(f, low + 1, high), 1, m) = SubSeq(f, 1, low + m)
  BY <1>1, <1>7, Pieces
<1>9. Len(SubSeq(f, 1, low)) = low /\ Len(SubSeq(f, 1, high)) = high
  BY <1>1
<1>10. low + (high - low) = high
  BY <1>1
<1> QED
  BY <1>1, <1>2, <1>3, <1>4, <1>5, <1>6, <1>8, <1>9, <1>10 DEF low

\* The number of a block, as the server reads it.
LEMMA NumberOf ==
    ASSUME NEW n \in Nat, NEW data
    PROVE  /\ isData(createData(n, data))
           /\ createData(n, data).data = data
           /\ getNumber(createData(n, data)) = n <=> n < WordMod
<1>1. /\ isData(createData(n, data)) /\ createData(n, data).data = data
      /\ createData(n, data).num = Word(n)
  BY DEF isData, createData, Cleared
<1>2. WordMod \in Nat \ {0} /\ n % WordMod < WordMod /\ (n < WordMod => n % WordMod = n)
  BY PacketAssumption
<1> QED
  BY <1>1, <1>2 DEF getNumber, Word

\* The block a slot takes extends its file as WriteOnceStore promises.
LEMMA BlockStored ==
    ASSUME SlotsInv, CountInv, OneWriter, FilesInv, running, ~Segmented,
           NEW r \in receivePacket, Serving("WRITE"), InOrder(r),
           NEW m \in 0 .. Len(r.pkt.data), write(r.pkt.data, m)
    PROVE  LET k == Me.client_socket
               size == Len(r.pkt.data)
           IN  /\ k \in Putters /\ Me.name = NameOf[k] /\ Me.block + 1 < WordMod
               /\ Me.name \in Names
               /\ size <= DataCells /\ stored' = stored
               /\ \A n \in Names \ {Me.name} : content'[n] = content[n]
               /\ ~Me.good => content' = content
               /\ Me.good => Archive!Extend(k)
               /\ Me.good /\ m = size =>
                      content'[Me.name] = Archive!Blocks(SourceOf[k], Me.block + 1)
               /\ size < DataCells => Archive!Blocks(SourceOf[k], Me.block + 1) = SourceOf[k]
<1> DEFINE k == Me.client_socket
           f == SourceOf[k]
           b == Me.block
           size == Len(r.pkt.data)
           low == b * DataCells
           nm == Me.name
<1>1. /\ k \in Putters /\ b + 1 \in Nat \ {0} /\ nm = NameOf[k]
      /\ r.pkt = createData(b + 1, ChunkOf(f, b + 1))
      /\ b * DataCells <= Len(f)
  BY NextPacket
<1>2. /\ f \in Seq(Cell) /\ nm \in Names
  BY <1>1, ClientAssumption
<1>3. /\ r.pkt.data = ChunkOf(f, b + 1) /\ b + 1 < WordMod
  BY <1>1, NumberOf DEF InOrder
<1>4. Me \in ServerClient /\ Me.connected /\ b \in Nat /\ slot \in Slots /\ Me = clients[slot]
  BY MyCount, MeType DEF Serving, ServerClient, SlotsInv, Me
<1>5. content \in [Names -> Payload] /\ stored \subseteq Names
  BY DEF SlotsInv, TypeInv, TypeOK, ServerTypeOK
<1>6. /\ stored' = stored
      /\ content' = [content EXCEPT ![nm] = content[nm] \o SubSeq(r.pkt.data, 1, m)]
      /\ Me.good \/ m = 0
  BY DEF write, WriteBlock
<1>7. /\ Archive!Blocks(f, b) = SubSeq(f, 1, low)
      /\ Len(Archive!Blocks(f, b)) = low /\ low \in Nat
      /\ Archive!Blocks(f, b) \o SubSeq(ChunkOf(f, b + 1), 1, m) = SubSeq(f, 1, low + m)
      /\ Len(Archive!Blocks(f, b + 1)) = low + size
      /\ Archive!Blocks(f, b + 1) = SubSeq(f, 1, low + size)
      /\ low + size <= Len(f) /\ size \in Nat /\ size <= DataCells
      /\ size < DataCells => low + size = Len(f)
  <2>1. m \in 0 .. Len(ChunkOf(f, b + 1)) /\ size = Len(ChunkOf(f, b + 1))
    BY <1>3
  <2> HIDE DEF f, b, size
  <2> QED
    BY <1>1, <1>2, <1>4, <2>1, BlocksAndPart
<1>8. ASSUME ~Me.good PROVE content' = content
  <2>1. m = 0 /\ content[nm] \in Payload
    BY <1>2, <1>5, <1>6, <1>8
  <2>2. SubSeq(r.pkt.data, 1, m) = <<>>
    <3>1. r.pkt \in Packet
      BY MyPacket
    <3> QED
      BY <2>1, <3>1 DEF Packet, Payload
  <2>3. content[nm] \o <<>> = content[nm]
    BY <2>1 DEF Payload
  <2> QED
    BY <1>5, <1>6, <2>2, <2>3
<1>9. ASSUME Me.good
      PROVE  /\ nm \in stored \ InitStored
             /\ content[nm] = Archive!Blocks(f, b)
  <2>1. StreamsTo(clients[slot]) /\ Streams(slot)
    BY <1>4, <1>9 DEF Serving, StreamsTo, Streams, Writing
  <2>2. FileRight(clients[slot], content[nm])
    BY <1>4, <2>1 DEF FilesInv
  <2>3. Held(Me) = b
    <3>1. WordMod \in Nat
      BY PacketAssumption
    <3> QED
      BY <1>3, <1>4, <3>1 DEF Held
  <2> QED
    BY <1>4, <2>1, <2>2, <2>3 DEF OneWriter, FileRight
<1>10. ASSUME Me.good
       PROVE  content' = [content EXCEPT ![nm] = SubSeq(f, 1, low + m)]
  BY <1>3, <1>6, <1>7, <1>9, <1>10
<1>11. ASSUME Me.good PROVE Archive!Extend(k)
  <2> DEFINE q == Len(content[nm]) \div DataCells
  <2>1. q = b
    <3>1. Len(content[nm]) = low
      BY <1>7, <1>9, <1>11
    <3>2. low \div DataCells = b
      BY <1>4, FullBlocks, PacketAssumption
    <3> QED
      BY <3>1, <3>2
  <2> HIDE DEF q
  <2>a. m \in 0 .. size
    BY <1>3
  <2> HIDE DEF low, size, f, b, nm
  <2>2. low + m \in low .. low + size
    BY <1>7, <2>a
  <2>3. low + m \in Len(content[nm]) .. Len(Archive!Blocks(f, q + 1))
    BY <1>7, <1>9, <1>11, <2>1, <2>2
  <2> QED
    BY <1>1, <1>6, <1>9, <1>10, <1>11, <2>1, <2>3 DEF Archive!Extend, q, f, nm
<1>12. ASSUME Me.good, m = size
       PROVE  content'[nm] = Archive!Blocks(f, b + 1)
  BY <1>2, <1>5, <1>7, <1>10, <1>12
<1>13. size < DataCells => Archive!Blocks(f, b + 1) = f
  <2>1. SubSeq(f, 1, Len(f)) = f
    BY <1>2
  <2> QED
    BY <1>7, <2>1
<1>14. \A n \in Names \ {nm} : content'[n] = content[n]
  BY <1>5, <1>6
<1> QED
  BY <1>1, <1>2, <1>3, <1>6, <1>7, <1>8, <1>11, <1>12, <1>13, <1>14

\* A file that is created, for a slot that starts with its count at zero.
LEMMA FileCreated ==
    ASSUME SlotsInv, CountInv, running, ~Segmented, NEW r \in receivePacket,
           StartWrite(r)
    PROVE  /\ Me.client_socket \in Putters /\ Me.block = 0
           /\ r.pkt.name = NameOf[Me.client_socket] /\ r.pkt.name \notin stored
           /\ r.pkt.name \in Names
           /\ \E opened \in BOOLEAN : \E c :
                 /\ Store([Me EXCEPT !.request = "WRITE", !.file_rrq = "freed",
                                     !.file_wrq = "live", !.name = r.pkt.name,
                                     !.good = opened], c)
                 /\ opened => Archive!Create(Me.client_socket)
                 /\ ~opened => filesUnchanged
<1> DEFINE k == Me.client_socket
<1>1. /\ Me.block = 0
      /\ k \in Putters => r.pkt = createWRQ(NameOf[k])
      /\ k \in Getters => isACK(r.pkt) \/ r.pkt = createRRQ(NameOf[k])
  BY FirstRequest DEF StartWrite, CreateFile
<1>2. Me.connected /\ k \in Sessions
  BY MyPacket, MyCount
<1>3. /\ createRRQ(NameOf[k]).op = "RRQ" /\ createWRQ(NameOf[k]).name = NameOf[k]
      /\ isWRQ(r.pkt) /\ r.pkt.name \notin stored
  BY DEF createRRQ, createWRQ, Cleared, StartWrite, CreateFile
<1>4. k \in Putters
  BY <1>1, <1>2, <1>3, ClientAssumption DEF isACK, isWRQ
<1>5. PICK opened \in IF DiskMayFail THEN {TRUE, FALSE} ELSE {TRUE} :
         /\ stored' = IF opened THEN stored \cup {r.pkt.name} ELSE stored
         /\ content' = IF opened THEN [content EXCEPT ![r.pkt.name] = <<>>]
                       ELSE content
         /\ Answer([Me EXCEPT !.request = "WRITE", !.file_rrq = "freed",
                              !.file_wrq = "live", !.name = r.pkt.name,
                              !.good = opened],
                   After(r), createACK(0))
  BY DEF StartWrite, CreateFile
<1>6. opened \in BOOLEAN
  BY <1>5
<1>7. r.pkt.name = NameOf[k] /\ r.pkt.name \in Names
  BY <1>1, <1>3, <1>4, ClientAssumption
<1>8. opened => Archive!Create(k)
  BY <1>3, <1>5, <1>7 DEF Archive!Create
<1>9. ~opened => filesUnchanged
  BY <1>5 DEF filesUnchanged
<1> QED
  BY <1>1, <1>3, <1>4, <1>5, <1>6, <1>7, <1>8, <1>9 DEF Answer

(***************************************************************************)
(* What a step of the server does to the files: its slot still has the     *)
(* blocks it has counted, and no other file changes.                       *)
(***************************************************************************)
FileTurn ==
    /\ \E cl : /\ clients' = [clients EXCEPT ![slot] = cl]
               /\ StreamsTo(cl) => FileRight(cl, content'[cl.name])
    /\ \A n \in stored : (StreamsTo(Me) /\ n = Me.name) \/ content'[n] = content[n]

\* The turn that accepts a write request creates the file.
LEMMA CreateTurn ==
    ASSUME SlotsInv, CountInv, FilesInv, running, ~Segmented, NEW r \in receivePacket,
           StartWrite(r)
    PROVE  FileTurn /\ [Archive!StoreNext]_<<stored, content>>
<1> DEFINE k == Me.client_socket
           f == SourceOf[k]
           nm == r.pkt.name
<1>0. PICK opened \in BOOLEAN : \E c :
         /\ Store([Me EXCEPT !.request = "WRITE", !.file_rrq = "freed",
                             !.file_wrq = "live", !.name = nm, !.good = opened], c)
         /\ opened => Archive!Create(k)
         /\ ~opened => filesUnchanged
  BY FileCreated
<1>1. PICK c :
         /\ Store([Me EXCEPT !.request = "WRITE", !.file_rrq = "freed",
                             !.file_wrq = "live", !.name = nm, !.good = opened], c)
         /\ opened => Archive!Create(k)
         /\ ~opened => filesUnchanged
  BY <1>0
<1> DEFINE cl == [Me EXCEPT !.request = "WRITE", !.file_rrq = "freed",
                            !.file_wrq = "live", !.name = nm, !.good = opened]
<1>2. /\ k \in Putters /\ Me.block = 0 /\ nm = NameOf[k] /\ nm \notin stored
      /\ nm \in Names
  BY FileCreated
<1>3. Me \in ServerClient
  BY MyPacket, MyCount
<1>4. /\ cl.name = nm /\ cl.block = 0 /\ cl.client_socket = k /\ cl.good = opened
  BY <1>2, <1>3 DEF ServerClient
<1>5. clients' = [clients EXCEPT ![slot] = cl]
  BY <1>1 DEF Store
<1> HIDE DEF cl
<1>6. content \in [Names -> Payload] /\ stored \subseteq Names /\ InitStored \subseteq stored
  BY DEF SlotsInv, TypeInv, TypeOK, ServerTypeOK, FilesInv
<1>7. Archive!Blocks(f, 0) = <<>>
  <2>1. f \in Seq(Cell)
    BY <1>2, ClientAssumption
  <2>2. 0 * DataCells = 0
    BY PacketAssumption
  <2> QED
    BY <2>1, <2>2 DEF Archive!Blocks
<1>8. ASSUME opened PROVE FileRight(cl, content'[cl.name])
  <2>1. content' = [content EXCEPT ![nm] = <<>>]
    BY <1>1, <1>2, <1>8 DEF Archive!Create
  <2>2. Held(cl) = 0
    BY <1>4, PacketAssumption DEF Held
  <2> QED
    BY <1>2, <1>4, <1>6, <1>7, <2>1, <2>2 DEF FileRight
<1>9. \A n \in stored : content'[n] = content[n]
  BY <1>1, <1>2, <1>6 DEF Archive!Create, filesUnchanged
<1>10. [Archive!StoreNext]_<<stored, content>>
  BY <1>1, <1>2 DEF Archive!StoreNext, filesUnchanged
<1> QED
  BY <1>4, <1>5, <1>8, <1>9, <1>10 DEF FileTurn, StreamsTo

\* The turn that receives a packet of it appends a block, or a part of one.
LEMMA DataTurn ==
    ASSUME SlotsInv, CountInv, OneWriter, FilesInv, running, ~Segmented,
           NEW r \in receivePacket, DataExpected(r) \/ DataFinal(r)
    PROVE  FileTurn /\ [Archive!StoreNext]_<<stored, content>>
<1> DEFINE k == Me.client_socket
           size == Len(r.pkt.data)
           next == Archive!Blocks(SourceOf[k], Me.block + 1)
<1>1. Serving("WRITE") /\ InOrder(r)
  BY DEF DataExpected, DataFinal
<1>2. PICK m \in 0 .. size :
         /\ write(r.pkt.data, m)
         /\ \/ Answer([Me EXCEPT !.block = @ + 1, !.good = @ /\ m = size],
                      After(r), createACK(Me.block + 1))
            \/ \E o \in ServerSends(After(r), createACK(Me.block + 1)) :
                  disconnectClient(Me, o.conn)
  BY DEF DataExpected, DataFinal, EndTransfer
<1>3. /\ k \in Putters /\ Me.name = NameOf[k] /\ Me.block + 1 < WordMod
      /\ Me.name \in Names /\ stored' = stored
      /\ \A n \in Names \ {Me.name} : content'[n] = content[n]
      /\ ~Me.good => content' = content
      /\ Me.good => Archive!Extend(k)
      /\ Me.good /\ m = size => content'[Me.name] = next
  BY <1>1, <1>2, BlockStored
<1> HIDE DEF next, size
<1>4. Me \in ServerClient /\ Me.connected /\ Me.request = "WRITE" /\ Me = clients[slot]
  BY <1>1, MyCount DEF Serving, Me
<1>5. content \in [Names -> Payload] /\ stored \subseteq Names /\ slot \in Slots
  BY DEF SlotsInv, TypeInv, TypeOK, ServerTypeOK
<1>6. [Archive!StoreNext]_<<stored, content>>
  BY <1>3, <1>4 DEF Archive!StoreNext, ServerClient
<1>7. ASSUME NEW n \in stored
      PROVE  (StreamsTo(Me) /\ n = Me.name) \/ content'[n] = content[n]
  BY <1>3, <1>4, <1>5 DEF StreamsTo, ServerClient
<1>8. CASE Answer([Me EXCEPT !.block = @ + 1, !.good = @ /\ m = size],
                  After(r), createACK(Me.block + 1))
  <2> DEFINE kept == Me.good /\ m = size
             cl == [Me EXCEPT !.block = Me.block + 1, !.good = kept]
  <2>1. clients' = [clients EXCEPT ![slot] = cl]
    BY <1>8 DEF Answer, Store
  <2>2. /\ cl.name = Me.name /\ cl.block = Me.block + 1 /\ cl.client_socket = k
        /\ cl.good = kept
    BY <1>4 DEF ServerClient
  <2> HIDE DEF cl
  <2>3. ASSUME StreamsTo(cl) PROVE FileRight(cl, content'[cl.name])
    <3>1. Me.good /\ m = size
      BY <2>2, <2>3 DEF StreamsTo
    <3>2. content'[Me.name] = next
      BY <1>3, <3>1
    <3>3. Me.name \notin InitStored
      BY <1>4, <1>5, <3>1 DEF FilesInv, FileRight, StreamsTo
    <3>4. Held(cl) = Me.block + 1
      BY <1>3, <2>2 DEF Held
    <3> QED
      BY <2>2, <3>2, <3>3, <3>4 DEF FileRight, next
  <2> QED
    BY <1>6, <1>7, <2>1, <2>3 DEF FileTurn
<1>9. CASE \E o \in ServerSends(After(r), createACK(Me.block + 1)) :
              disconnectClient(Me, o.conn)
  <2>1. /\ ~Disconnected(Me).connected
        /\ clients' = [clients EXCEPT ![slot] = Disconnected(Me)]
    BY <1>4, <1>9 DEF disconnectClient, Store, Disconnected, Released, ServerClient
  <2> QED
    BY <1>6, <1>7, <2>1 DEF FileTurn, StreamsTo
<1> QED
  BY <1>2, <1>8, <1>9

\* A step that leaves the files alone: its slot goes on streaming only if it
\* ignores a block, whose number is beyond those the server can read.
LEMMA QuietFiles ==
    ASSUME SlotsInv, CountInv, FilesInv, ~Segmented, ServerStep, filesUnchanged,
           \A r \in receivePacket : ~StartWrite(r) /\ ~DataExpected(r) /\ ~DataFinal(r)
    PROVE  FileTurn
<1>1. TypeInv /\ running /\ content' = content /\ stored' = stored
  BY DEF SlotsInv, ServerStep, filesUnchanged
<1>2. /\ Me \in ServerClient /\ Me = clients[slot] /\ slot \in Slots
      /\ clients \in [Slots -> ServerClient]
  BY <1>1, MeType DEF SlotOK, Me, TypeInv, TypeOK, ServerTypeOK
<1>3. PICK cl : /\ clients' = [clients EXCEPT ![slot] = cl]
                /\ StreamsTo(cl) => \/ StreamsTo(Me) /\ cl.name = Me.name
                                    \/ cl.name \in stored' \ stored
  BY <1>1, ServerTurn DEF Turns
<1>4. CASE ~StreamsTo(Me)
  BY <1>1, <1>3, <1>4 DEF FileTurn
<1>5. CASE StreamsTo(Me) /\ UNCHANGED clients
  <2>1. clients' = [clients EXCEPT ![slot] = Me]
    BY <1>2, <1>5
  <2>2. FileRight(Me, content'[Me.name])
    BY <1>1, <1>2, <1>5 DEF FilesInv
  <2> QED
    BY <1>1, <2>1, <2>2 DEF FileTurn
<1>6. CASE \E d \in ServerClient : \E c : disconnectClient(d, c)
  <2>1. PICK d \in ServerClient : \E c : disconnectClient(d, c)
    BY <1>6
  <2>2. /\ ~Disconnected(d).connected
        /\ clients' = [clients EXCEPT ![slot] = Disconnected(d)]
    BY <2>1 DEF disconnectClient, Store, Disconnected, Released, ServerClient
  <2> QED
    BY <1>1, <2>2 DEF FileTurn, StreamsTo
<1>7. CASE StreamsTo(Me) /\ \E r \in receivePacket : DataMismatch(r)
  <2>1. PICK r \in receivePacket : DataMismatch(r)
    BY <1>7
  <2> DEFINE new == [Me EXCEPT !.block = @ + 1]
  <2>2. clients' = [clients EXCEPT ![slot] = new]
    BY <2>1 DEF DataMismatch, Store
  <2>3. /\ new.name = Me.name /\ new.block = Me.block + 1
        /\ new.client_socket = Me.client_socket
    BY <1>2 DEF ServerClient
  <2>4. ~(Me.block + 1 < WordMod)
    <3>1. /\ Me.block + 1 \in Nat
          /\ r.pkt = createData(Me.block + 1,
                                ChunkOf(SourceOf[Me.client_socket], Me.block + 1))
      BY <1>1, <2>1, NextPacket DEF DataMismatch
    <3> QED
      BY <2>1, <3>1, NumberOf DEF DataMismatch, InOrder
  <2> HIDE DEF new
  <2>5. Held(new) = Held(Me)
    <3>1. Me.block \in Nat /\ WordMod \in Nat
      BY <1>2, PacketAssumption DEF ServerClient
    <3> QED
      BY <2>3, <2>4, <3>1 DEF Held
  <2>6. FileRight(Me, content[Me.name])
    BY <1>2, <1>7 DEF FilesInv
  <2>7. FileRight(new, content'[new.name])
    BY <1>1, <2>3, <2>5, <2>6 DEF FileRight
  <2> QED
    BY <1>1, <2>2, <2>7 DEF FileTurn
<1>8. ASSUME StreamsTo(Me)
      PROVE  \/ UNCHANGED clients
             \/ \E d \in ServerClient : \E c : disconnectClient(d, c)
             \/ \E r \in receivePacket : DataMismatch(r)
  <2>1. Me.connected /\ Me.request = "WRITE"
    BY <1>8 DEF StreamsTo
  <2>2. CASE NothingToAccept
    <3>1. clients' = [clients EXCEPT ![slot].client_socket = Me.client_socket]
      BY <1>2, <2>1, <2>2 DEF NothingToAccept
    <3>2. [Me EXCEPT !.client_socket = Me.client_socket] = Me
      BY <1>2 DEF ServerClient
    <3> QED
      BY <1>2, <3>1, <3>2
  <2>3. CASE PeerClosed
    BY <1>2, <2>3 DEF PeerClosed
  <2>4. CASE NothingReceived \/ NothingToSend
    BY <2>4 DEF NothingReceived, NothingToSend
  <2>5. ~acceptClient /\ ~SendNextBlock
    BY <2>1 DEF acceptClient, SendNextBlock, MaySend, Serving
  <2>6. ASSUME NEW r \in receivePacket, OnPacket(r)
        PROVE  WriteUnexpected(r) \/ DataMismatch(r)
    <3>1. phase # "request"
      BY <2>1, <2>6 DEF receivePacket, Receiving
    <3> QED
      BY <2>1, <2>6, <3>1
         DEF OnPacket, ReadMissingFile, StartRead, WriteExistingFile, RequestUnexpected,
             AckExpected, AckFinal, AckFor, AckMismatch, ReadUnexpected, Serving
  <2>7. ASSUME NEW r \in receivePacket, WriteUnexpected(r)
        PROVE  \E d \in ServerClient : \E c : disconnectClient(d, c)
    BY <1>2, <2>7 DEF WriteUnexpected, Refuse
  <2> QED
    BY <2>2, <2>3, <2>4, <2>5, <2>6, <2>7 DEF ServerStep
<1> QED
  BY <1>4, <1>5, <1>6, <1>7, <1>8

\* Every turn of the server keeps the files right.
LEMMA ServerFiles ==
    ASSUME SlotsInv, CountInv, OneWriter, FilesInv, ~Segmented, ServerStep
    PROVE  FileTurn /\ [Archive!StoreNext]_<<stored, content>>
<1>1. running
  BY DEF ServerStep
<1>2. CASE \E r \in receivePacket : StartWrite(r)
  BY <1>1, <1>2, CreateTurn
<1>3. CASE \E r \in receivePacket : DataExpected(r) \/ DataFinal(r)
  BY <1>1, <1>3, DataTurn
<1>4. ASSUME \A r \in receivePacket : ~StartWrite(r) /\ ~DataExpected(r) /\ ~DataFinal(r)
      PROVE  filesUnchanged
  BY <1>4 DEF ServerStep, OnPacket, acceptClient, accept, NothingToAccept, PeerClosed,
         NothingReceived, ReadMissingFile, StartRead, WriteExistingFile,
         RequestUnexpected, AckExpected, AckFinal, AckOK, AckMismatch,
         ReadUnexpected, DataMismatch, WriteUnexpected, SendNextBlock, NothingToSend
<1>5. CASE \A r \in receivePacket : ~StartWrite(r) /\ ~DataExpected(r) /\ ~DataFinal(r)
  BY <1>4, <1>5, QuietFiles DEF filesUnchanged
<1> QED
  BY <1>2, <1>3, <1>5

\* The other slots write other files, so theirs stay as they are.
LEMMA FilesStep ==
    ASSUME SlotsInv, CountInv, OneWriter, FilesInv, ~Segmented, [Next]_vars
    PROVE  FilesInv' /\ [Archive!StoreNext]_<<stored, content>>
<1>1. CASE Server
  <2>1. TypeInv /\ ServerStep /\ slot \in Slots /\ Me = clients[slot]
        /\ clients \in [Slots -> ServerClient]
    BY <1>1, MeType DEF Server, SlotsInv, Me, TypeInv, TypeOK, ServerTypeOK
  <2>2. FileTurn /\ [Archive!StoreNext]_<<stored, content>>
    BY <2>1, ServerFiles
  <2>3. InitStored \subseteq stored'
    BY <2>1, ServerGrows DEF Grows, FilesInv
  <2>4. PICK cl : /\ clients' = [clients EXCEPT ![slot] = cl]
                  /\ StreamsTo(cl) => FileRight(cl, content'[cl.name])
    BY <2>2 DEF FileTurn
  <2>5. ASSUME NEW i \in Slots, StreamsTo(clients'[i])
        PROVE  FileRight(clients'[i], content'[clients'[i].name])
    <3>1. CASE i = slot
      BY <2>1, <2>4, <2>5, <3>1
    <3>2. CASE i # slot
      <4>1. clients'[i] = clients[i] /\ Streams(i)
        BY <2>1, <2>4, <2>5, <3>2 DEF Streams, Writing, StreamsTo
      <4>2. clients[i].name \in stored
        BY <4>1 DEF OneWriter
      <4>3. ~(StreamsTo(Me) /\ clients[i].name = Me.name)
        BY <2>1, <3>2, <4>1 DEF OneWriter, Streams, Writing, StreamsTo
      <4>4. content'[clients[i].name] = content[clients[i].name]
        BY <2>2, <4>2, <4>3 DEF FileTurn
      <4> QED
        BY <2>5, <4>1, <4>4 DEF FilesInv
    <3> QED
      BY <3>1, <3>2
  <2> QED
    BY <2>2, <2>3, <2>5 DEF FilesInv
<1>2. CASE UNCHANGED serverVars
  BY <1>2 DEF serverVars, FilesInv
<1> QED
  BY <1>1, <1>2 DEF Next, Client, Timeout, Network, vars

StreamInv == SlotsInv /\ CountInv /\ OneWriter /\ FilesInv

\* The invariants together.
LEMMA StreamInit == Init => StreamInv
<1> SUFFICES ASSUME Init PROVE StreamInv
  OBVIOUS
<1>1. \A i \in Slots : ~clients[i].connected
  BY DEF Init, ServerInit, NewServerClient
<1>2. FilesInv
  BY <1>1 DEF FilesInv, StreamsTo, Init, ServerInit
<1>3. OneWriter
  BY <1>1 DEF OneWriter, Streams, Writing
<1> QED
  BY <1>2, <1>3, TypeInit, SlotsInit, CountInit DEF StreamInv, SlotsInv

\* They are inductive, and every step is one of WriteOnceStore.
LEMMA StreamStep ==
    ASSUME ~Segmented, StreamInv, [Next]_vars
    PROVE  StreamInv' /\ [Archive!StoreNext]_<<stored, content>>
<1>1. TypeInv
  BY DEF StreamInv, SlotsInv
<1> QED
  BY <1>1, SlotsStep, CountStep, OneWriterStep, FilesStep DEF StreamInv
-----------------------------------------------------------------------------
(* The theorems. *)

\* Whatever a write-once store does, its files are beginnings of sources.
LEMMA StoreKeepsPrefixes ==
    ASSUME StoredIsPrefix, content \in [Names -> Payload],
           [Archive!StoreNext]_<<stored, content>>
    PROVE  StoredIsPrefix'
<1>1. CASE UNCHANGED <<stored, content>>
  BY <1>1 DEF StoredIsPrefix
<1>2. CASE \E s \in Putters : Archive!Create(s)
  <2>1. PICK s \in Putters : Archive!Create(s)
    BY <1>2
  <2>2. NameOf[s] \in Names /\ SourceOf[s] \in Seq(Cell)
    BY <2>1, ClientAssumption
  <2>3. IsPrefix(<<>>, SourceOf[s])
    BY <2>2 DEF IsPrefix
  <2> QED
    BY <2>1, <2>2, <2>3 DEF Archive!Create, StoredIsPrefix
<1>3. CASE \E s \in Putters : Archive!Extend(s)
  <2>1. PICK s \in Putters : Archive!Extend(s)
    BY <1>3
  <2> DEFINE n == NameOf[s]
             f == SourceOf[s]
             k == Len(content[n]) \div DataCells
  <2>2. n \in Names /\ f \in Seq(Cell) /\ Len(f) \in Nat /\ Len(content[n]) \in Nat
    BY <2>1, ClientAssumption DEF Payload
  <2>3. PICK m \in Len(content[n]) .. Len(Archive!Blocks(f, k + 1)) :
            content' = [content EXCEPT ![n] = SubSeq(f, 1, m)]
    BY <2>1 DEF Archive!Extend
  <2>4. m \in 0 .. Len(f)
    <3>1. DataCells \in Nat \ {0}
      BY PacketAssumption
    <3>2. k \in Nat
      <4>1. \A a \in Nat, d \in Nat \ {0} : a \div d \in Nat
        OBVIOUS
      <4> QED
        BY <2>2, <3>1, <4>1
    <3> HIDE DEF k
    <3>3. (k + 1) * DataCells \in Nat
      BY <3>1, <3>2, FullBlocks
    <3>4. Len(Archive!Blocks(f, k + 1)) <= Len(f)
      BY <2>2, <3>3 DEF Archive!Blocks
    <3>5. Len(Archive!Blocks(f, k + 1)) \in Nat
      BY <2>2, <3>3 DEF Archive!Blocks
    <3> QED
      BY <2>2, <2>3, <3>4, <3>5
  <2>5. IsPrefix(SubSeq(f, 1, m), f)
    <3>1. Len(SubSeq(f, 1, m)) = m /\ SubSeq(SubSeq(f, 1, m), 1, m) = SubSeq(f, 1, m)
      BY <2>2, <2>4
    <3> QED
      BY <2>2, <2>4, <3>1 DEF IsPrefix
  <2> HIDE DEF k
  <2> QED
    BY <2>1, <2>2, <2>3, <2>5 DEF Archive!Extend, StoredIsPrefix
<1> QED
  BY <1>1, <1>2, <1>3 DEF Archive!StoreNext

(***************************************************************************)
(* Whatever is late, lost with its connection or refused by the disk, a    *)
(* stored file is the beginning of what one master sends under its name:   *)
(* for any files, any number of clients and slots, and block numbers that  *)
(* wrap (sendFile, receiveFromClients).  recv must return whole packets.   *)
(***************************************************************************)
THEOREM StoredArePrefixes ==
    ASSUME ~Segmented
    PROVE  Spec => []StoredIsPrefix
<1>1. Init => StreamInv /\ StoredIsPrefix
  BY StreamInit DEF Init, ServerInit, StoredIsPrefix
<1>2. StreamInv /\ StoredIsPrefix /\ [Next]_vars => StreamInv' /\ StoredIsPrefix'
  <2> SUFFICES ASSUME StreamInv, StoredIsPrefix, [Next]_vars
               PROVE  StreamInv' /\ StoredIsPrefix'
    OBVIOUS
  <2>1. content \in [Names -> Payload]
    BY DEF StreamInv, SlotsInv, TypeInv, TypeOK, ServerTypeOK
  <2> QED
    BY <2>1, StreamStep, StoreKeepsPrefixes
<1> QED
  BY <1>1, <1>2, PTL DEF Spec

(***************************************************************************)
(* The server implements WriteOnceStore: every step of the system creates  *)
(* one new file, appends (a part of) the next block of its source to one,  *)
(* or leaves the directory alone.  recv must return whole packets.         *)
(***************************************************************************)
THEOREM ServerIsWriteOnce ==
    ASSUME ~Segmented
    PROVE  Spec => WriteOnce
<1>1. Init => StreamInv /\ Archive!StoreInit
  BY StreamInit DEF Init, ServerInit, Archive!StoreInit
<1>2. StreamInv /\ [Next]_vars => StreamInv' /\ [Archive!StoreNext]_Archive!storeVars
  BY StreamStep DEF Archive!storeVars
<1> QED
  BY <1>1, <1>2, PTL DEF Spec, WriteOnce, Archive!StoreSpec

\* A slot that writes is let go on a DATA packet only when the file is whole.
LEMMA EndsWhole ==
    ASSUME ~Segmented, ~DiskMayFail, StreamInv, ServerStep,
           Writing(slot), ~clients'[slot].connected,
           ~ClientGone(Line), isData(Head(Line.up))
    PROVE  content'[Me.name] = SourceOf[Me.client_socket]
<1>1. /\ SlotsInv /\ CountInv /\ OneWriter /\ FilesInv /\ TypeInv /\ running
  BY DEF StreamInv, SlotsInv, ServerStep
<1>2. /\ Me = clients[slot] /\ slot \in Slots /\ Me.connected /\ Me.request = "WRITE"
      /\ clients \in [Slots -> ServerClient] /\ Me \in ServerClient
  BY <1>1, MeType DEF Writing, Me, TypeInv, TypeOK, ServerTypeOK
<1>3. \E r \in receivePacket : OnPacket(r)
  <2>1. ~acceptClient /\ ~PeerClosed /\ ~SendNextBlock
    BY <1>2 DEF acceptClient, PeerClosed, SendNextBlock, MaySend, Serving
  <2>2. ~NothingReceived /\ ~NothingToSend
    BY <1>2 DEF NothingReceived, NothingToSend
  <2>3. ~NothingToAccept
    <3>1. ASSUME NothingToAccept PROVE FALSE
      <4>1. clients' = [clients EXCEPT ![slot].client_socket = Me.client_socket]
        BY <1>2, <3>1 DEF NothingToAccept
      <4>2. clients'[slot].connected = Me.connected
        BY <1>2, <4>1 DEF ServerClient
      <4> QED
        BY <1>2, <4>2
    <3> QED
      BY <3>1
  <2> QED
    BY <2>1, <2>2, <2>3 DEF ServerStep
<1>4. PICK r \in receivePacket : OnPacket(r)
  BY <1>3
<1>5. isData(r.pkt) /\ phase # "request"
  <2>1. phase # "request"
    BY <1>2, <1>4 DEF receivePacket, Receiving
  <2> QED
    BY <1>1, <1>4, <2>1, MyPacket
<1>7. ~DataExpected(r)
  <2>1. ASSUME DataExpected(r) PROVE FALSE
    <3>1. PICK m \in 0 .. Len(r.pkt.data) :
             Answer([Me EXCEPT !.block = @ + 1, !.good = @ /\ m = Len(r.pkt.data)],
                    After(r), createACK(Me.block + 1))
      BY <2>1 DEF DataExpected
    <3> DEFINE cl == [Me EXCEPT !.block = @ + 1, !.good = @ /\ m = Len(r.pkt.data)]
    <3>2. clients' = [clients EXCEPT ![slot] = cl]
      BY <3>1 DEF Answer, Store
    <3>3. cl.connected
      BY <1>2 DEF ServerClient
    <3> HIDE DEF cl
    <3> QED
      BY <1>2, <3>2, <3>3
  <2> QED
    BY <2>1
<1>8. ~DataMismatch(r)
  <2>1. ASSUME DataMismatch(r) PROVE FALSE
    <3> DEFINE cl == [Me EXCEPT !.block = @ + 1]
    <3>1. clients' = [clients EXCEPT ![slot] = cl]
      BY <2>1 DEF DataMismatch, Store
    <3>2. cl.connected
      BY <1>2 DEF ServerClient
    <3> HIDE DEF cl
    <3> QED
      BY <1>2, <3>1, <3>2
  <2> QED
    BY <2>1
<1>9. DataFinal(r)
  BY <1>2, <1>4, <1>5, <1>7, <1>8
     DEF OnPacket, ReadMissingFile, StartRead, WriteExistingFile, StartWrite, CreateFile,
         RequestUnexpected, AckExpected, AckFinal, AckFor, AckMismatch, ReadUnexpected,
         WriteUnexpected, Serving
<1>10. Serving("WRITE") /\ InOrder(r) /\ Len(r.pkt.data) < DataCells
  BY <1>9 DEF DataFinal
<1>11. PICK m \in 0 .. Len(r.pkt.data) : write(r.pkt.data, m)
  BY <1>9 DEF DataFinal, EndTransfer
<1>12. Me.good
  BY <1>1, <1>2, MyCount DEF SlotCounts, WritesFor
<1>13. m = Len(r.pkt.data)
  <2>1. r.pkt.data \in Payload
    BY <1>1, <1>4, MyPacket DEF Packet
  <2>2. Len(r.pkt.data) \in Nat
    BY <2>1 DEF Payload
  <2> QED
    BY <1>11, <1>12, <2>2 DEF write, WriteBlock
<1> QED
  BY <1>1, <1>4, <1>10, <1>11, <1>12, <1>13, BlockStored

(***************************************************************************)
(* When the server ends a transfer on the packet it takes for the last, it *)
(* has the whole file: if the disk takes what it is given, and recv        *)
(* returns whole packets (receiveFromClients, "Client successfully         *)
(* transfered a file").                                                    *)
(***************************************************************************)
THEOREM EndedTransfersAreWhole ==
    ASSUME ~Segmented, ~DiskMayFail
    PROVE  Spec => SuccessfullyTransferred
<1> DEFINE Whole == \A i \in Slots : EndsTransfer(i) =>
                        content'[clients[i].name] = SourceOf[clients[i].client_socket]
<1>1. StreamInv /\ [Next]_vars => [Whole]_vars
  <2> SUFFICES ASSUME StreamInv, [Next]_vars, NEW i \in Slots, EndsTransfer(i)
               PROVE  content'[clients[i].name] = SourceOf[clients[i].client_socket]
    OBVIOUS
  <2>1. clients[i].connected /\ ~clients'[i].connected
    BY DEF EndsTransfer, Writing
  <2>2. Server
    BY <2>1 DEF Next, Client, Timeout, Network, serverVars, vars
  <2>3. TypeInv /\ ServerStep
    BY <2>2 DEF StreamInv, SlotsInv, Server
  <2>4. i = slot
    <3>1. PICK cl : clients' = [clients EXCEPT ![slot] = cl]
      BY <2>3, ServerTurn DEF Turns
    <3>2. clients \in [Slots -> ServerClient]
      BY <2>3 DEF TypeInv, TypeOK, ServerTypeOK
    <3> QED
      BY <2>1, <3>1, <3>2
  <2> QED
    BY <2>3, <2>4, EndsWhole DEF EndsTransfer, Me, Line
<1>2. StreamInv /\ [Next]_vars => StreamInv'
  BY StreamStep
<1> QED
  BY <1>1, <1>2, StreamInit, PTL DEF Spec, SuccessfullyTransferred
=============================================================================

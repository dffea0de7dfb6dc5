----------------------------- MODULE FetchProofs ------------------------------
(***************************************************************************)
(* Theorems about files on their way from the server: the counters of      *)
(* getFile and of the slot that serves it, for every number of both and    *)
(* any recv, and what getFile writes, for a recv that returns whole        *)
(* packets.                                                                *)
(***************************************************************************)
EXTENDS StreamProofs

-----------------------------------------------------------------------------
(***************************************************************************)
(* What a step of getFile, or of what goes on around it, makes of the      *)
(* connection c and the state t of its client.                             *)
(***************************************************************************)
Same(t, u) ==
    /\ u.last_packet_no = t.last_packet_no
    /\ u.packet_ack = t.packet_ack
    /\ u.file = t.file

Sends(c, p, d) ==
    /\ d.cli = c.cli /\ d.rst = c.rst /\ d.srv = c.srv
    /\ d.up = c.up \/ d.up = Append(c.up, p)
    /\ p.op # "NONE" /\ c.srv # "closed" => d.up = Append(c.up, p)

Opens(c, t, d, u) ==
    /\ t.at = "idle" /\ running
    /\ u.at = "connected" /\ Same(t, u) /\ u.result = t.result
    /\ d.cli = "open" /\ d.rst = c.rst /\ d.up = c.up /\ d.down = c.down

Asks(s, c, t, d, u) ==
    /\ t.at = "connected"
    /\ Sends(c, createRRQ(NameOf[s]), d) /\ d.down = c.down
    /\ u.at = "waiting" /\ u.last_packet_no = 1
    /\ u.packet_ack = t.packet_ack /\ u.file = t.file /\ u.result = t.result

Takes(c, t, d, u) ==
    /\ t.at = "waiting"
    /\ \E r \in Reads(c.down) :
          /\ ~isError(r.pkt)
          /\ getNumber(r.pkt) = t.last_packet_no
          /\ Sends(c, createACK(t.last_packet_no), d) /\ d.down = r.rest
          /\ u.last_packet_no = t.last_packet_no + 1
          /\ u.packet_ack = createACK(t.last_packet_no)
          /\ u.file = t.file \o r.pkt.data
          /\ IF Len(r.pkt.data) < DataCells
             THEN u.at = "closing" /\ u.result = "ok"
             ELSE u.at = "waiting" /\ u.result = t.result /\ Len(r.pkt.data) = DataCells

Overflows(c, t, d, u) ==
    /\ t.at = "waiting"
    /\ \E r \in Reads(c.down) :
          /\ ~isError(r.pkt) /\ ~copyDataFits(r.pkt, DataCells)
          /\ d.cli = c.cli /\ d.rst = c.rst /\ d.up = c.up /\ d.down = r.rest
          /\ u.at = "waiting" /\ u.last_packet_no = t.last_packet_no + 1
          /\ u.packet_ack = t.packet_ack /\ u.file = t.file /\ u.result = t.result

Repeats(c, t, d, u) ==
    /\ t.at = "waiting" /\ t.packet_ack.op # "NONE"
    /\ Sends(c, t.packet_ack, d) /\ d.down = c.down
    /\ u.at = "waiting" /\ Same(t, u) /\ u.result = t.result

Rests(c, t, d, u) ==
    /\ d.up = c.up
    /\ (d.cli = c.cli /\ d.rst = c.rst) \/ d.cli # "open"
    /\ d.down \in {c.down, <<>>} \cup {r.rest : r \in Reads(c.down)}
    /\ u.at # "idle" /\ (u.at = t.at \/ u.at \in {"closing", "done", "spinning"})
    /\ u.at \in {"connected", "waiting"} => d.cli = c.cli
    /\ Same(t, u) /\ (u.result = t.result \/ u.result = "error")

GetterTurns(s, c, t, d, u) ==
    \/ Opens(c, t, d, u) \/ Asks(s, c, t, d, u) \/ Takes(c, t, d, u)
    \/ Overflows(c, t, d, u) \/ Repeats(c, t, d, u) \/ Rests(c, t, d, u)

\* What a send on the client's socket leaves as it is.
LEMMA SendsOn ==
    ASSUME NEW c \in Connection, NEW p \in Packet
    PROVE  /\ ClientSends(c, p) \in Connection
           /\ Sends(c, p, ClientSends(c, p))
           /\ ClientSends(c, p).down = c.down
<1>1. ClientSends(c, p) \in Connection
  BY ConnectionTypes
<1>2. CASE p.op = "NONE"
  BY <1>1, <1>2 DEF ClientSends, Sends
<1>3. CASE p.op # "NONE" /\ c.srv = "closed"
  <2> DEFINE d == [c EXCEPT !.lost = TRUE]
  <2>1. /\ d.cli = c.cli /\ d.rst = c.rst /\ d.srv = c.srv
        /\ d.up = c.up /\ d.down = c.down
    BY DEF Connection
  <2>2. ClientSends(c, p) = d
    BY <1>3 DEF ClientSends
  <2> HIDE DEF d
  <2> QED
    BY <1>1, <1>3, <2>1, <2>2 DEF Sends
<1>4. CASE p.op # "NONE" /\ c.srv # "closed"
  <2> DEFINE d == [c EXCEPT !.up = Append(@, p)]
  <2>1. /\ d.cli = c.cli /\ d.rst = c.rst /\ d.srv = c.srv
        /\ d.up = Append(c.up, p) /\ d.down = c.down
    BY DEF Connection
  <2>2. ClientSends(c, p) = d
    BY <1>4 DEF ClientSends
  <2> HIDE DEF d
  <2> QED
    BY <1>1, <2>1, <2>2 DEF Sends
<1> QED
  BY <1>2, <1>3, <1>4

\* What a recv on the client's socket leaves as it is.
LEMMA HeardKeeps ==
    ASSUME TypeInv, NEW s \in Sessions, NEW r \in Reads(conn[s].down)
    PROVE  LET h == Heard(s, r)
           IN  /\ h \in Connection /\ h.down = r.rest /\ h.up = conn[s].up
               /\ h.cli = conn[s].cli /\ h.rst = conn[s].rst /\ h.srv = conn[s].srv
<1>1. conn[s] \in Connection
  BY DEF TypeInv, TypeOK, NetTypeOK
<1>2. Heard(s, r) \in Connection
  BY HeardType
<1> QED
  BY <1>1, <1>2 DEF Heard, Connection

\* getFile takes the block it expects.
LEMMA TakeTurns ==
    ASSUME TypeInv, NEW s \in Getters, GetExpected(s)
    PROVE  \E u \in Transfer, d \in Connection :
              Move(s, u, d) /\ Takes(conn[s], tx[s], d, u)
<1> DEFINE c == conn[s]
           t == tx[s]
           number == t.last_packet_no
<1>1. /\ s \in Sessions /\ t \in Transfer /\ c \in Connection
  BY ClientAssumption DEF TypeInv, TypeOK, ClientTypeOK, NetTypeOK
<1>2. PICK r \in Reads(c.down) : Expected(s, r) /\ Take(s, r, number)
  BY DEF GetExpected
<1> DEFINE ack == createACK(number)
           old == Accepted(t)
           last == Len(r.pkt.data) < DataCells
           u == [old EXCEPT !.packet_ack = ack,
                            !.file = @ \o r.pkt.data,
                            !.at = IF last THEN "closing" ELSE @,
                            !.result = IF last THEN "ok" ELSE @]
           h == Heard(s, r)
           d == ClientSends(h, ack)
<1>3. Move(s, u, d) /\ ~isError(r.pkt) /\ t.at = "waiting"
  BY <1>2 DEF Take, GetExpected, GetWaits
<1>4. ack \in Packet /\ r.pkt \in Packet
  BY <1>1, <1>2, PacketTypes, HeardType DEF Transfer
<1>5. /\ old \in Transfer /\ old.at = "waiting" /\ old.last_packet_no = number + 1
      /\ old.file = t.file /\ old.result = t.result
  <2>1. old \in Transfer /\ old.at = "waiting"
    BY <1>1, <1>3, AcceptedType
  <2> QED
    BY <1>1, <2>1 DEF Accepted, Transfer
<1>6. Len(r.pkt.data) <= DataCells /\ Len(r.pkt.data) \in Nat /\ DataCells \in Nat
  BY <1>2, <1>4, PacketAssumption DEF Take, copyDataFits, Packet, Payload
<1>7. old.file \o r.pkt.data \in Payload
  BY <1>4, <1>5 DEF Transfer, Payload, Packet
<1>8. getNumber(r.pkt) = number
  BY <1>2 DEF Expected
<1> HIDE DEF ack, old
<1>9. /\ u \in Transfer /\ u.packet_ack = ack /\ u.file = t.file \o r.pkt.data
      /\ u.last_packet_no = number + 1
      /\ IF last THEN u.at = "closing" /\ u.result = "ok"
                 ELSE u.at = "waiting" /\ u.result = t.result
  BY <1>4, <1>5, <1>7 DEF Transfer
<1>10. /\ h \in Connection /\ h.down = r.rest /\ h.up = c.up
       /\ h.cli = c.cli /\ h.rst = c.rst /\ h.srv = c.srv
  BY <1>1, <1>2, HeardKeeps
<1> HIDE DEF u, h
<1>11. d \in Connection /\ Sends(h, ack, d) /\ d.down = h.down
  BY <1>4, <1>10, SendsOn
<1> HIDE DEF d
<1>12. Sends(c, ack, d) /\ d.down = r.rest
  BY <1>10, <1>11 DEF Sends
<1>13. ~last => Len(r.pkt.data) = DataCells
  BY <1>6
<1>14. IF Len(r.pkt.data) < DataCells
       THEN u.at = "closing" /\ u.result = "ok"
       ELSE u.at = "waiting" /\ u.result = t.result /\ Len(r.pkt.data) = DataCells
  BY <1>9, <1>13
<1>15. /\ t.at = "waiting" /\ r \in Reads(c.down)
       /\ ~isError(r.pkt) /\ getNumber(r.pkt) = t.last_packet_no
       /\ Sends(c, createACK(t.last_packet_no), d) /\ d.down = r.rest
       /\ u.last_packet_no = t.last_packet_no + 1
       /\ u.packet_ack = createACK(t.last_packet_no)
       /\ u.file = t.file \o r.pkt.data
  BY <1>2, <1>3, <1>8, <1>9, <1>12 DEF ack
<1> HIDE DEF c, t
<1>16. Takes(c, t, d, u)
  BY <1>14, <1>15 DEF Takes
<1> QED
  BY <1>3, <1>9, <1>11, <1>16 DEF c, t

\* getFile asks, or hears something else, or nothing at all.
LEMMA WaitTurns ==
    ASSUME TypeInv, NEW s \in Getters,
           \/ SendRRQ(s) \/ GetOversized(s) \/ GetMismatch(s)
           \/ GetConnectionLost(s) \/ GetTimesOut(s)
    PROVE  \E u \in Transfer, d \in Connection :
              Move(s, u, d) /\ GetterTurns(s, conn[s], tx[s], d, u)
<1> DEFINE c == conn[s]
           t == tx[s]
<1>1. /\ s \in Sessions /\ t \in Transfer /\ c \in Connection /\ NameOf[s] \in Names
  BY ClientAssumption DEF TypeInv, TypeOK, ClientTypeOK, NetTypeOK
<1>2. CASE SendRRQ(s)
  <2> DEFINE u == [t EXCEPT !.at = "waiting", !.last_packet_no = 1]
             d == ClientSends(c, createRRQ(NameOf[s]))
  <2>1. t.at = "connected" /\ Move(s, u, d)
    BY <1>2 DEF SendRRQ
  <2>2. /\ u \in Transfer /\ u.at = "waiting" /\ u.last_packet_no = 1
        /\ u.packet_ack = t.packet_ack /\ u.file = t.file /\ u.result = t.result
    BY <1>1 DEF Transfer
  <2>3. /\ d \in Connection /\ Sends(c, createRRQ(NameOf[s]), d) /\ d.down = c.down
    BY <1>1, PacketTypes, SendsOn
  <2> HIDE DEF u, d
  <2> QED
    BY <2>1, <2>2, <2>3 DEF GetterTurns, Asks
<1>3. CASE GetOversized(s)
  <2>1. PICK r \in Reads(c.down) : /\ ~isError(r.pkt) /\ ~copyDataFits(r.pkt, DataCells)
                                   /\ Move(s, Accepted(t), Heard(s, r))
    BY <1>3 DEF GetOversized
  <2>2. t.at = "waiting"
    BY <1>3 DEF GetOversized, GetWaits
  <2>3. /\ Accepted(t) \in Transfer /\ Accepted(t).at = "waiting"
        /\ Accepted(t).last_packet_no = t.last_packet_no + 1
        /\ Accepted(t).packet_ack = t.packet_ack /\ Accepted(t).file = t.file
        /\ Accepted(t).result = t.result
    <3>1. Accepted(t) \in Transfer /\ Accepted(t).at = "waiting"
      BY <1>1, <2>2, AcceptedType
    <3> QED
      BY <1>1, <3>1 DEF Accepted, Transfer
  <2>4. /\ Heard(s, r) \in Connection /\ Heard(s, r).down = r.rest
        /\ Heard(s, r).up = c.up /\ Heard(s, r).cli = c.cli /\ Heard(s, r).rst = c.rst
    BY <1>1, <2>1, HeardKeeps
  <2>5. Overflows(c, t, Heard(s, r), Accepted(t))
    BY <2>1, <2>2, <2>3, <2>4 DEF Overflows
  <2> QED
    BY <2>1, <2>3, <2>4, <2>5 DEF GetterTurns
<1>4. CASE GetMismatch(s)
  <2>1. PICK r \in Reads(c.down) : Move(s, t, Heard(s, r))
    BY <1>4 DEF GetMismatch
  <2>2. t.at = "waiting"
    BY <1>4 DEF GetMismatch, GetWaits
  <2>3. /\ Heard(s, r) \in Connection /\ Heard(s, r).down = r.rest
        /\ Heard(s, r).up = c.up /\ Heard(s, r).cli = c.cli /\ Heard(s, r).rst = c.rst
    BY <1>1, <2>1, HeardKeeps
  <2>4. Rests(c, t, Heard(s, r), t)
    BY <2>1, <2>2, <2>3 DEF Rests, Same
  <2> QED
    BY <1>1, <2>1, <2>3, <2>4 DEF GetterTurns
<1>5. CASE GetConnectionLost(s)
  <2> DEFINE u == [t EXCEPT !.at = "spinning"]
             d == [c EXCEPT !.down = <<>>]
  <2>1. Move(s, u, d)
    BY <1>5 DEF GetConnectionLost
  <2>2. u \in Transfer /\ u.at = "spinning" /\ Same(t, u) /\ u.result = t.result
    BY <1>1 DEF Transfer, Same
  <2>3. /\ d \in Connection /\ d.up = c.up /\ d.cli = c.cli /\ d.rst = c.rst
        /\ d.down = <<>>
    <3>1. <<>> \in Seq(Packet)
      OBVIOUS
    <3> QED
      BY <1>1, <3>1 DEF Connection
  <2> HIDE DEF u, d
  <2>4. Rests(c, t, d, u)
    BY <2>2, <2>3 DEF Rests
  <2> QED
    BY <2>1, <2>2, <2>3, <2>4 DEF GetterTurns
<1>6. CASE GetTimesOut(s)
  <2> DEFINE u == [t EXCEPT !.timeout_count = @ + 1]
             gone == [u EXCEPT !.at = "closing", !.result = "error"]
             d == ClientSends(c, u.packet_ack)
  <2>1. t.at = "waiting" /\ (Move(s, u, d) \/ Move(s, gone, c))
    BY <1>6 DEF GetTimesOut, GetWaits
  <2>2. u \in Transfer /\ u.at = "waiting" /\ Same(t, u) /\ u.result = t.result
    BY <1>1, <2>1 DEF Transfer, Same
  <2> HIDE DEF u
  <2>3. gone \in Transfer /\ gone.at = "closing" /\ Same(t, gone) /\ gone.result = "error"
    BY <2>2 DEF Transfer, Same
  <2> HIDE DEF gone
  <2>4. u.packet_ack = t.packet_ack /\ t.packet_ack \in Packet
    BY <1>1, <2>2 DEF Same, Transfer
  <2>5. d \in Connection /\ Sends(c, t.packet_ack, d) /\ d.down = c.down
    BY <1>1, <2>4, SendsOn
  <2>6. t.packet_ack.op = "NONE" => d = c
    BY <2>4 DEF ClientSends
  <2> HIDE DEF d, c, t
  <2>7. CASE Move(s, gone, c)
    <3>1. Rests(c, t, c, gone)
      BY <2>1, <2>3 DEF Rests
    <3> QED
      BY <1>1, <2>3, <2>7, <3>1 DEF GetterTurns, c, t
  <2>8. CASE Move(s, u, d)
    <3>1. Rests(c, t, d, u) \/ Repeats(c, t, d, u)
      BY <2>1, <2>2, <2>5, <2>6 DEF Rests, Repeats
    <3> QED
      BY <2>2, <2>5, <2>8, <3>1 DEF GetterTurns, c, t
  <2> QED
    BY <2>1, <2>7, <2>8
<1> QED
  BY <1>2, <1>3, <1>4, <1>5, <1>6

\* The connection of getFile opens, or is closed at its end.
LEMMA CloseTurns ==
    ASSUME TypeInv, NEW s \in Getters,
           connectToServer(s) \/ ConnectFails(s) \/ ErrorReceived(s) \/ Destructor(s)
    PROVE  \E u \in Transfer, d \in Connection :
              Move(s, u, d) /\ GetterTurns(s, conn[s], tx[s], d, u)
<1> DEFINE c == conn[s]
           t == tx[s]
<1>1. /\ s \in Sessions /\ t \in Transfer /\ c \in Connection
  BY ClientAssumption DEF TypeInv, TypeOK, ClientTypeOK, NetTypeOK
<1>2. CASE connectToServer(s)
  <2> DEFINE u == [t EXCEPT !.at = "connected"]
             d == [c EXCEPT !.cli = "open", !.srv = "backlog"]
  <2>1. t.at = "idle" /\ running /\ Move(s, u, d)
    BY <1>2 DEF connectToServer
  <2>2. u \in Transfer /\ u.at = "connected" /\ Same(t, u) /\ u.result = t.result
    BY <1>1 DEF Transfer, Same
  <2>3. /\ d \in Connection /\ d.cli = "open" /\ d.rst = c.rst /\ d.up = c.up
        /\ d.down = c.down
    BY <1>1 DEF Connection
  <2> HIDE DEF u, d
  <2> QED
    BY <2>1, <2>2, <2>3 DEF GetterTurns, Opens
<1>3. CASE ConnectFails(s)
  <2> DEFINE u == [t EXCEPT !.at = "done", !.result = "error"]
  <2>1. Move(s, u, c)
    BY <1>3 DEF ConnectFails, Move, netVars, TypeInv, TypeOK, NetTypeOK, ClientTypeOK
  <2>2. u \in Transfer /\ u.at = "done" /\ Same(t, u) /\ u.result = "error"
    BY <1>1 DEF Transfer, Same
  <2> HIDE DEF u
  <2>3. Rests(c, t, c, u)
    BY <2>2 DEF Rests
  <2> QED
    BY <1>1, <2>1, <2>2, <2>3 DEF GetterTurns
<1>4. CASE ErrorReceived(s) \/ Destructor(s)
  <2>1. PICK u \in {[t EXCEPT !.at = "closing", !.result = "error"], [t EXCEPT !.at = "done"]},
             h \in {c} \cup {Heard(s, r) : r \in Reads(c.down)} :
                Move(s, u, ClientCloses(h))
    BY <1>4 DEF ErrorReceived, Destructor
  <2>2. /\ u \in Transfer /\ u.at \in {"closing", "done"} /\ Same(t, u)
        /\ u.result = t.result \/ u.result = "error"
    <3>1. CASE u = [t EXCEPT !.at = "closing", !.result = "error"]
      BY <1>1, <3>1 DEF Transfer, Same
    <3>2. CASE u = [t EXCEPT !.at = "done"]
      BY <1>1, <3>2 DEF Transfer, Same
    <3> QED
      BY <2>1, <3>1, <3>2
  <2>3. /\ h \in Connection /\ h.up = c.up /\ h.rst = c.rst /\ h.cli = c.cli
        /\ h.down \in {c.down} \cup {r.rest : r \in Reads(c.down)}
    BY <1>1, <2>1, HeardKeeps
  <2> DEFINE d == ClientCloses(h)
             aborted == [h EXCEPT !.cli = "aborted", !.rst = "owed", !.down = <<>>]
             closed == [h EXCEPT !.cli = "closed", !.down = <<>>]
  <2>4. Cleared \in Packet
    BY PacketTypes
  <2>5. d \in Connection
    BY <2>3, <2>4, ConnectionTypes
  <2>6. /\ aborted.up = h.up /\ aborted.cli = "aborted" /\ aborted.down = <<>>
        /\ closed.up = h.up /\ closed.cli = "closed" /\ closed.down = <<>>
    BY <2>3 DEF Connection
  <2>7. (d = h /\ h.cli # "open") \/ d = aborted \/ d = closed
    BY DEF ClientCloses
  <2> HIDE DEF aborted, closed, d
  <2>8. /\ d.up = c.up /\ d.cli # "open"
        /\ d.down \in {c.down, <<>>} \cup {r.rest : r \in Reads(c.down)}
    BY <2>3, <2>6, <2>7
  <2> HIDE DEF c, t
  <2>9. Rests(c, t, d, u)
    BY <2>2, <2>8 DEF Rests
  <2> QED
    BY <2>1, <2>2, <2>5, <2>9 DEF GetterTurns, d, c, t
<1> QED
  BY <1>2, <1>3, <1>4

\* Every step of a session of Getters.
LEMMA EveryGetterTurns ==
    ASSUME TypeInv, NEW s \in Getters, ClientStep(s) \/ TimesOut(s)
    PROVE  \E u \in Transfer, d \in Connection :
              Move(s, u, d) /\ GetterTurns(s, conn[s], tx[s], d, u)
<1>1. s \notin Putters /\ s \notin Unreadable
  BY ClientAssumption
<1> QED
  BY <1>1, TakeTurns, WaitTurns, CloseTurns
     DEF GetterTurns, ClientStep, TimesOut, SendWRQ, SourceUnreadable, PutAnswered, PutConnectionLost,
         PutTimesOut, PutWaits
-----------------------------------------------------------------------------
(***************************************************************************)
(* The inductive invariant.  getFile acknowledges only what it has taken,  *)
(* so everything it has sent, and sends again, is older than the block it  *)
(* expects: a slot that moves on because of it cannot overtake it.  With a *)
(* recv that returns whole packets, what is in flight to the client are    *)
(* blocks of the file, each under its number, and the file written so far  *)
(* is what precedes the block that is expected.  f is the file the server  *)
(* has under the name, there says whether it has one.                      *)
(***************************************************************************)
Whole(s) == NameOf[s] \in InitStored

\* data is block j of f as far as f went when it was read; a short block of a
\* file that does not change is its end.
Chunk(f, whole, j, data) ==
    LET low == (j - 1) * DataCells
        high == low + Len(data)
    IN  /\ Len(data) <= DataCells /\ high <= Len(f)
        /\ data = SubSeq(f, low + 1, high)
        /\ whole /\ Len(data) < DataCells => high = Len(f)

DataOf(s, f, j, p) ==
    /\ j \in 1 .. WordMod
    /\ p.op = "DATA" /\ p.num = Word(j)
    /\ Chunk(f, Whole(s), j, p.data)

\* What getFile sends while it expects the block last.
AskedBy(s, p, last) ==
    \/ p.op = "RRQ" /\ p.name = NameOf[s]
    \/ p.op = "ACK" /\ p.num < last /\ p.num < WordMod

GetterPipe(s, c, t) ==
    /\ t.at = "idle" => c.rst = "no"
    /\ t.at \in {"connected", "waiting"} => c.cli = "open"
    /\ c.rst # "no" => c.cli # "open"
    /\ t.at \in {"idle", "connected"} => t.last_packet_no = 0
    /\ t.at \in {"idle", "connected", "waiting"} => t.result # "ok"
    /\ t.at = "waiting" \/ c.up # <<>> => t.last_packet_no >= 1
    /\ \A k \in 1 .. Len(c.up) :
          c.up[k].data = <<>> /\ AskedBy(s, c.up[k], t.last_packet_no)
    /\ t.packet_ack.op # "NONE" =>
          t.packet_ack.data = <<>> /\ AskedBy(s, t.packet_ack, t.last_packet_no)

\* A packet on its way to the client.
Hearable(s, p, f, there) ==
    isError(p) \/ (there /\ \E j \in 1 .. WordMod : DataOf(s, f, j, p))

GetterHears(s, c, t, f, there) ==
    /\ \A k \in 1 .. Len(c.down) : Hearable(s, c.down[k], f, there)
    /\ t.at \in {"idle", "connected"} => t.file = <<>>
    /\ t.at = "waiting" =>
          LET low == (t.last_packet_no - 1) * DataCells
          IN  low <= Len(f) /\ t.file = SubSeq(f, 1, low)
    /\ IsPrefix(t.file, f)
    /\ there \/ t.file = <<>>
    /\ t.result = "ok" /\ Whole(s) => t.file = f

GetterSide(s, c, t, f, there) ==
    GetterPipe(s, c, t) /\ (~Segmented => GetterHears(s, c, t, f, there))

\* A slot that serves nobody, or nobody's request yet, starts at the beginning.
Fresh(cl) ==
    ~cl.connected \/ cl.request = "UNDEFINED" =>
        cl.block = 0 /\ cl.pos = 0 /\ ~cl.disconnect_on_ack

SlotReads(s, cl, c, t) ==
    /\ cl.request # "WRITE"
    /\ cl.request = "READ" => cl.name = NameOf[s]
    /\ cl.request = "READ" /\ c.cli = "open" =>
          /\ cl.block <= t.last_packet_no
          /\ cl.acknowledged = "OK" => cl.block + 1 <= t.last_packet_no

SlotSends(s, cl, c, f, there) ==
    cl.request = "READ" /\ c.cli = "open" =>
        /\ there
        /\ DataOf(s, f, cl.block, cl.last_sent_packet)
        /\ cl.acknowledged = "OK" => cl.block < WordMod /\ ~cl.disconnect_on_ack
        /\ ~cl.disconnect_on_ack => cl.pos = cl.block * DataCells /\ cl.pos <= Len(f)

SlotSide(s, cl, c, t, f, there) ==
    cl.connected =>
        SlotReads(s, cl, c, t) /\ (~Segmented => SlotSends(s, cl, c, f, there))

FetchInv ==
    /\ \A s \in Getters :
          GetterSide(s, conn[s], tx[s], content[NameOf[s]], NameOf[s] \in stored)
    /\ \A i \in Slots :
          /\ Fresh(clients[i])
          /\ LET s == clients[i].client_socket
             IN  clients[i].connected /\ s \in Getters =>
                    SlotSide(s, clients[i], conn[s], tx[s],
                             content[NameOf[s]], NameOf[s] \in stored)
-----------------------------------------------------------------------------
(* The pipe of one session that fetches. *)

\* However recv cuts the stream, a packet of getFile without payload arrives
\* with its opcode and number, and what is left are packets of getFile.
LEMMA ReadsOfGetter ==
    ASSUME NEW q \in Seq(Packet), NEW r \in Reads(q),
           \A k \in 1 .. Len(q) : q[k].data = <<>>
    PROVE  /\ r.pkt.op = q[1].op /\ r.pkt.num = q[1].num /\ r.pkt.name = q[1].name
           /\ \A k \in 1 .. Len(r.rest) : \E n \in 1 .. Len(q) : r.rest[k] = q[n]
<1>1. /\ q # <<>> /\ Len(q) \in Nat \ {0} /\ Head(q) = q[1] /\ q[1] \in Packet
      /\ q[1].data = <<>>
      /\ Len(Tail(q)) = Len(q) - 1 /\ Tail(q) \in Seq(Packet)
      /\ \A k \in 1 .. Len(q) - 1 : Tail(q)[k] = q[k + 1]
  <2>1. q # <<>>
    BY ReadsType
  <2> QED
    BY <2>1
<1>2. CASE r = WholeRead(q)
  BY <1>1, <1>2 DEF WholeRead
<1>3. CASE r \in ShortReads(q)
  <2>1. Len(Head(q).data) - 1 = -1
    BY <1>1
  <2> QED
    BY <1>3, <2>1 DEF ShortReads
<1>4. CASE r \in JoinedReads(q)
  <2>1. Len(q) > 1 /\ q[2].data = <<>> /\ Len(q[2].data) = 0
    BY <1>1, <1>4 DEF JoinedReads
  <2>2. r = JoinedRead(q, 0)
    BY <1>4, <2>1 DEF JoinedReads
  <2> DEFINE left == SubSeq(q[2].data, 0 + 1, Len(q[2].data))
             first == [Head(q) EXCEPT !.data = @ \o <<HeaderCell>> \o SubSeq(q[2].data, 1, 0)]
  <2>3. left = <<>>
    BY <2>1
  <2>4. first.op = q[1].op /\ first.num = q[1].num /\ first.name = q[1].name
    BY <1>1 DEF Packet
  <2>5. r.pkt = first /\ r.rest = (IF left = <<>> THEN <<>> ELSE <<Raw(left)>>) \o Tail(Tail(q))
    BY <2>2 DEF JoinedRead
  <2> HIDE DEF left, first
  <2>6. /\ Tail(Tail(q)) \in Seq(Packet) /\ Len(Tail(Tail(q))) = Len(q) - 2
        /\ \A k \in 1 .. Len(q) - 2 : Tail(Tail(q))[k] = q[k + 2]
    <3>1. \A x \in Seq(Packet) : Len(x) >= 1 =>
             /\ Tail(x) \in Seq(Packet) /\ Len(Tail(x)) = Len(x) - 1
             /\ \A k \in 1 .. Len(x) - 1 : Tail(x)[k] = x[k + 1]
      OBVIOUS
    <3> DEFINE tail == Tail(q)
    <3>2. tail \in Seq(Packet) /\ Len(tail) = Len(q) - 1 /\ Len(tail) >= 1
      BY <1>1, <2>1
    <3>3. \A k \in 1 .. Len(q) - 2 : tail[k + 1] = q[k + 2]
      <4>1. \A k \in 1 .. Len(q) - 2 : k + 1 \in 1 .. Len(q) - 1 /\ (k + 1) + 1 = k + 2
        BY <1>1
      <4> QED
        BY <1>1, <4>1
    <3> HIDE DEF tail
    <3>4. /\ Tail(tail) \in Seq(Packet) /\ Len(Tail(tail)) = (Len(q) - 1) - 1
          /\ \A k \in 1 .. (Len(q) - 1) - 1 : Tail(tail)[k] = tail[k + 1]
      BY <3>1, <3>2
    <3>5. (Len(q) - 1) - 1 = Len(q) - 2
      BY <1>1
    <3> QED
      BY <3>3, <3>4, <3>5 DEF tail
  <2>7. \A x \in Seq(Packet) : <<>> \o x = x
    OBVIOUS
  <2>8. r.rest = Tail(Tail(q))
    BY <2>3, <2>5, <2>6, <2>7
  <2>9. \A k \in 1 .. Len(r.rest) : k + 2 \in 1 .. Len(q) /\ r.rest[k] = q[k + 2]
    BY <1>1, <2>6, <2>8
  <2> QED
    BY <2>4, <2>5, <2>9
<1> QED
  BY <1>1, <1>2, <1>3, <1>4 DEF Reads

\* What is expected grows: what was older stays so.
LEMMA AskedLater ==
    ASSUME NEW s, NEW p \in Packet, NEW last \in Nat, NEW later \in Nat, last <= later,
           AskedBy(s, p, last)
    PROVE  AskedBy(s, p, later)
BY DEF AskedBy, Packet

\* The server's side of a connection takes packets, loses them, adds answers.
LEMMA ServedKeeps ==
    ASSUME NEW s \in Getters, NEW c \in Connection, NEW d \in Connection, NEW t \in Transfer,
           NEW f, NEW there, GetterSide(s, c, t, f, there), t.at # "idle",
           d.cli = c.cli, d.rst # "no" => c.rst # "no" \/ c.cli # "open",
           \A k \in 1 .. Len(d.up) : \E n \in 1 .. Len(c.up) : d.up[k] = c.up[n],
           NEW p \in Packet, ~Segmented => Hearable(s, p, f, there),
           d.down = c.down \/ d.down = Append(c.down, p)
    PROVE  GetterSide(s, d, t, f, there)
<1>1. /\ c.up \in Seq(Packet) /\ d.up \in Seq(Packet)
      /\ c.down \in Seq(Packet) /\ t.last_packet_no \in Nat
  BY DEF Connection, Transfer
<1>2. GetterPipe(s, c, t)
  BY DEF GetterSide
<1>3. d.up # <<>> => c.up # <<>>
  <2>1. ASSUME d.up # <<>> PROVE 1 \in 1 .. Len(d.up)
    BY <1>1, <2>1
  <2> QED
    BY <2>1
<1>4. GetterPipe(s, d, t)
  BY <1>2, <1>3 DEF GetterPipe
<1>5. ASSUME ~Segmented PROVE GetterHears(s, d, t, f, there)
  <2>1. GetterHears(s, c, t, f, there) /\ Hearable(s, p, f, there)
    BY <1>5 DEF GetterSide
  <2>2. \A k \in 1 .. Len(d.down) : Hearable(s, d.down[k], f, there)
    <3>1. CASE d.down = c.down
      BY <2>1, <3>1 DEF GetterHears
    <3>2. CASE d.down = Append(c.down, p)
      <4>1. \A k \in 1 .. Len(d.down) : d.down[k] = p \/ (k \in 1 .. Len(c.down) /\ d.down[k] = c.down[k])
        BY <1>1, <3>2
      <4> QED
        BY <2>1, <4>1 DEF GetterHears
    <3> QED
      BY <3>1, <3>2
  <2> QED
    BY <2>1, <2>2 DEF GetterHears
<1> QED
  BY <1>4, <1>5 DEF GetterSide

\* What a send on the server's socket makes of the connection.
LEMMA ServerSendsOn ==
    ASSUME NEW c \in Connection, NEW p \in Packet, NEW o \in ServerSends(c, p)
    PROVE  /\ o.conn \in Connection /\ o.conn.cli = c.cli
           /\ o.conn.up = c.up \/ o.conn.up = <<>>
           /\ o.conn.down = c.down \/ o.conn.down = Append(c.down, p)
           /\ c.cli # "open" => o.conn.down = c.down
           /\ o.conn.rst # "no" => c.rst # "no" \/ c.cli # "open"
           /\ c.rst = "no" /\ c.cli = "open" => o.ok
<1>1. o.conn \in Connection /\ c.rst \in {"no", "owed", "arrived"}
  BY ServerSendsType DEF Connection
<1>2. CASE c.rst = "arrived"
  <2>1. o = [ok |-> FALSE, conn |-> c]
    BY <1>2 DEF ServerSends
  <2> QED
    BY <1>1, <1>2, <2>1
<1>3. CASE c.rst = "owed"
  <2>1. o = [ok |-> TRUE, conn |-> c] \/ o = [ok |-> FALSE, conn |-> Reset(c)]
    BY <1>3 DEF ServerSends
  <2>2. Reset(c).cli = c.cli /\ Reset(c).up = <<>> /\ Reset(c).down = c.down
    BY DEF Reset, Connection
  <2>3. o.conn = c \/ o.conn = Reset(c)
    BY <2>1
  <2> QED
    BY <1>1, <1>3, <2>2, <2>3
<1>4. CASE c.rst = "no" /\ c.cli = "open"
  <2> DEFINE sent == [c EXCEPT !.down = Append(@, p)]
  <2>1. o = [ok |-> TRUE, conn |-> sent]
    BY <1>4 DEF ServerSends
  <2>2. /\ sent.cli = c.cli /\ sent.up = c.up /\ sent.rst = c.rst
        /\ sent.down = Append(c.down, p)
    BY DEF Connection
  <2> HIDE DEF sent
  <2>3. o.conn = sent /\ o.ok = TRUE
    BY <2>1
  <2> QED
    BY <1>1, <1>4, <2>2, <2>3
<1>5. CASE c.rst = "no" /\ c.cli # "open"
  <2> DEFINE owed == [c EXCEPT !.rst = "owed"]
  <2>1. o = [ok |-> TRUE, conn |-> owed]
    BY <1>5 DEF ServerSends
  <2>2. owed.cli = c.cli /\ owed.up = c.up /\ owed.down = c.down
    BY DEF Connection
  <2> HIDE DEF owed
  <2>3. o.conn = owed
    BY <2>1
  <2> QED
    BY <1>1, <1>5, <2>2, <2>3
<1> QED
  BY <1>1, <1>2, <1>3, <1>4, <1>5

\* What closesocket on the server's socket makes of it.
LEMMA ServerClosesOn ==
    ASSUME NEW c \in Connection
    PROVE  LET d == ServerCloses(c)
           IN  /\ d \in Connection /\ d.cli = c.cli /\ d.rst = c.rst
               /\ d.up = <<>> /\ d.down = c.down
<1>1. ServerCloses(c) \in Connection
  BY ConnectionTypes, PacketTypes
<1> QED
  BY <1>1 DEF ServerCloses, Connection
-----------------------------------------------------------------------------
(* What a step of the server does to a slot and the session it serves. *)

Right(s, c) == GetterSide(s, c, tx[s], content[NameOf[s]], NameOf[s] \in stored)
RightSlot(s, cl, c) == SlotSide(s, cl, c, tx[s], content[NameOf[s]], NameOf[s] \in stored)

FetchTurned ==
    /\ Me.connected
    /\ \E cl \in ServerClient, c \in Connection :
          /\ Store(cl, c) /\ cl.client_socket = Me.client_socket
          /\ Fresh(cl)
          /\ Me.client_socket \in Getters =>
                Right(Me.client_socket, c) /\ RightSlot(Me.client_socket, cl, c)

\* The invariant, for the slot the thread is at.
LEMMA MyFetch ==
    ASSUME SlotsInv, FetchInv, running, Me.connected
    PROVE  LET s == Me.client_socket
           IN  /\ Me \in ServerClient /\ s \in Sessions /\ Line \in Connection
               /\ tx[s] \in Transfer /\ tx[s].at # "idle"
               /\ NameOf[s] \in Names /\ content[NameOf[s]] \in Payload
               /\ Me.request # "UNDEFINED" => Me.name \in Names
               /\ Fresh(Me)
               /\ s \in Getters => Right(s, Line) /\ RightSlot(s, Me, Line)
<1>1. TypeInv /\ slot \in Slots /\ SlotOK(Me) /\ Me = clients[slot]
  BY MeType DEF SlotsInv, Me
<1>2. /\ Me \in ServerClient /\ Me.client_socket \in Sessions /\ Line \in Connection
      /\ Me.request # "UNDEFINED" => Me.name \in Names
  BY <1>1, MeType DEF SlotOK
<1>3. Line.srv = "open" /\ Line = conn[Me.client_socket]
  BY <1>1 DEF SlotsInv, SlotsServeConnections, SlotOwnsConnection, Line
<1>4. tx[Me.client_socket] \in Transfer /\ tx[Me.client_socket].at # "idle"
  BY <1>1, <1>2, <1>3 DEF TypeInv, TypeOK, ClientTypeOK, SlotsInv, Unopened
<1>5. /\ NameOf[Me.client_socket] \in Names
      /\ content[NameOf[Me.client_socket]] \in Payload
  BY <1>1, <1>2, ClientAssumption DEF TypeInv, TypeOK, ServerTypeOK
<1>6. /\ Fresh(Me)
      /\ Me.client_socket \in Getters =>
            Right(Me.client_socket, Line) /\ RightSlot(Me.client_socket, Me, Line)
  BY <1>1, <1>3 DEF FetchInv, Right, RightSlot
<1> QED
  BY <1>2, <1>4, <1>5, <1>6

\* The packet a slot takes, and its session after that.
LEMMA MyFetched ==
    ASSUME SlotsInv, FetchInv, running, NEW r \in receivePacket
    PROVE  LET s == Me.client_socket
           IN  /\ Me.connected
               /\ r.pkt \in Packet /\ After(r) \in Connection /\ After(r).cli = Line.cli
               /\ s \in Getters =>
                     /\ AskedBy(s, r.pkt, tx[s].last_packet_no)
                     /\ tx[s].last_packet_no >= 1
                     /\ Right(s, After(r)) /\ RightSlot(s, Me, After(r))
<1> DEFINE s == Me.client_socket
           t == tx[s]
           q == Line.up
<1>1. Me.connected /\ r \in Reads(q)
  BY DEF receivePacket, Receiving
<1>2. /\ Me \in ServerClient /\ s \in Sessions /\ Line \in Connection
      /\ t \in Transfer /\ t.at # "idle"
      /\ s \in Getters => Right(s, Line) /\ RightSlot(s, Me, Line)
  BY <1>1, MyFetch
<1>3. q \in Seq(Packet)
  BY <1>2 DEF Connection
<1>4. r.pkt \in Packet /\ r.rest \in Seq(Packet) /\ q # <<>>
  BY <1>1, <1>3, ReadsType
<1> DEFINE d == [Line EXCEPT !.up = r.rest]
<1>5. After(r) = d
  BY DEF After
<1>6. /\ d \in Connection /\ d.cli = Line.cli /\ d.rst = Line.rst
      /\ d.down = Line.down /\ d.up = r.rest
  BY <1>2, <1>4 DEF Connection
<1> HIDE DEF d
<1>7. ASSUME s \in Getters
      PROVE  /\ AskedBy(s, r.pkt, t.last_packet_no) /\ t.last_packet_no >= 1
             /\ Right(s, d) /\ RightSlot(s, Me, d)
  <2>1. GetterPipe(s, Line, t)
    BY <1>2, <1>7 DEF Right, GetterSide
  <2>2. \A k \in 1 .. Len(q) : q[k].data = <<>> /\ AskedBy(s, q[k], t.last_packet_no)
    BY <2>1 DEF GetterPipe
  <2>3. /\ r.pkt.op = q[1].op /\ r.pkt.num = q[1].num /\ r.pkt.name = q[1].name
        /\ \A k \in 1 .. Len(r.rest) : \E n \in 1 .. Len(q) : r.rest[k] = q[n]
    BY <1>1, <1>3, <2>2, ReadsOfGetter
  <2>4. 1 \in 1 .. Len(q)
    BY <1>3, <1>4
  <2>5. AskedBy(s, r.pkt, t.last_packet_no)
    BY <2>2, <2>3, <2>4 DEF AskedBy
  <2>6. t.last_packet_no >= 1
    BY <1>4, <2>1 DEF GetterPipe
  <2>7. createError(4) \in Packet /\ isError(createError(4))
    BY PacketTypes DEF createError, isError, Cleared
  <2>8. Right(s, d)
    BY <1>2, <1>6, <1>7, <2>3, <2>7, ServedKeeps DEF Right, Hearable
  <2>9. RightSlot(s, Me, d)
    BY <1>2, <1>6, <1>7 DEF RightSlot, SlotSide, SlotReads, SlotSends
  <2> QED
    BY <2>5, <2>6, <2>8, <2>9
<1> QED
  BY <1>1, <1>4, <1>5, <1>6, <1>7

\* The slot and its session are right before an answer that may be heard.
LEMMA AnswerFetched ==
    ASSUME Me.connected, Me.client_socket \in Sessions,
           tx[Me.client_socket] \in Transfer, tx[Me.client_socket].at # "idle",
           NEW cl \in ServerClient, cl.client_socket = Me.client_socket, Fresh(cl),
           NEW c \in Connection,
           Me.client_socket \in Getters =>
               /\ Right(Me.client_socket, c) /\ RightSlot(Me.client_socket, cl, c),
           NEW p \in Packet,
           Me.client_socket \in Getters /\ ~Segmented /\ c.cli = "open" =>
               Hearable(Me.client_socket, p, content[NameOf[Me.client_socket]],
                        NameOf[Me.client_socket] \in stored),
           NEW o \in ServerSends(c, p)
    PROVE  /\ o.conn \in Connection /\ o.conn.cli = c.cli
           /\ Me.client_socket \in Getters => Right(Me.client_socket, o.conn)
           /\ Store(cl, o.conn) => FetchTurned
<1> DEFINE s == Me.client_socket
           d == o.conn
<1>1. /\ d \in Connection /\ d.cli = c.cli
      /\ d.up = c.up \/ d.up = <<>>
      /\ d.down = c.down \/ d.down = Append(c.down, p)
      /\ c.cli # "open" => d.down = c.down
      /\ d.rst # "no" => c.rst # "no" \/ c.cli # "open"
  BY ServerSendsOn
<1>2. \A k \in 1 .. Len(d.up) : \E n \in 1 .. Len(c.up) : d.up[k] = c.up[n]
  BY <1>1
<1> HIDE DEF d
<1>3. ASSUME s \in Getters PROVE Right(s, d) /\ RightSlot(s, cl, d)
  <2>1. Right(s, d)
    <3>1. CASE c.cli = "open"
      BY <1>1, <1>2, <1>3, <3>1, ServedKeeps DEF Right
    <3>2. CASE c.cli # "open"
      <4>1. createError(4) \in Packet /\ isError(createError(4))
        BY PacketTypes DEF createError, isError, Cleared
      <4> QED
        BY <1>1, <1>2, <1>3, <3>2, <4>1, ServedKeeps DEF Right, Hearable
    <3> QED
      BY <3>1, <3>2
  <2>2. RightSlot(s, cl, d)
    BY <1>1, <1>3 DEF RightSlot, SlotSide, SlotReads, SlotSends
  <2> QED
    BY <2>1, <2>2
<1> QED
  BY <1>1, <1>3 DEF FetchTurned, d

\* disconnectClient leaves nothing in the slot.
LEMMA DisconnectFetched ==
    ASSUME Me.connected, Me.client_socket \in Sessions,
           tx[Me.client_socket] \in Transfer, tx[Me.client_socket].at # "idle",
           NEW cl \in ServerClient, cl.client_socket = Me.client_socket,
           NEW c \in Connection,
           Me.client_socket \in Getters => Right(Me.client_socket, c),
           disconnectClient(cl, c)
    PROVE  FetchTurned
<1> DEFINE new == Disconnected(cl)
           s == Me.client_socket
           d == ServerCloses(c)
<1>1. /\ new \in ServerClient /\ ~new.connected /\ new.block = 0
      /\ new.pos = 0 /\ new.disconnect_on_ack = FALSE
      /\ new.client_socket = Me.client_socket
  <2>1. \A ptr \in Pointer : Deleted(ptr) \in Pointer
    BY DEF Deleted, Pointer
  <2> DEFINE rel == Released(cl)
  <2>2. /\ rel \in ServerClient /\ ~rel.connected
        /\ rel.pos = 0 /\ rel.disconnect_on_ack = FALSE
        /\ rel.client_socket = Me.client_socket
    BY <2>1, PacketTypes DEF ServerClient, Released
  <2> HIDE DEF rel
  <2>3. /\ [rel EXCEPT !.block = 0] \in ServerClient
        /\ ~[rel EXCEPT !.block = 0].connected
        /\ [rel EXCEPT !.block = 0].block = 0
        /\ [rel EXCEPT !.block = 0].pos = 0
        /\ [rel EXCEPT !.block = 0].disconnect_on_ack = FALSE
        /\ [rel EXCEPT !.block = 0].client_socket = Me.client_socket
    BY <2>2 DEF ServerClient
  <2> QED
    BY <2>3 DEF Disconnected, rel
<1>2. Store(new, d)
  BY DEF disconnectClient
<1>3. d \in Connection /\ d.cli = c.cli /\ d.rst = c.rst /\ d.up = <<>> /\ d.down = c.down
  BY ServerClosesOn
<1> HIDE DEF new, d
<1>4. s \in Getters => Right(s, d)
  <2>1. createError(4) \in Packet /\ isError(createError(4))
    BY PacketTypes DEF createError, isError, Cleared
  <2>2. \A k \in 1 .. Len(d.up) : \E n \in 1 .. Len(c.up) : d.up[k] = c.up[n]
    BY <1>3
  <2> QED
    BY <1>3, <2>1, <2>2, ServedKeeps DEF Right, Hearable
<1>5. s \in Getters => RightSlot(s, new, d)
  BY <1>1 DEF RightSlot, SlotSide
<1>6. Fresh(new)
  BY <1>1 DEF Fresh
<1> QED
  BY <1>1, <1>2, <1>3, <1>4, <1>5, <1>6 DEF FetchTurned

\* errorReceived on the server: an error is sent, the slot is given up.
LEMMA RefuseFetched ==
    ASSUME Me.connected, Me.client_socket \in Sessions,
           tx[Me.client_socket] \in Transfer, tx[Me.client_socket].at # "idle",
           NEW cl \in ServerClient, cl.client_socket = Me.client_socket,
           NEW c \in Connection,
           Me.client_socket \in Getters => Right(Me.client_socket, c),
           NEW code \in Nat, Refuse(cl, c, code)
    PROVE  FetchTurned
<1> DEFINE s == Me.client_socket
<1>1. PICK o \in ServerSends(c, createError(code)) : disconnectClient(cl, o.conn)
  BY DEF Refuse
<1>2. createError(code) \in Packet /\ isError(createError(code))
  BY PacketTypes DEF createError, isError, Cleared
<1> DEFINE d == o.conn
<1>3. /\ d \in Connection /\ d.cli = c.cli
      /\ d.up = c.up \/ d.up = <<>>
      /\ d.down = c.down \/ d.down = Append(c.down, createError(code))
      /\ d.rst # "no" => c.rst # "no" \/ c.cli # "open"
  BY <1>2, ServerSendsOn
<1>4. \A k \in 1 .. Len(d.up) : \E n \in 1 .. Len(c.up) : d.up[k] = c.up[n]
  BY <1>3
<1> HIDE DEF d
<1>5. s \in Getters => Right(s, d)
  BY <1>2, <1>3, <1>4, ServedKeeps DEF Right, Hearable
<1>6. disconnectClient(cl, d)
  BY <1>1 DEF d
<1> QED
  BY <1>3, <1>5, <1>6, DisconnectFetched

\* The next block of a file, read where the last one ended.
LEMMA NextBlockOf ==
    ASSUME NEW s, NEW cl \in ServerClient, content \in [Names -> Payload],
           cl.name \in Names, cl.name = NameOf[s],
           cl.block < WordMod, ~cl.disconnect_on_ack,
           cl.pos = cl.block * DataCells, cl.pos <= Len(content[cl.name])
    PROVE  LET f == content[cl.name]
               nb == NextBlock(cl)
           IN  /\ nb.block = cl.block + 1
               /\ DataOf(s, f, nb.block, nb.last_sent_packet)
               /\ ~nb.disconnect_on_ack => nb.pos = nb.block * DataCells /\ nb.pos <= Len(f)
<1> DEFINE f == content[cl.name]
           n == IF cl.disconnect_on_ack THEN 0
                ELSE IF Len(f) - cl.pos < DataCells THEN Len(f) - cl.pos
                ELSE DataCells
           data == SubSeq(f, cl.pos + 1, cl.pos + n)
           nb == NextBlock(cl)
<1>1. /\ f \in Seq(Cell \cup {HeaderCell}) /\ Len(f) \in Nat
      /\ cl.pos \in Nat /\ cl.block \in Nat /\ DataCells \in Nat \ {0}
      /\ WordMod \in Nat
  BY PacketAssumption DEF ServerClient, Payload
<1>2. /\ n \in 0 .. DataCells /\ cl.pos + n <= Len(f)
      /\ n < DataCells => cl.pos + n = Len(f)
  <2> DEFINE pos == cl.pos
             size == Len(f)
  <2>1. pos \in Nat /\ size \in Nat /\ DataCells \in Nat /\ pos <= size
    BY <1>1
  <2>2. n = IF size - pos < DataCells THEN size - pos ELSE DataCells
    OBVIOUS
  <2> HIDE DEF n, pos, size
  <2>3. /\ n \in 0 .. DataCells /\ pos + n <= size
        /\ n < DataCells => pos + n = size
    BY <2>1, <2>2
  <2> QED
    BY <2>3 DEF pos, size
<1>3. data \in Payload /\ Len(data) = n
  <2> HIDE DEF n, f
  <2>1. \A a, b \in Nat, g \in Seq(Cell \cup {HeaderCell}) : a + b <= Len(g) =>
           /\ SubSeq(g, a + 1, a + b) \in Seq(Cell \cup {HeaderCell})
           /\ Len(SubSeq(g, a + 1, a + b)) = b
    OBVIOUS
  <2>2. n \in Nat
    BY <1>1, <1>2
  <2> QED
    BY <1>1, <1>2, <2>1, <2>2 DEF Payload
<1>4. /\ nb.block = cl.block + 1 /\ nb.pos = cl.pos + n
      /\ nb.disconnect_on_ack = (cl.disconnect_on_ack \/ n < DataCells)
      /\ nb.last_sent_packet = createData(cl.block + 1, data)
  <2> DEFINE over == cl.disconnect_on_ack \/ n < DataCells
  <2>1. over \in BOOLEAN
    OBVIOUS
  <2>2. createData(cl.block + 1, data) \in Packet
    BY <1>1, <1>3, PacketTypes
  <2> HIDE DEF over, n, data
  <2>3. nb = [cl EXCEPT !.block = cl.block + 1, !.pos = cl.pos + n,
                        !.disconnect_on_ack = over,
                        !.last_sent_packet = createData(cl.block + 1, data)]
    BY DEF NextBlock, n, data, over
  <2> QED
    BY <2>3 DEF ServerClient, over
<1> HIDE DEF n, nb
<1>5. (cl.block + 1) - 1 = cl.block /\ cl.block + 1 \in 1 .. WordMod
  <2>1. \A a, b \in Nat : a < b => (a + 1) - 1 = a /\ a + 1 \in 1 .. b
    OBVIOUS
  <2> QED
    BY <1>1, <2>1
<1>6. Chunk(f, Whole(s), cl.block + 1, data)
  <2>1. ((cl.block + 1) - 1) * DataCells = cl.pos
    BY <1>5
  <2> HIDE DEF data
  <2>2. Len(data) <= DataCells /\ cl.pos + Len(data) <= Len(f)
    BY <1>1, <1>2, <1>3
  <2>3. Len(data) < DataCells => cl.pos + Len(data) = Len(f)
    BY <1>1, <1>2, <1>3
  <2>4. data = SubSeq(f, cl.pos + 1, cl.pos + Len(data))
    BY <1>3 DEF data
  <2> QED
    BY <2>1, <2>2, <2>3, <2>4 DEF Chunk
<1>7. DataOf(s, f, nb.block, nb.last_sent_packet)
  <2> HIDE DEF data
  <2>1. LET p == createData(cl.block + 1, data)
        IN  p.op = "DATA" /\ p.num = Word(cl.block + 1) /\ p.data = data
    BY DEF createData, Cleared
  <2> QED
    BY <1>4, <1>5, <1>6, <2>1 DEF DataOf
<1>8. ASSUME ~nb.disconnect_on_ack PROVE nb.pos = nb.block * DataCells /\ nb.pos <= Len(f)
  <2>1. n = DataCells
    <3>1. ~(n < DataCells)
      BY <1>4, <1>8
    <3> QED
      BY <1>1, <1>2, <3>1
  <2>2. \A a, b \in Nat : (a + 1) * b = a * b + b
    OBVIOUS
  <2> QED
    BY <1>1, <1>2, <1>4, <2>1, <2>2
<1> QED
  BY <1>4, <1>7, <1>8 DEF nb

\* sendPacketData, when the block before it has been acknowledged.
LEMMA SendDataFetched ==
    ASSUME TypeInv, Me.connected, Me.client_socket \in Sessions,
           tx[Me.client_socket] \in Transfer, tx[Me.client_socket].at # "idle",
           NEW cl \in ServerClient, cl.client_socket = Me.client_socket,
           cl.connected, cl.request = "READ", cl.name \in Names,
           NEW c \in Connection,
           Me.client_socket \in Getters =>
               /\ cl.name = NameOf[Me.client_socket]
               /\ Right(Me.client_socket, c)
               /\ c.cli = "open" =>
                     /\ cl.block + 1 <= tx[Me.client_socket].last_packet_no
                     /\ ~Segmented =>
                           /\ cl.name \in stored /\ cl.block < WordMod
                           /\ ~cl.disconnect_on_ack
                           /\ cl.pos = cl.block * DataCells
                           /\ cl.pos <= Len(content[cl.name]),
           sendPacketData(cl, c)
    PROVE  FetchTurned
<1> DEFINE s == Me.client_socket
           nb == NextBlock(cl)
           f == content[cl.name]
<1>1. content \in [Names -> Payload]
  BY DEF TypeInv, TypeOK, ServerTypeOK
<1>2. /\ nb \in ServerClient /\ nb.last_sent_packet \in Packet
      /\ nb.connected = cl.connected /\ nb.client_socket = s
      /\ nb.request = "READ" /\ nb.name = cl.name
  BY <1>1, NextBlockType
<1>3. PICK o \in ServerSends(c, nb.last_sent_packet) :
          Store([nb EXCEPT !.acknowledged = IF o.ok THEN "WAITING" ELSE @], o.conn)
  BY DEF sendPacketData
<1>4. nb.block = cl.block + 1
  BY DEF NextBlock, ServerClient
<1>5. ASSUME s \in Getters, ~Segmented, c.cli = "open"
      PROVE  /\ DataOf(s, f, nb.block, nb.last_sent_packet)
             /\ ~nb.disconnect_on_ack => nb.pos = nb.block * DataCells /\ nb.pos <= Len(f)
  BY <1>1, <1>5, NextBlockOf
<1> DEFINE new == [nb EXCEPT !.acknowledged = IF o.ok THEN "WAITING" ELSE @]
<1> HIDE DEF nb
<1>6. /\ new \in ServerClient /\ new.connected /\ new.client_socket = s
      /\ new.request = "READ" /\ new.name = cl.name /\ new.block = nb.block
      /\ new.last_sent_packet = nb.last_sent_packet /\ new.pos = nb.pos
      /\ new.disconnect_on_ack = nb.disconnect_on_ack
      /\ o.ok => new.acknowledged = "WAITING"
  BY <1>2 DEF ServerClient
<1>7. Store(new, o.conn)
  BY <1>3
<1> HIDE DEF new
<1>8. Fresh(new)
  BY <1>6 DEF Fresh
<1>9. ASSUME s \in Getters, c.cli = "open" PROVE new.acknowledged = "WAITING"
  <2>1. c.rst = "no"
    BY <1>9 DEF Right, GetterSide, GetterPipe
  <2> QED
    BY <1>2, <1>6, <1>9, <2>1, ServerSendsOn
<1>10. ASSUME s \in Getters PROVE RightSlot(s, new, c)
  <2>1. SlotReads(s, new, c, tx[s])
    BY <1>4, <1>6, <1>9, <1>10 DEF SlotReads
  <2>2. ASSUME ~Segmented PROVE SlotSends(s, new, c, f, cl.name \in stored)
    BY <1>5, <1>6, <1>9, <1>10, <2>2 DEF SlotSends
  <2> QED
    BY <1>10, <2>1, <2>2 DEF RightSlot, SlotSide
<1>11. ASSUME s \in Getters, ~Segmented, c.cli = "open"
       PROVE  Hearable(s, nb.last_sent_packet, content[NameOf[s]], NameOf[s] \in stored)
  <2>1. nb.block \in 1 .. WordMod
    BY <1>5, <1>11 DEF DataOf
  <2> QED
    BY <1>5, <1>11, <2>1 DEF Hearable
<1> QED
  BY <1>2, <1>6, <1>7, <1>8, <1>10, <1>11, AnswerFetched

\* acceptRequest on a slot that waits for one.
LEMMA RequestFetched ==
    ASSUME SlotsInv, FetchInv, running, NEW r \in receivePacket,
           \/ ReadMissingFile(r) \/ StartRead(r)
           \/ WriteExistingFile(r) \/ StartWrite(r) \/ RequestUnexpected(r)
    PROVE  FetchTurned
<1> DEFINE s == Me.client_socket
           t == tx[s]
<1>1. /\ Me.connected
      /\ r.pkt \in Packet /\ After(r) \in Connection /\ After(r).cli = Line.cli
      /\ s \in Getters =>
            /\ AskedBy(s, r.pkt, t.last_packet_no) /\ t.last_packet_no >= 1
            /\ Right(s, After(r)) /\ RightSlot(s, Me, After(r))
  BY MyFetched
<1>2. /\ Me \in ServerClient /\ s \in Sessions /\ t \in Transfer /\ t.at # "idle"
      /\ NameOf[s] \in Names /\ content[NameOf[s]] \in Payload /\ Fresh(Me)
  BY <1>1, MyFetch
<1>3. phase = "request"
  BY DEF ReadMissingFile, StartRead, WriteExistingFile, StartWrite, CreateFile,
         RequestUnexpected
<1>4. Me.request = "UNDEFINED" /\ Me.block = 0 /\ Me.pos = 0 /\ ~Me.disconnect_on_ack
  BY <1>2, <1>3 DEF receivePacket, Receiving, Fresh
<1>5. TypeInv
  BY DEF SlotsInv
<1>6. CASE ReadMissingFile(r)
  <2> DEFINE cl == [Me EXCEPT !.request = "READ", !.file_rrq = "live"]
  <2>1. cl \in ServerClient /\ cl.client_socket = s
    BY <1>2 DEF ServerClient, Pointer
  <2>2. Refuse(cl, After(r), 1)
    BY <1>6 DEF ReadMissingFile
  <2> HIDE DEF cl
  <2> QED
    BY <1>1, <1>2, <2>1, <2>2, RefuseFetched
<1>7. CASE StartRead(r)
  <2> DEFINE cl == [Me EXCEPT !.request = "READ", !.file_rrq = "live",
                              !.name = r.pkt.name]
  <2>1. isRRQ(r.pkt) /\ r.pkt.name \in Names /\ r.pkt.name \in stored
    BY <1>1, <1>7 DEF StartRead, isRRQ, Packet
  <2>2. /\ cl \in ServerClient /\ cl.client_socket = s /\ cl.connected
        /\ cl.request = "READ" /\ cl.name = r.pkt.name
        /\ cl.block = 0 /\ cl.pos = 0 /\ ~cl.disconnect_on_ack
    BY <1>1, <1>2, <1>4, <2>1 DEF ServerClient, Pointer
  <2>3. sendPacketData(cl, After(r))
    BY <1>7 DEF StartRead
  <2> HIDE DEF cl
  <2>4. s \in Getters => cl.name = NameOf[s] /\ cl.block + 1 <= t.last_packet_no
    BY <1>1, <2>1, <2>2 DEF AskedBy, isRRQ
  <2>5. /\ cl.block < WordMod /\ cl.pos = cl.block * DataCells
        /\ cl.pos <= Len(content[cl.name])
    <3>1. WordMod \in Nat \ {0} /\ DataCells \in Nat
      BY PacketAssumption
    <3>2. content[cl.name] \in Payload
      BY <1>5, <2>1, <2>2 DEF TypeInv, TypeOK, ServerTypeOK
    <3>3. Len(content[cl.name]) \in Nat
      BY <3>2 DEF Payload
    <3>4. 0 * DataCells = 0
      BY <3>1
    <3> QED
      BY <2>2, <3>1, <3>3, <3>4
  <2> QED
    BY <1>1, <1>2, <1>5, <2>1, <2>2, <2>3, <2>4, <2>5, SendDataFetched
<1>8. CASE WriteExistingFile(r)
  <2> DEFINE cl == [Me EXCEPT !.request = "WRITE", !.file_rrq = "live"]
  <2>1. cl \in ServerClient /\ cl.client_socket = s
    BY <1>2 DEF ServerClient, Pointer
  <2>2. Refuse(cl, After(r), 6)
    BY <1>8 DEF WriteExistingFile
  <2> HIDE DEF cl
  <2> QED
    BY <1>1, <1>2, <2>1, <2>2, RefuseFetched
<1>9. CASE StartWrite(r)
  <2>1. PICK opened \in IF DiskMayFail THEN {TRUE, FALSE} ELSE {TRUE} :
           Answer([Me EXCEPT !.request = "WRITE", !.file_rrq = "freed",
                             !.file_wrq = "live", !.name = r.pkt.name,
                             !.good = opened],
                  After(r), createACK(0))
    BY <1>9 DEF StartWrite, CreateFile
  <2> DEFINE cl == [Me EXCEPT !.request = "WRITE", !.file_rrq = "freed",
                              !.file_wrq = "live", !.name = r.pkt.name,
                              !.good = opened]
  <2>2. isWRQ(r.pkt) /\ r.pkt.name \in Names
    BY <1>1, <1>9 DEF StartWrite, CreateFile, isWRQ, Packet
  <2>3. s \notin Getters
    BY <1>1, <2>2 DEF AskedBy, isWRQ
  <2>4. opened \in BOOLEAN
    BY <2>1
  <2>5. /\ cl \in ServerClient /\ cl.client_socket = s /\ cl.connected
        /\ cl.request = "WRITE"
    BY <1>1, <1>2, <2>2, <2>4 DEF ServerClient, Pointer
  <2>6. PICK o \in ServerSends(After(r), createACK(0)) : Store(cl, o.conn)
    BY <2>1 DEF Answer
  <2> HIDE DEF cl
  <2>7. Fresh(cl) /\ createACK(0) \in Packet
    BY <2>5, PacketTypes DEF Fresh
  <2> QED
    BY <1>1, <1>2, <2>3, <2>5, <2>6, <2>7, AnswerFetched
<1>10. CASE RequestUnexpected(r)
  <2>1. Refuse(Me, After(r), 4)
    BY <1>10 DEF RequestUnexpected
  <2> QED
    BY <1>1, <1>2, <2>1, RefuseFetched
<1> QED
  BY <1>6, <1>7, <1>8, <1>9, <1>10

\* An acknowledgement moves the slot on to the next block, or ends it.
LEMMA AckFetched ==
    ASSUME SlotsInv, FetchInv, running, NEW r \in receivePacket,
           AckExpected(r) \/ AckFinal(r) \/ AckMismatch(r) \/ ReadUnexpected(r)
    PROVE  FetchTurned
<1> DEFINE s == Me.client_socket
           t == tx[s]
           f == content[NameOf[s]]
<1>1. /\ Me.connected
      /\ r.pkt \in Packet /\ After(r) \in Connection /\ After(r).cli = Line.cli
      /\ s \in Getters =>
            /\ AskedBy(s, r.pkt, t.last_packet_no) /\ t.last_packet_no >= 1
            /\ Right(s, After(r)) /\ RightSlot(s, Me, After(r))
  BY MyFetched
<1>2. /\ Me \in ServerClient /\ s \in Sessions /\ t \in Transfer /\ t.at # "idle"
  BY <1>1, MyFetch
<1>3. Me.request = "READ"
  BY DEF AckExpected, AckFinal, AckFor, AckMismatch, ReadUnexpected, Serving
<1> DEFINE acked == [Me EXCEPT !.acknowledged = "OK"]
<1>4. /\ acked \in ServerClient /\ acked.client_socket = s /\ acked.connected
      /\ acked.request = "READ" /\ acked.name = Me.name /\ acked.block = Me.block
      /\ acked.last_sent_packet = Me.last_sent_packet /\ acked.pos = Me.pos
      /\ acked.disconnect_on_ack = Me.disconnect_on_ack
    BY <1>1, <1>2, <1>3 DEF ServerClient
<1>5. CASE ReadUnexpected(r)
  <2>1. Refuse(Me, After(r), 4)
    BY <1>5 DEF ReadUnexpected
  <2> QED
    BY <1>1, <1>2, <2>1, RefuseFetched
<1>6. CASE AckFinal(r)
  <2>1. disconnectClient(acked, After(r))
    BY <1>6 DEF AckFinal
  <2> HIDE DEF acked
  <2> QED
    BY <1>1, <1>2, <1>4, <2>1, DisconnectFetched
<1>7. CASE AckExpected(r)
  <2>1. Store(acked, After(r)) /\ isACK(r.pkt) /\ Me.block = getNumber(r.pkt)
        /\ ~Me.disconnect_on_ack
    BY <1>7 DEF AckExpected, AckOK, AckFor
  <2> HIDE DEF acked
  <2>2. Me.block = r.pkt.num
    BY <2>1 DEF getNumber
  <2>3. Fresh(acked)
    BY <1>4 DEF Fresh
  <2>4. ASSUME s \in Getters PROVE RightSlot(s, acked, After(r))
    <3>1. r.pkt.num < t.last_packet_no /\ r.pkt.num < WordMod
      BY <1>1, <2>1, <2>4 DEF AskedBy, isACK
    <3>2. Me.block + 1 <= t.last_packet_no
      BY <1>2, <2>2, <3>1 DEF ServerClient, Transfer
    <3>3. SlotReads(s, acked, After(r), t)
      BY <1>1, <1>3, <1>4, <2>4, <3>2 DEF RightSlot, SlotSide, SlotReads
    <3>4. ASSUME ~Segmented PROVE SlotSends(s, acked, After(r), f, NameOf[s] \in stored)
      <4>1. SlotSends(s, Me, After(r), f, NameOf[s] \in stored)
        BY <1>1, <2>4, <3>4 DEF RightSlot, SlotSide
      <4> QED
        BY <1>3, <1>4, <2>1, <2>2, <3>1, <4>1 DEF SlotSends
    <3> QED
      BY <3>3, <3>4 DEF RightSlot, SlotSide
  <2> QED
    BY <1>1, <1>4, <2>1, <2>3, <2>4 DEF FetchTurned
<1>8. CASE AckMismatch(r)
  <2>1. PICK o \in ServerSends(After(r), Me.last_sent_packet) : Store(Me, o.conn)
    BY <1>8 DEF AckMismatch, Answer
  <2>2. Me.last_sent_packet \in Packet /\ Fresh(Me)
    BY <1>1, <1>2, <1>3 DEF ServerClient, Fresh
  <2>3. ASSUME s \in Getters, ~Segmented, After(r).cli = "open"
        PROVE  Hearable(s, Me.last_sent_packet, f, NameOf[s] \in stored)
    <3>1. SlotSends(s, Me, After(r), f, NameOf[s] \in stored)
      BY <1>1, <2>3 DEF RightSlot, SlotSide
    <3>2. DataOf(s, f, Me.block, Me.last_sent_packet) /\ NameOf[s] \in stored
      BY <1>3, <2>3, <3>1 DEF SlotSends
    <3>3. Me.block \in 1 .. WordMod
      BY <3>2 DEF DataOf
    <3> QED
      BY <3>2, <3>3 DEF Hearable
  <2> QED
    BY <1>1, <1>2, <2>1, <2>2, <2>3, AnswerFetched
<1> QED
  BY <1>5, <1>6, <1>7, <1>8

\* A slot that writes does not serve getFile.
LEMMA WriteFetched ==
    ASSUME SlotsInv, FetchInv, running, NEW r \in receivePacket,
           DataExpected(r) \/ DataFinal(r) \/ DataMismatch(r) \/ WriteUnexpected(r)
    PROVE  FetchTurned
<1> DEFINE s == Me.client_socket
           t == tx[s]
<1>1. /\ Me.connected
      /\ r.pkt \in Packet /\ After(r) \in Connection
      /\ s \in Getters => RightSlot(s, Me, After(r))
  BY MyFetched
<1>2. /\ Me \in ServerClient /\ s \in Sessions /\ t \in Transfer /\ t.at # "idle"
  BY <1>1, MyFetch
<1>3. Me.request = "WRITE"
  BY DEF DataExpected, DataFinal, DataMismatch, WriteUnexpected, Serving
<1>4. s \notin Getters
  BY <1>1, <1>3 DEF RightSlot, SlotSide, SlotReads
<1>5. Me.block \in Nat /\ createACK(Me.block + 1) \in Packet
  BY <1>2, PacketTypes DEF ServerClient
<1>6. CASE WriteUnexpected(r)
  <2>1. Refuse(Me, After(r), 4)
    BY <1>6 DEF WriteUnexpected
  <2> QED
    BY <1>1, <1>2, <1>4, <2>1, RefuseFetched
<1>7. CASE DataFinal(r)
  <2>1. PICK o \in ServerSends(After(r), createACK(Me.block + 1)) : disconnectClient(Me, o.conn)
    BY <1>7 DEF DataFinal, EndTransfer
  <2>2. o.conn \in Connection
    BY <1>1, <1>5, <2>1, ServerSendsType
  <2> QED
    BY <1>1, <1>2, <1>4, <2>1, <2>2, DisconnectFetched
<1>8. CASE DataMismatch(r)
  <2> DEFINE cl == [Me EXCEPT !.block = @ + 1]
  <2>1. Store(cl, After(r))
    BY <1>8 DEF DataMismatch
  <2>2. cl \in ServerClient /\ cl.client_socket = s /\ cl.connected /\ cl.request = "WRITE"
    BY <1>1, <1>2, <1>3, <1>5 DEF ServerClient
  <2> HIDE DEF cl
  <2>3. Fresh(cl)
    BY <2>2 DEF Fresh
  <2> QED
    BY <1>1, <1>4, <2>1, <2>2, <2>3 DEF FetchTurned
<1>9. CASE DataExpected(r)
  <2>1. PICK n \in 0 .. Len(r.pkt.data) :
          Answer([Me EXCEPT !.block = @ + 1, !.good = @ /\ n = Len(r.pkt.data)],
                 After(r), createACK(Me.block + 1))
    BY <1>9 DEF DataExpected
  <2> DEFINE kept == Me.good /\ n = Len(r.pkt.data)
             counted == [Me EXCEPT !.block = @ + 1]
             cl == [Me EXCEPT !.block = @ + 1, !.good = kept]
  <2>2. /\ kept \in BOOLEAN /\ cl = [counted EXCEPT !.good = kept]
        /\ counted \in ServerClient /\ counted.client_socket = s /\ counted.connected
        /\ counted.request = "WRITE"
    <3>1. kept \in BOOLEAN /\ cl = [counted EXCEPT !.good = kept]
      OBVIOUS
    <3> HIDE DEF kept
    <3>2. /\ counted \in ServerClient /\ counted.client_socket = s /\ counted.connected
          /\ counted.request = "WRITE"
      BY <1>1, <1>2, <1>3, <1>5 DEF ServerClient
    <3> QED
      BY <3>1, <3>2
  <2>3. PICK o \in ServerSends(After(r), createACK(Me.block + 1)) : Store(cl, o.conn)
    BY <2>1 DEF Answer
  <2> HIDE DEF kept, counted, cl
  <2>4. cl \in ServerClient /\ cl.client_socket = s /\ cl.connected /\ cl.request = "WRITE"
    BY <2>2 DEF ServerClient
  <2> HIDE DEF cl
  <2>5. Fresh(cl)
    BY <2>4 DEF Fresh
  <2> QED
    BY <1>1, <1>2, <1>4, <1>5, <2>3, <2>4, <2>5, AnswerFetched
<1> QED
  BY <1>6, <1>7, <1>8, <1>9

\* A turn without anything to accept, to read or to send.
LEMMA IdleTurn ==
    ASSUME TypeInv, NothingToAccept \/ NothingReceived \/ NothingToSend
    PROVE  Idles
<1>1. CASE NothingToAccept
  <2>1. UNCHANGED netVars
    BY <1>1 DEF NothingToAccept
  <2>2. CASE Me.connected
    <3>1. slot \in Slots /\ clients \in [Slots -> ServerClient]
      BY MeType DEF TypeInv, TypeOK, ServerTypeOK
    <3>2. UNCHANGED clients
      BY <1>1, <2>2, <3>1 DEF NothingToAccept, Me, ServerClient
    <3> QED
      BY <2>1, <3>2 DEF Idles
  <2>3. CASE ~Me.connected
    BY <1>1, <2>1, <2>3 DEF NothingToAccept, Idles
  <2> QED
    BY <2>2, <2>3
<1>2. CASE NothingReceived \/ NothingToSend
  BY <1>2 DEF NothingReceived, NothingToSend, Idles
<1> QED
  BY <1>1, <1>2

\* Every step of the server.
LEMMA ServerFetched ==
    ASSUME SlotsInv, FetchInv, ServerStep
    PROVE  FetchTurned \/ acceptClient \/ Idles
<1>1. running /\ TypeInv
  BY DEF ServerStep, SlotsInv
<1>2. CASE PeerClosed
  <2>1. Me.connected /\ disconnectClient(Me, Line)
    BY <1>2 DEF PeerClosed, Receiving
  <2> QED
    BY <1>1, <2>1, MyFetch, DisconnectFetched
<1>3. CASE \E r \in receivePacket : OnPacket(r)
  BY <1>1, <1>3, RequestFetched, AckFetched, WriteFetched DEF OnPacket
<1>4. CASE SendNextBlock
  <2> DEFINE s == Me.client_socket
             f == content[NameOf[s]]
  <2>1. /\ Me.connected /\ Me.request = "READ" /\ Me.acknowledged = "OK"
        /\ sendPacketData(Me, Line)
    BY <1>4 DEF SendNextBlock, MaySend, Serving
  <2>2. /\ Me \in ServerClient /\ s \in Sessions /\ Line \in Connection
        /\ tx[s] \in Transfer /\ tx[s].at # "idle" /\ Me.name \in Names
        /\ s \in Getters => Right(s, Line) /\ RightSlot(s, Me, Line)
    BY <1>1, <2>1, MyFetch
  <2>3. ASSUME s \in Getters
        PROVE  /\ Me.name = NameOf[s]
               /\ Line.cli = "open" =>
                     /\ Me.block + 1 <= tx[s].last_packet_no
                     /\ ~Segmented =>
                           /\ Me.name \in stored /\ Me.block < WordMod
                           /\ ~Me.disconnect_on_ack
                           /\ Me.pos = Me.block * DataCells
                           /\ Me.pos <= Len(content[Me.name])
    <3>1. SlotReads(s, Me, Line, tx[s])
      BY <2>1, <2>2, <2>3 DEF RightSlot, SlotSide
    <3>2. ~Segmented => SlotSends(s, Me, Line, f, NameOf[s] \in stored)
      BY <2>1, <2>2, <2>3 DEF RightSlot, SlotSide
    <3> QED
      BY <2>1, <3>1, <3>2 DEF SlotReads, SlotSends
  <2> QED
    BY <1>1, <2>1, <2>2, <2>3, SendDataFetched
<1>5. CASE NothingToAccept \/ NothingReceived \/ NothingToSend
  BY <1>1, <1>5, IdleTurn
<1> QED
  BY <1>2, <1>3, <1>4, <1>5 DEF ServerStep
-----------------------------------------------------------------------------
(* The file grows while it is fetched. *)

\* What a sequence and a longer one have in common.
LEMMA PrefixParts ==
    ASSUME NEW S, NEW f \in Seq(S), NEW g \in Seq(S), IsPrefix(f, g)
    PROVE  /\ Len(f) <= Len(g)
           /\ \A i \in 1 .. Len(f) : f[i] = g[i]
           /\ \A a, b \in Nat : b <= Len(f) => SubSeq(f, a + 1, b) = SubSeq(g, a + 1, b)
           /\ \A b \in Nat : b <= Len(f) => SubSeq(f, 1, b) = SubSeq(g, 1, b)
<1>1. /\ Len(f) <= Len(g) /\ Len(f) \in Nat /\ Len(g) \in Nat
      /\ SubSeq(f, 1, Len(f)) = SubSeq(g, 1, Len(f))
  BY DEF IsPrefix
<1>2. ASSUME NEW i \in 1 .. Len(f) PROVE f[i] = g[i]
  <2>1. /\ SubSeq(f, 1, Len(f))[i] = f[i]
        /\ SubSeq(g, 1, Len(f))[i] = g[i]
    BY <1>1
  <2> QED
    BY <1>1, <2>1
<1>3. ASSUME NEW a \in Nat, NEW b \in Nat, b <= Len(f)
      PROVE  SubSeq(f, a + 1, b) = SubSeq(g, a + 1, b)
  <2>1. CASE a >= b
    <3>1. \A x \in Seq(S) : SubSeq(x, a + 1, b) = <<>>
      BY <2>1
    <3> QED
      BY <3>1
  <2>2. CASE a < b
    <3> DEFINE x == SubSeq(f, a + 1, b)
               y == SubSeq(g, a + 1, b)
    <3>1. /\ x \in Seq(S) /\ Len(x) = b - a
          /\ \A i \in 1 .. b - a : x[i] = f[a + i]
      BY <1>1, <1>3, <2>2
    <3>2. /\ y \in Seq(S) /\ Len(y) = b - a
          /\ \A i \in 1 .. b - a : y[i] = g[a + i]
      BY <1>1, <1>3, <2>2
    <3> HIDE DEF x, y
    <3>3. \A i \in 1 .. b - a : a + i \in 1 .. Len(f)
      BY <1>1, <1>3, <2>2
    <3>4. \A i \in 1 .. b - a : x[i] = y[i]
      BY <1>2, <3>1, <3>2, <3>3
    <3>5. x = y
      BY <3>1, <3>2, <3>4
    <3> QED
      BY <3>5 DEF x, y
  <2> QED
    BY <1>3, <2>1, <2>2
<1>4. ASSUME NEW b \in Nat, b <= Len(f) PROVE SubSeq(f, 1, b) = SubSeq(g, 1, b)
  <2>1. 0 + 1 = 1
    OBVIOUS
  <2> QED
    BY <1>3, <1>4, <2>1
<1> QED
  BY <1>1, <1>2, <1>3, <1>4

\* The beginning of a beginning.
LEMMA PrefixTransitive ==
    ASSUME NEW S, NEW e \in Seq(S), NEW f \in Seq(S), NEW g \in Seq(S),
           IsPrefix(e, f), IsPrefix(f, g)
    PROVE  IsPrefix(e, g)
<1>1. Len(e) <= Len(f) /\ Len(f) <= Len(g) /\ Len(e) \in Nat /\ Len(f) \in Nat /\ Len(g) \in Nat
  BY PrefixParts
<1>2. SubSeq(e, 1, Len(e)) = SubSeq(f, 1, Len(e))
  BY DEF IsPrefix
<1>3. SubSeq(f, 1, Len(e)) = SubSeq(g, 1, Len(e))
  BY <1>1, PrefixParts
<1> QED
  BY <1>1, <1>2, <1>3 DEF IsPrefix

\* A block read from a file is a block of what the file becomes.
LEMMA DataStays ==
    ASSUME NEW s \in Sessions, NEW f \in Payload, NEW g \in Payload, IsPrefix(f, g),
           Whole(s) => g = f, NEW j, NEW p \in Packet, DataOf(s, f, j, p)
    PROVE  DataOf(s, g, j, p)
<1> DEFINE low == (j - 1) * DataCells
           size == Len(p.data)
<1>1. j \in 1 .. WordMod /\ DataCells \in Nat /\ WordMod \in Nat /\ size \in Nat
  BY PacketAssumption DEF DataOf, Packet, Payload
<1>2. low \in Nat
  <2>1. \A a \in Nat : a >= 1 => (a - 1) \in Nat
    OBVIOUS
  <2>2. \A a, b \in Nat : a * b \in Nat
    OBVIOUS
  <2> QED
    BY <1>1, <2>1, <2>2
<1>3. Chunk(f, Whole(s), j, p.data)
  BY DEF DataOf
<1>4. /\ size <= DataCells /\ low + size <= Len(f)
      /\ p.data = SubSeq(f, low + 1, low + size)
      /\ Whole(s) /\ size < DataCells => low + size = Len(f)
  BY <1>3 DEF Chunk
<1> HIDE DEF low, size
<1>5. Len(f) <= Len(g) /\ Len(f) \in Nat /\ Len(g) \in Nat
  BY PrefixParts DEF Payload
<1>6. SubSeq(f, low + 1, low + size) = SubSeq(g, low + 1, low + size)
  <2>1. low + size \in Nat
    BY <1>1, <1>2
  <2> QED
    BY <1>2, <1>4, <2>1, PrefixParts DEF Payload
<1>7. low + size <= Len(g)
  BY <1>1, <1>2, <1>4, <1>5
<1>8. Chunk(g, Whole(s), j, p.data)
  BY <1>4, <1>6, <1>7 DEF Chunk, low, size
<1> QED
  BY <1>8 DEF DataOf

\* f becomes g: a file that exists only grows, one of the beginning stays.
Becomes(s, f, there, g, after) ==
    /\ there => after /\ IsPrefix(f, g)
    /\ Whole(s) => there /\ g = f

\* What holds of getFile outlives a change of the files on the server.
LEMMA GetterStays ==
    ASSUME NEW s \in Getters, NEW c \in Connection, NEW t \in Transfer,
           NEW f \in Payload, NEW g \in Payload,
           NEW there \in BOOLEAN, NEW after \in BOOLEAN,
           GetterSide(s, c, t, f, there),
           ~Segmented => Becomes(s, f, there, g, after)
    PROVE  GetterSide(s, c, t, g, after)
<1>1. ASSUME ~Segmented PROVE GetterHears(s, c, t, g, after)
  <2>1. GetterHears(s, c, t, f, there) /\ Becomes(s, f, there, g, after)
    BY <1>1 DEF GetterSide
  <2>2. /\ c.down \in Seq(Packet) /\ t.file \in Payload /\ s \in Sessions
        /\ t.last_packet_no \in Nat /\ DataCells \in Nat \ {0}
    BY ClientAssumption, PacketAssumption DEF Connection, Transfer
  <2>3. ASSUME NEW k \in 1 .. Len(c.down) PROVE Hearable(s, c.down[k], g, after)
    <3>1. Hearable(s, c.down[k], f, there) /\ c.down[k] \in Packet
      BY <2>1, <2>2 DEF GetterHears
    <3> QED
      BY <2>1, <2>2, <3>1, DataStays DEF Hearable, Becomes
  <2>4. IsPrefix(t.file, g) /\ (after \/ t.file = <<>>)
    <3>1. CASE there
      BY <2>1, <2>2, <3>1, PrefixTransitive DEF GetterHears, Becomes, Payload
    <3>2. CASE ~there
      <4>1. t.file = <<>>
        BY <2>1, <3>2 DEF GetterHears
      <4>2. IsPrefix(<<>>, g)
        BY DEF IsPrefix, Payload
      <4> QED
        BY <4>1, <4>2
    <3> QED
      BY <3>1, <3>2
  <2> DEFINE low == (t.last_packet_no - 1) * DataCells
  <2>5. ASSUME t.at = "waiting" PROVE low <= Len(g) /\ t.file = SubSeq(g, 1, low)
    <3>1. t.last_packet_no >= 1
      BY <2>5 DEF GetterSide, GetterPipe
    <3>2. low \in Nat
      <4>1. \A a \in Nat : a >= 1 => a - 1 \in Nat
        OBVIOUS
      <4>2. \A a, b \in Nat : a * b \in Nat
        OBVIOUS
      <4> QED
        BY <2>2, <3>1, <4>1, <4>2
    <3>3. low <= Len(f) /\ t.file = SubSeq(f, 1, low)
      BY <2>1, <2>5 DEF GetterHears
    <3> HIDE DEF low
    <3>4. CASE there
      <4>1. IsPrefix(f, g)
        BY <2>1, <3>4 DEF Becomes
      <4>2. Len(f) <= Len(g) /\ Len(f) \in Nat /\ Len(g) \in Nat
        BY <4>1, PrefixParts DEF Payload
      <4>3. SubSeq(f, 1, low) = SubSeq(g, 1, low)
        BY <3>2, <3>3, <4>1, PrefixParts DEF Payload
      <4> QED
        BY <3>2, <3>3, <4>2, <4>3
    <3>5. CASE ~there
      <4>1. t.file = <<>>
        BY <2>1, <3>5 DEF GetterHears
      <4>2. Len(SubSeq(f, 1, low)) = low
        BY <3>2, <3>3 DEF Payload
      <4>3. low = 0
        <5>1. Len(<<>>) = 0 /\ SubSeq(f, 1, low) = <<>>
          BY <3>3, <4>1
        <5> QED
          BY <4>2, <5>1
      <4>4. SubSeq(g, 1, 0) = <<>> /\ 0 <= Len(g)
        BY DEF Payload
      <4> QED
        BY <4>1, <4>3, <4>4
    <3> QED
      BY <3>4, <3>5
  <2>6. t.result = "ok" /\ Whole(s) => t.file = g
    BY <2>1 DEF GetterHears, Becomes
  <2>7. t.at \in {"idle", "connected"} => t.file = <<>>
    BY <2>1 DEF GetterHears
  <2> QED
    BY <2>3, <2>4, <2>5, <2>6, <2>7 DEF GetterHears
<1> QED
  BY <1>1 DEF GetterSide

\* So does what holds of the slot that serves it.
LEMMA SlotStays ==
    ASSUME NEW s \in Getters, NEW cl \in ServerClient, NEW c \in Connection, NEW t \in Transfer,
           NEW f \in Payload, NEW g \in Payload,
           NEW there \in BOOLEAN, NEW after \in BOOLEAN,
           SlotSide(s, cl, c, t, f, there),
           ~Segmented => Becomes(s, f, there, g, after)
    PROVE  SlotSide(s, cl, c, t, g, after)
<1>1. ASSUME ~Segmented, cl.connected PROVE SlotSends(s, cl, c, g, after)
  <2>1. SlotSends(s, cl, c, f, there) /\ Becomes(s, f, there, g, after)
    BY <1>1 DEF SlotSide
  <2>2. ASSUME cl.request = "READ", c.cli = "open"
        PROVE  /\ after /\ DataOf(s, g, cl.block, cl.last_sent_packet)
               /\ cl.pos <= Len(f) => cl.pos <= Len(g)
    <3>1. there /\ DataOf(s, f, cl.block, cl.last_sent_packet)
      BY <2>1, <2>2 DEF SlotSends
    <3>2. after /\ IsPrefix(f, g) /\ (Whole(s) => g = f)
      BY <2>1, <3>1 DEF Becomes
    <3>3. cl.last_sent_packet \in Packet /\ s \in Sessions /\ cl.pos \in Nat
      BY ClientAssumption DEF ServerClient
    <3>4. Len(f) <= Len(g) /\ Len(f) \in Nat /\ Len(g) \in Nat
      BY <3>2, PrefixParts DEF Payload
    <3> QED
      BY <3>1, <3>2, <3>3, <3>4, DataStays
  <2> QED
    BY <2>1, <2>2 DEF SlotSends
<1> QED
  BY <1>1 DEF SlotSide
-----------------------------------------------------------------------------
(* The steps of the server. *)

\* Nothing has been asked for yet.
LEMMA FetchInit == Init => FetchInv
<1> SUFFICES ASSUME Init PROVE FetchInv
  OBVIOUS
<1>1. ASSUME NEW s \in Getters
      PROVE  GetterSide(s, conn[s], tx[s], content[NameOf[s]], NameOf[s] \in stored)
  <2>1. s \in Sessions /\ NameOf[s] \in Names
    BY ClientAssumption
  <2>2. conn[s] = NoConnection /\ tx[s] = NewTransfer /\ content[NameOf[s]] \in Payload
    BY <2>1, ServerAssumption DEF Init, NetInit, ClientInit, ServerInit
  <2>3. /\ conn[s].up = <<>> /\ conn[s].down = <<>> /\ conn[s].rst = "no"
        /\ tx[s].at = "idle" /\ tx[s].last_packet_no = 0 /\ tx[s].file = <<>>
        /\ tx[s].packet_ack.op = "NONE" /\ tx[s].result = "none"
    BY <2>2 DEF NoConnection, NewTransfer, Cleared
  <2>4. GetterPipe(s, conn[s], tx[s])
    BY <2>3 DEF GetterPipe
  <2>5. IsPrefix(tx[s].file, content[NameOf[s]])
    BY <2>2, <2>3 DEF IsPrefix, Payload
  <2>6. GetterHears(s, conn[s], tx[s], content[NameOf[s]], NameOf[s] \in stored)
    BY <2>3, <2>5 DEF GetterHears
  <2> QED
    BY <2>4, <2>6 DEF GetterSide
<1>2. ASSUME NEW i \in Slots PROVE Fresh(clients[i]) /\ ~clients[i].connected
  BY <1>2 DEF Init, ServerInit, NewServerClient, Fresh
<1> QED
  BY <1>1, <1>2 DEF FetchInv

\* The invariant after a step, but for the files: they may have grown.
StillRight ==
    /\ \A q \in Getters : Right(q, conn'[q])
    /\ \A i \in Slots :
          /\ Fresh(clients'[i])
          /\ LET q == clients'[i].client_socket
             IN  clients'[i].connected /\ q \in Getters => RightSlot(q, clients'[i], conn'[q])

\* The turn of a slot concerns its own session only.
LEMMA TurnedRight ==
    ASSUME SlotsInv, FetchInv, FetchTurned
    PROVE  StillRight
<1> DEFINE k == Me.client_socket
<1>1. /\ TypeInv /\ slot \in Slots /\ SlotOK(Me) /\ Me = clients[slot]
      /\ SlotsDisjoint /\ Getters \subseteq Sessions
      /\ clients \in [Slots -> ServerClient] /\ conn \in [Sessions -> Connection]
  BY MeType, ClientAssumption
     DEF SlotsInv, SlotsServeConnections, TypeInv, TypeOK, ServerTypeOK, NetTypeOK, Me
<1>2. PICK cl \in ServerClient, c \in Connection :
          /\ Store(cl, c) /\ cl.client_socket = k
          /\ Fresh(cl)
          /\ k \in Getters => Right(k, c) /\ RightSlot(k, cl, c)
  BY DEF FetchTurned
<1>3. Me.connected /\ k \in Sessions
  BY <1>1 DEF FetchTurned, SlotOK
<1>4. /\ clients' = [clients EXCEPT ![slot] = cl]
      /\ conn' = [conn EXCEPT ![k] = c]
  BY <1>2 DEF Store
<1>5. ASSUME NEW q \in Getters PROVE Right(q, conn'[q])
  <2>1. CASE q = k
    <3>1. conn'[q] = c
      BY <1>1, <1>3, <1>4, <2>1
    <3> QED
      BY <1>2, <2>1, <3>1
  <2>2. CASE q # k
    <3>1. conn'[q] = conn[q]
      BY <1>1, <1>4, <2>2
    <3> QED
      BY <3>1 DEF FetchInv, Right
  <2> QED
    BY <2>1, <2>2
<1>6. ASSUME NEW i \in Slots
      PROVE  /\ Fresh(clients'[i])
             /\ LET q == clients'[i].client_socket
                IN  clients'[i].connected /\ q \in Getters =>
                       RightSlot(q, clients'[i], conn'[q])
  <2>1. CASE i = slot
    <3>1. clients'[i] = cl /\ conn'[k] = c
      BY <1>1, <1>3, <1>4, <2>1
    <3> QED
      BY <1>2, <3>1
  <2>2. CASE i # slot
    <3>1. clients'[i] = clients[i]
      BY <1>1, <1>4, <2>2
    <3>2. clients[i].connected => clients[i].client_socket # k
      BY <1>1, <1>3, <2>2 DEF SlotsDisjoint, Serves
    <3>3. clients[i].connected /\ clients[i].client_socket \in Sessions =>
             conn'[clients[i].client_socket] = conn[clients[i].client_socket]
      BY <1>1, <1>4, <3>2
    <3> QED
      BY <1>1, <3>1, <3>3 DEF FetchInv, RightSlot
  <2> QED
    BY <2>1, <2>2
<1> QED
  BY <1>5, <1>6 DEF StillRight

\* A slot that accepts has nothing left from before.
LEMMA AcceptRight ==
    ASSUME SlotsInv, FetchInv, running, acceptClient
    PROVE  StillRight
<1>1. /\ SlotOwnsConnection /\ BacklogWaits /\ TypeInv /\ Unopened
      /\ Getters \subseteq Sessions
      /\ backlog \in Seq(Sessions) /\ conn \in [Sessions -> Connection]
      /\ clients \in [Slots -> ServerClient] /\ slot \in Slots
      /\ tx \in [Sessions -> Transfer]
  BY ClientAssumption
     DEF SlotsInv, SlotsServeConnections, TypeInv, TypeOK, NetTypeOK, ServerTypeOK,
         ClientTypeOK
<1> DEFINE k == Head(backlog)
           cl == [Me EXCEPT !.connected = TRUE, !.client_socket = k]
           c == [conn[k] EXCEPT !.srv = "open"]
<1>2. /\ ~Me.connected /\ Me = clients[slot] /\ backlog # <<>> /\ Store(cl, c)
  BY DEF acceptClient, accept, Me
<1>3. /\ k \in Sessions /\ k = backlog[1] /\ 1 \in DOMAIN backlog
  BY <1>1, <1>2
<1>4. conn[k].srv = "backlog" /\ tx[k].at # "idle"
  BY <1>1, <1>3 DEF BacklogWaits, Unopened
<1>5. Me.request = "UNDEFINED" /\ Fresh(Me)
  BY <1>1, <1>2 DEF TypeInv, SlotOK, FetchInv
<1>6. /\ cl.client_socket = k /\ cl.request = "UNDEFINED" /\ cl.block = Me.block
      /\ cl.pos = Me.pos /\ cl.disconnect_on_ack = Me.disconnect_on_ack
  BY <1>1, <1>2, <1>3, <1>5 DEF ServerClient
<1>7. /\ c \in Connection /\ c.up = conn[k].up /\ c.rst = conn[k].rst
      /\ c.cli = conn[k].cli /\ c.down = conn[k].down
  <2>1. conn[k] \in Connection
    BY <1>1, <1>3
  <2> HIDE DEF k, cl
  <2> QED BY <2>1 DEF Connection
<1> HIDE DEF k, cl, c
<1>8. clients' = [clients EXCEPT ![slot] = cl] /\ conn' = [conn EXCEPT ![k] = c]
  BY <1>2, <1>6 DEF Store
<1>9. Fresh(cl)
  BY <1>2, <1>5, <1>6 DEF Fresh
<1>10. ASSUME NEW q \in Getters PROVE Right(q, conn'[q])
  <2>1. Right(q, conn[q])
    BY DEF FetchInv, Right
  <2>2. CASE q = k
    <3>1. createError(4) \in Packet /\ isError(createError(4))
      BY PacketTypes DEF createError, isError, Cleared
    <3>2. \A n \in 1 .. Len(c.up) : \E m \in 1 .. Len(conn[k].up) : c.up[n] = conn[k].up[m]
      BY <1>7
    <3>3. Right(k, c)
      <4>1. conn[k] \in Connection /\ tx[k] \in Transfer /\ k \in Getters
        BY <1>1, <1>3, <2>2
      <4>2. GetterSide(k, conn[k], tx[k], content[NameOf[k]], NameOf[k] \in stored)
        BY <2>1, <2>2 DEF Right
      <4>3. ~Segmented => Hearable(k, createError(4), content[NameOf[k]], NameOf[k] \in stored)
        BY <3>1 DEF Hearable
      <4> QED
        BY <1>4, <1>7, <3>1, <3>2, <4>1, <4>2, <4>3, ServedKeeps DEF Right
    <3>4. conn'[q] = c
      BY <1>1, <1>3, <1>8, <2>2
    <3> QED
      BY <2>2, <3>3, <3>4
  <2>3. CASE q # k
    <3>1. conn'[q] = conn[q]
      BY <1>1, <1>8, <2>3
    <3> QED
      BY <2>1, <3>1
  <2> QED
    BY <2>2, <2>3
<1>11. ASSUME NEW i \in Slots
       PROVE  /\ Fresh(clients'[i])
              /\ LET q == clients'[i].client_socket
                 IN  clients'[i].connected /\ q \in Getters =>
                        RightSlot(q, clients'[i], conn'[q])
  <2>1. CASE i = slot
    <3>1. clients'[i] = cl
      BY <1>1, <1>8, <2>1
    <3> QED
      BY <1>6, <1>9, <3>1 DEF RightSlot, SlotSide, SlotReads, SlotSends
  <2>2. CASE i # slot
    <3>1. clients'[i] = clients[i]
      BY <1>1, <1>8, <2>2
    <3>2. clients[i].connected =>
             clients[i].client_socket # k /\ clients[i].client_socket \in Sessions
      BY <1>1, <1>4 DEF SlotOwnsConnection
    <3>3. clients[i].connected =>
             conn'[clients[i].client_socket] = conn[clients[i].client_socket]
      BY <1>1, <1>8, <3>2
    <3> QED
      BY <3>1, <3>3 DEF FetchInv, RightSlot
  <2> QED
    BY <2>1, <2>2
<1> QED
  BY <1>10, <1>11 DEF StillRight

\* A turn in which the slot does nothing.
LEMMA IdleRight ==
    ASSUME SlotsInv, FetchInv, Idles
    PROVE  StillRight
<1>1. clients \in [Slots -> ServerClient] /\ slot \in Slots /\ Me = clients[slot]
  BY MeType DEF SlotsInv, TypeInv, TypeOK, ServerTypeOK, Me
<1>2. conn' = conn
  BY DEF Idles, netVars
<1>3. ASSUME NEW i \in Slots
      PROVE  \/ clients'[i] = clients[i]
             \/ /\ ~clients[i].connected /\ ~clients'[i].connected
                /\ clients'[i].block = clients[i].block
                /\ clients'[i].pos = clients[i].pos
                /\ clients'[i].disconnect_on_ack = clients[i].disconnect_on_ack
  <2>1. CASE UNCHANGED clients
    BY <2>1
  <2>2. CASE /\ ~Me.connected
             /\ clients' = [clients EXCEPT ![slot].client_socket = NoSession]
    <3>1. CASE i = slot
      BY <1>1, <2>2, <3>1 DEF ServerClient
    <3>2. CASE i # slot
      BY <1>1, <2>2, <3>2
    <3> QED
      BY <3>1, <3>2
  <2> QED
    BY <2>1, <2>2 DEF Idles
<1>4. ASSUME NEW i \in Slots
      PROVE  /\ Fresh(clients'[i])
             /\ LET q == clients'[i].client_socket
                IN  clients'[i].connected /\ q \in Getters =>
                       RightSlot(q, clients'[i], conn'[q])
  <2>1. Fresh(clients[i])
    BY DEF FetchInv
  <2>2. CASE clients'[i] = clients[i]
    BY <1>2, <2>2 DEF FetchInv, RightSlot
  <2>3. CASE /\ ~clients[i].connected /\ ~clients'[i].connected
             /\ clients'[i].block = clients[i].block
             /\ clients'[i].pos = clients[i].pos
             /\ clients'[i].disconnect_on_ack = clients[i].disconnect_on_ack
    BY <2>1, <2>3 DEF Fresh
  <2> QED
    BY <1>3, <2>2, <2>3
<1>5. ASSUME NEW q \in Getters PROVE Right(q, conn'[q])
  BY <1>2 DEF FetchInv, Right
<1> QED
  BY <1>4, <1>5 DEF StillRight

\* A step of the server lets files grow; those of the start stay as they are.
LEMMA FilesBecome ==
    ASSUME ~Segmented, StreamInv, Server, NEW n \in Names
    PROVE  /\ n \in stored => n \in stored' /\ IsPrefix(content[n], content'[n])
           /\ n \in InitStored => n \in stored /\ content'[n] = content[n]
<1>1. TypeInv /\ ServerStep /\ content \in [Names -> Payload] /\ InitStored \subseteq stored
  BY DEF StreamInv, SlotsInv, FilesInv, Server, TypeInv, TypeOK, ServerTypeOK
<1>2. n \in stored => n \in stored' /\ IsPrefix(content[n], content'[n])
  BY <1>1, ServerGrows DEF Grows
<1>3. ASSUME n \in InitStored PROVE content'[n] = content[n]
  <2>1. [Archive!StoreNext]_<<stored, content>>
    BY StreamStep DEF Next
  <2>2. CASE UNCHANGED <<stored, content>>
    BY <2>2
  <2>3. CASE \E a \in Putters : Archive!Create(a)
    <3>1. PICK a \in Putters : Archive!Create(a)
      BY <2>3
    <3>2. NameOf[a] # n
      BY <1>1, <1>3, <3>1 DEF Archive!Create
    <3> QED
      BY <1>1, <3>1, <3>2 DEF Archive!Create
  <2>4. CASE \E a \in Putters : Archive!Extend(a)
    <3>1. PICK a \in Putters : Archive!Extend(a)
      BY <2>4
    <3>2. NameOf[a] # n
      BY <1>3, <3>1 DEF Archive!Extend
    <3> QED
      BY <1>1, <3>1, <3>2 DEF Archive!Extend
  <2> QED
    BY <2>1, <2>2, <2>3, <2>4 DEF Archive!StoreNext
<1> QED
  BY <1>1, <1>2, <1>3

\* The server's steps: the slot's turn, and the files as they are after it.
LEMMA ServerFetches ==
    ASSUME SlotsInv, ~Segmented => StreamInv, FetchInv, Server
    PROVE  FetchInv'
<1>1. /\ TypeInv /\ ServerStep /\ running /\ tx' = tx /\ TypeInv'
  BY TypeStep DEF Server, ServerStep, SlotsInv, Next
<1>2. StillRight
  BY <1>1, ServerFetched, TurnedRight, AcceptRight, IdleRight
<1>3. /\ conn' \in [Sessions -> Connection] /\ tx \in [Sessions -> Transfer]
      /\ clients' \in [Slots -> ServerClient]
      /\ content \in [Names -> Payload] /\ content' \in [Names -> Payload]
  BY <1>1 DEF TypeInv, TypeOK, NetTypeOK, ClientTypeOK, ServerTypeOK
<1>4. ASSUME NEW s \in Getters
      PROVE  /\ s \in Sessions /\ NameOf[s] \in Names
             /\ ~Segmented => Becomes(s, content[NameOf[s]], NameOf[s] \in stored,
                                      content'[NameOf[s]], NameOf[s] \in stored')
  <2>1. s \in Sessions /\ NameOf[s] \in Names
    BY ClientAssumption
  <2> QED
    BY <2>1, FilesBecome DEF Becomes, Whole
<1>5. ASSUME NEW s \in Getters
      PROVE  GetterSide(s, conn'[s], tx'[s], content'[NameOf[s]], NameOf[s] \in stored')
  <2> DEFINE c == conn'[s]
             t == tx[s]
             f == content[NameOf[s]]
             g == content'[NameOf[s]]
             there == NameOf[s] \in stored
             after == NameOf[s] \in stored'
  <2>1. /\ c \in Connection /\ t \in Transfer /\ f \in Payload /\ g \in Payload
        /\ there \in BOOLEAN /\ after \in BOOLEAN
    BY <1>3, <1>4
  <2>2. GetterSide(s, c, t, f, there)
    BY <1>2 DEF StillRight, Right
  <2>3. ~Segmented => Becomes(s, f, there, g, after)
    BY <1>4
  <2> HIDE DEF c, t, f, g, there, after
  <2>4. GetterSide(s, c, t, g, after)
    BY <2>1, <2>2, <2>3, GetterStays
  <2> QED
    BY <1>1, <2>4 DEF c, t, g, after
<1>6. ASSUME NEW i \in Slots, clients'[i].connected, clients'[i].client_socket \in Getters
      PROVE  LET s == clients'[i].client_socket
             IN  SlotSide(s, clients'[i], conn'[s], tx'[s],
                          content'[NameOf[s]], NameOf[s] \in stored')
  <2> DEFINE s == clients'[i].client_socket
             cl == clients'[i]
             c == conn'[s]
             t == tx[s]
             f == content[NameOf[s]]
             g == content'[NameOf[s]]
             there == NameOf[s] \in stored
             after == NameOf[s] \in stored'
  <2>0. s \in Getters /\ cl \in ServerClient
    BY <1>3, <1>6
  <2>1. /\ c \in Connection /\ t \in Transfer /\ f \in Payload /\ g \in Payload
        /\ there \in BOOLEAN /\ after \in BOOLEAN
    BY <1>3, <1>4, <2>0
  <2>2. SlotSide(s, cl, c, t, f, there)
    BY <1>2, <1>6 DEF StillRight, RightSlot
  <2>3. ~Segmented => Becomes(s, f, there, g, after)
    BY <1>4, <2>0
  <2> HIDE DEF c, t, f, g, there, after, s, cl
  <2>4. SlotSide(s, cl, c, t, g, after)
    BY <2>0, <2>1, <2>2, <2>3, SlotStays
  <2> QED
    BY <1>1, <2>4 DEF c, t, g, after, s, cl
<1> QED
  BY <1>2, <1>5, <1>6 DEF FetchInv, StillRight
-----------------------------------------------------------------------------
(* The steps of getFile. *)

\* The numbers of a block and of the acknowledgement of one.
LEMMA WordOf ==
    /\ \A n \in Nat : Word(n) \in Nat /\ Word(n) <= n /\ Word(n) < WordMod
    /\ \A j \in 1 .. WordMod, n \in Nat \ {0} : Word(j) = n => j = n
<1>1. WordMod \in Nat \ {0}
  BY PacketAssumption
<1>2. \A m \in Nat \ {0}, n \in Nat : n % m \in 0 .. m - 1 /\ (n < m => n % m = n) /\ m % m = 0
  OBVIOUS
<1>3. ASSUME NEW n \in Nat PROVE Word(n) \in Nat /\ Word(n) <= n /\ Word(n) < WordMod
  BY <1>1, <1>2 DEF Word
<1>4. ASSUME NEW j \in 1 .. WordMod, NEW n \in Nat \ {0}, Word(j) = n PROVE j = n
  <2>1. CASE j < WordMod
    BY <1>1, <1>2, <1>4, <2>1 DEF Word
  <2>2. CASE j = WordMod
    BY <1>1, <1>2, <1>4, <2>2 DEF Word
  <2> QED
    BY <1>1, <2>1, <2>2
<1> QED
  BY <1>3, <1>4

\* One more packet on its way, all of them older than what is expected by now.
LEMMA PipeSends ==
    ASSUME NEW s, NEW c \in Connection, NEW d \in Connection, NEW p \in Packet,
           NEW last \in Nat, NEW later \in Nat, last <= later,
           \A k \in 1 .. Len(c.up) : c.up[k].data = <<>> /\ AskedBy(s, c.up[k], last),
           p.data = <<>> /\ AskedBy(s, p, later),
           Sends(c, p, d)
    PROVE  \A k \in 1 .. Len(d.up) : d.up[k].data = <<>> /\ AskedBy(s, d.up[k], later)
<1>1. c.up \in Seq(Packet)
  BY DEF Connection
<1>2. \A k \in 1 .. Len(c.up) : c.up[k].data = <<>> /\ AskedBy(s, c.up[k], later)
  BY <1>1, AskedLater
<1>3. CASE d.up = c.up
  BY <1>2, <1>3
<1>4. CASE d.up = Append(c.up, p)
  <2>1. \A k \in 1 .. Len(d.up) :
           d.up[k] = p \/ (k \in 1 .. Len(c.up) /\ d.up[k] = c.up[k])
    BY <1>1, <1>4
  <2> QED
    BY <1>2, <2>1
<1> QED
  BY <1>3, <1>4 DEF Sends

\* A step of getFile: its counter, and what it has sent so far.
LEMMA PipeTurns ==
    ASSUME NEW s \in Getters, NEW c \in Connection, NEW d \in Connection,
           NEW t \in Transfer, NEW u \in Transfer,
           GetterPipe(s, c, t), GetterTurns(s, c, t, d, u)
    PROVE  /\ GetterPipe(s, d, u)
           /\ t.last_packet_no <= u.last_packet_no
           /\ d.cli = "open" => c.cli = "open" \/ (t.at = "idle" /\ running)
<1> DEFINE last == t.last_packet_no
<1>1. /\ last \in Nat /\ u.last_packet_no \in Nat /\ t.packet_ack \in Packet
      /\ NameOf[s] \in Names
      /\ t.at \in {"idle", "connected", "waiting", "closing", "done", "spinning"}
      /\ 0 \in Nat /\ 1 \in Nat /\ last + 1 \in Nat /\ 0 <= 1 /\ last <= last /\ last <= last + 1
  BY ClientAssumption DEF Transfer
<1>2. CASE Opens(c, t, d, u)
  BY <1>1, <1>2 DEF Opens, GetterPipe, Same
<1>3. CASE Asks(s, c, t, d, u)
  <2> DEFINE p == createRRQ(NameOf[s])
  <2>1. p \in Packet /\ p.data = <<>> /\ AskedBy(s, p, 1)
    BY <1>1, PacketTypes DEF createRRQ, AskedBy, Cleared
  <2>2. last = 0 /\ \A k \in 1 .. Len(c.up) : c.up[k].data = <<>> /\ AskedBy(s, c.up[k], last)
    BY <1>3 DEF Asks, GetterPipe
  <2>3. Sends(c, p, d)
    BY <1>3 DEF Asks
  <2> HIDE DEF p
  <2>4. \A k \in 1 .. Len(d.up) : d.up[k].data = <<>> /\ AskedBy(s, d.up[k], 1)
    BY <1>1, <2>1, <2>2, <2>3, PipeSends
  <2>5. u.packet_ack.op # "NONE" =>
           u.packet_ack.data = <<>> /\ AskedBy(s, u.packet_ack, 1)
    BY <1>1, <1>3, <2>2, AskedLater DEF Asks, GetterPipe
  <2> QED
    BY <1>1, <1>3, <2>2, <2>3, <2>4, <2>5 DEF Asks, GetterPipe, Sends
<1>4. CASE Takes(c, t, d, u)
  <2> DEFINE p == createACK(last)
  <2>1. p \in Packet /\ p.data = <<>> /\ AskedBy(s, p, last + 1)
    <3>1. p.data = <<>> /\ p.op = "ACK" /\ p.num = Word(last)
      BY DEF createACK, Cleared
    <3>2. Word(last) < last + 1 /\ Word(last) < WordMod
      BY <1>1, WordOf
    <3> QED
      BY <1>1, <3>1, <3>2, PacketTypes DEF AskedBy
  <2>2. \A k \in 1 .. Len(c.up) : c.up[k].data = <<>> /\ AskedBy(s, c.up[k], last)
    BY DEF GetterPipe
  <2>3. /\ Sends(c, p, d) /\ t.at = "waiting"
        /\ u.last_packet_no = last + 1 /\ u.packet_ack = p
        /\ u.at = "closing" \/ (u.at = "waiting" /\ u.result = t.result)
    BY <1>4 DEF Takes
  <2> HIDE DEF p
  <2>4. \A k \in 1 .. Len(d.up) : d.up[k].data = <<>> /\ AskedBy(s, d.up[k], last + 1)
    BY <1>1, <2>1, <2>2, <2>3, PipeSends
  <2> QED
    BY <1>1, <2>1, <2>3, <2>4 DEF GetterPipe, Sends
<1>5. CASE Overflows(c, t, d, u)
  <2>1. c.up \in Seq(Packet)
    BY DEF Connection
  <2>2. u.last_packet_no = last + 1 /\ last + 1 \in Nat /\ last <= last + 1 /\ d.up = c.up
    BY <1>1, <1>5 DEF Overflows
  <2>3. \A k \in 1 .. Len(d.up) : d.up[k].data = <<>> /\ AskedBy(s, d.up[k], last + 1)
    BY <1>1, <2>1, <2>2, AskedLater DEF GetterPipe
  <2>4. u.packet_ack.op # "NONE" =>
           u.packet_ack.data = <<>> /\ AskedBy(s, u.packet_ack, last + 1)
    BY <1>1, <1>5, <2>2, AskedLater DEF Overflows, GetterPipe
  <2> QED
    BY <1>1, <1>5, <2>2, <2>3, <2>4 DEF Overflows, GetterPipe
<1>6. CASE Repeats(c, t, d, u)
  <2> DEFINE p == t.packet_ack
  <2>1. p \in Packet /\ p.data = <<>> /\ AskedBy(s, p, last)
    BY <1>1, <1>6 DEF Repeats, GetterPipe
  <2>2. \A k \in 1 .. Len(c.up) : c.up[k].data = <<>> /\ AskedBy(s, c.up[k], last)
    BY DEF GetterPipe
  <2>3. Sends(c, p, d)
    BY <1>6 DEF Repeats
  <2>4. \A k \in 1 .. Len(d.up) : d.up[k].data = <<>> /\ AskedBy(s, d.up[k], last)
    BY <1>1, <2>1, <2>2, <2>3, PipeSends
  <2> QED
    BY <1>1, <1>6, <2>3, <2>4 DEF Repeats, GetterPipe, Sends, Same
<1>7. CASE Rests(c, t, d, u)
  BY <1>1, <1>7 DEF Rests, GetterPipe, Same
<1> QED
  BY <1>2, <1>3, <1>4, <1>5, <1>6, <1>7 DEF GetterTurns

\* Packets on their way stay what they are, whichever of them are left.
LEMMA FewerHeard ==
    ASSUME ~Segmented, NEW s, NEW f, NEW there, NEW q \in Seq(Packet), NEW w,
           w \in {q, <<>>} \cup {r.rest : r \in Reads(q)},
           \A k \in 1 .. Len(q) : Hearable(s, q[k], f, there)
    PROVE  \A k \in 1 .. Len(w) : Hearable(s, w[k], f, there)
<1>1. CASE w = q
  BY <1>1
<1>2. CASE w = <<>>
  BY <1>2
<1>3. ASSUME NEW r \in Reads(q), w = r.rest
      PROVE  \A k \in 1 .. Len(w) : Hearable(s, w[k], f, there)
  <2>1. q # <<>> /\ w = Tail(q)
    BY <1>3, WholeReads
  <2>2. Len(w) = Len(q) - 1 /\ Len(q) \in Nat /\ \A k \in 1 .. Len(q) - 1 : w[k] = q[k + 1]
    BY <2>1
  <2> QED
    BY <2>2
<1> QED
  BY <1>1, <1>2, <1>3

\* getFile appends the block it expects.
LEMMA TakesRight ==
    ASSUME ~Segmented, NEW s \in Getters, NEW c \in Connection, NEW d \in Connection,
           NEW t \in Transfer, NEW u \in Transfer, NEW f \in Payload, NEW there \in BOOLEAN,
           GetterPipe(s, c, t), GetterHears(s, c, t, f, there), Takes(c, t, d, u)
    PROVE  GetterHears(s, d, u, f, there)
<1> DEFINE last == t.last_packet_no
           size == DataCells
           low == (last - 1) * size
<1>1. /\ c.down \in Seq(Packet) /\ f \in Seq(Cell \cup {HeaderCell}) /\ size \in Nat
      /\ last \in Nat \ {0} /\ Len(f) \in Nat
  BY PacketAssumption DEF Connection, Transfer, Payload, Takes, GetterPipe
<1>2. PICK r \in Reads(c.down) :
          /\ ~isError(r.pkt)
          /\ getNumber(r.pkt) = last
          /\ d.down = r.rest
          /\ u.last_packet_no = last + 1
          /\ u.file = t.file \o r.pkt.data
          /\ IF Len(r.pkt.data) < size
             THEN u.at = "closing" /\ u.result = "ok"
             ELSE u.at = "waiting" /\ u.result = t.result /\ Len(r.pkt.data) = size
  BY DEF Takes
<1>3. c.down # <<>> /\ r.pkt = c.down[1] /\ 1 \in 1 .. Len(c.down)
  <2>1. c.down # <<>> /\ r.pkt = Head(c.down)
    BY <1>1, <1>2, WholeReads
  <2> QED
    BY <1>1, <2>1
<1>4. there /\ \E j \in 1 .. WordMod : DataOf(s, f, j, r.pkt)
  BY <1>2, <1>3 DEF GetterHears, Hearable
<1>5. PICK j \in 1 .. WordMod : DataOf(s, f, j, r.pkt)
  BY <1>4
<1>6. j = last
  <2>1. r.pkt.op = "DATA" /\ r.pkt.num = Word(j)
    BY <1>5 DEF DataOf
  <2>2. getNumber(r.pkt) = Word(j)
    BY <2>1 DEF getNumber, isData
  <2> QED
    BY <1>1, <1>2, <2>2, WordOf
<1> DEFINE data == r.pkt.data
           len == Len(data)
           high == low + len
<1>7. low \in Nat /\ last * size = low + size /\ ((last + 1) - 1) * size = low + size
  <2>1. \A n, m \in Nat : n # 0 =>
           (n - 1) * m \in Nat /\ n * m = (n - 1) * m + m /\ ((n + 1) - 1) * m = (n - 1) * m + m
    OBVIOUS
  <2> QED
    BY <1>1, <2>1
<1>8. /\ data \in Payload /\ len \in Nat
      /\ len <= size /\ high <= Len(f) /\ data = SubSeq(f, low + 1, high)
      /\ Whole(s) /\ len < size => high = Len(f)
  <2>1. r.pkt \in Packet
    BY <1>1, <1>2, ReadsType
  <2>2. data \in Payload /\ len \in Nat
    BY <2>1 DEF Packet, Payload
  <2> QED
    BY <1>5, <1>6, <2>2 DEF DataOf, Chunk
<1>9. t.at = "waiting" /\ t.file = SubSeq(f, 1, low) /\ t.result # "ok"
  BY DEF Takes, GetterHears, GetterPipe
<1> HIDE DEF data, len, low, last, size
<1>10. u.file = SubSeq(f, 1, high) /\ high \in Nat
  <2>1. low <= high /\ high \in Nat /\ len = high - low /\ len \in 0 .. high - low
    BY <1>7, <1>8
  <2> HIDE DEF high
  <2>2. SubSeq(f, 1, low) \o SubSeq(SubSeq(f, low + 1, high), 1, len) = SubSeq(f, 1, low + len)
    BY <1>1, <1>7, <1>8, <2>1, Pieces
  <2>3. \A x \in Payload : SubSeq(x, 1, Len(x)) = x
    BY DEF Payload
  <2>4. SubSeq(data, 1, len) = data
    BY <1>8, <2>3 DEF len
  <2>5. u.file = t.file \o data
    BY <1>2 DEF data
  <2>6. u.file = SubSeq(f, 1, low) \o data
    BY <1>9, <2>5
  <2>7. SubSeq(SubSeq(f, low + 1, high), 1, len) = data
    BY <1>8, <2>4
  <2> QED
    BY <2>1, <2>2, <2>6, <2>7 DEF high
<1> HIDE DEF high
<1>11. IsPrefix(u.file, f)
  <2>1. \A x \in Seq(Cell \cup {HeaderCell}) : \A n \in Nat : n <= Len(x) =>
           /\ Len(SubSeq(x, 1, n)) = n
           /\ SubSeq(SubSeq(x, 1, n), 1, n) = SubSeq(x, 1, n)
    OBVIOUS
  <2>2. Len(u.file) = high /\ SubSeq(u.file, 1, high) = SubSeq(f, 1, high)
    BY <1>1, <1>8, <1>10, <2>1
  <2> QED
    BY <1>1, <1>8, <1>10, <2>2 DEF IsPrefix
<1>12. \A k \in 1 .. Len(d.down) : Hearable(s, d.down[k], f, there)
  <2>1. /\ \A k \in 1 .. Len(c.down) : Hearable(s, c.down[k], f, there)
        /\ d.down \in {c.down, <<>>} \cup {q.rest : q \in Reads(c.down)}
    BY <1>2 DEF GetterHears
  <2> QED
    BY <1>1, <2>1, FewerHeard
<1>13. CASE len < size
  <2>1. u.at = "closing" /\ u.result = "ok"
    BY <1>2, <1>13 DEF len, data, size
  <2>2. Whole(s) => u.file = f
    <3>1. \A x \in Seq(Cell \cup {HeaderCell}) : SubSeq(x, 1, Len(x)) = x
      OBVIOUS
    <3> QED
      BY <1>1, <1>8, <1>10, <1>13, <3>1
  <2> QED
    BY <1>4, <1>11, <1>12, <2>1, <2>2 DEF GetterHears
<1>14. CASE ~(len < size)
  <2>1. u.at = "waiting" /\ u.result # "ok" /\ len = size
    BY <1>2, <1>9, <1>14 DEF len, data, size
  <2>2. high = low + size
    BY <2>1 DEF high
  <2>3. /\ (u.last_packet_no - 1) * DataCells = high
        /\ high <= Len(f)
    BY <1>2, <1>7, <1>8, <2>2 DEF size, last
  <2> QED
    BY <1>4, <1>10, <1>11, <1>12, <2>1, <2>3 DEF GetterHears
<1> QED
  BY <1>13, <1>14

\* A step of getFile: the file it writes, and what is on its way to it.
LEMMA HearsTurns ==
    ASSUME ~Segmented, NEW s \in Getters, NEW c \in Connection, NEW d \in Connection,
           NEW t \in Transfer, NEW u \in Transfer, NEW f \in Payload, NEW there \in BOOLEAN,
           GetterPipe(s, c, t), GetterHears(s, c, t, f, there), GetterTurns(s, c, t, d, u)
    PROVE  GetterHears(s, d, u, f, there)
<1>1. c.down \in Seq(Packet) /\ f \in Seq(Cell \cup {HeaderCell}) /\ Len(f) \in Nat
  BY DEF Connection, Payload
<1>2. \A k \in 1 .. Len(c.down) : Hearable(s, c.down[k], f, there)
  BY DEF GetterHears
<1>3. CASE Opens(c, t, d, u)
  BY <1>2, <1>3 DEF Opens, GetterHears, Same
<1>4. CASE Asks(s, c, t, d, u)
  <2>1. (1 - 1) * DataCells = 0 /\ SubSeq(f, 1, 0) = <<>>
    BY <1>1, PacketAssumption
  <2>2. /\ t.file = <<>> /\ IsPrefix(t.file, f) /\ t.result # "ok"
        /\ u.at = "waiting" /\ u.last_packet_no = 1
        /\ u.file = t.file /\ u.result = t.result /\ d.down = c.down
    BY <1>4 DEF Asks, GetterHears, GetterPipe
  <2> QED
    BY <1>1, <1>2, <2>1, <2>2 DEF GetterHears
<1>5. CASE Takes(c, t, d, u)
  BY <1>5, TakesRight
<1>6. CASE Overflows(c, t, d, u)
  <2>1. PICK r \in Reads(c.down) : ~isError(r.pkt) /\ ~copyDataFits(r.pkt, DataCells)
    BY <1>6 DEF Overflows
  <2>2. c.down # <<>> /\ r.pkt = c.down[1] /\ 1 \in 1 .. Len(c.down)
    <3>1. c.down # <<>> /\ r.pkt = Head(c.down)
      BY <1>1, <2>1, WholeReads
    <3> QED
      BY <1>1, <3>1
  <2>3. copyDataFits(r.pkt, DataCells)
    BY <1>2, <2>1, <2>2 DEF Hearable, DataOf, Chunk, copyDataFits
  <2> QED
    BY <2>1, <2>3
<1>7. CASE Repeats(c, t, d, u)
  BY <1>2, <1>7 DEF Repeats, GetterHears, Same
<1>8. CASE Rests(c, t, d, u)
  <2>1. \A k \in 1 .. Len(d.down) : Hearable(s, d.down[k], f, there)
    <3>1. d.down \in {c.down, <<>>} \cup {q.rest : q \in Reads(c.down)}
      BY <1>8 DEF Rests
    <3> QED
      BY <1>1, <1>2, <3>1, FewerHeard
  <2> QED
    BY <1>8, <2>1 DEF Rests, GetterHears, Same
<1> QED
  BY <1>3, <1>4, <1>5, <1>6, <1>7, <1>8 DEF GetterTurns
-----------------------------------------------------------------------------
(* Steps of clients and of the network. *)

\* A slot stays right while its client goes on, or closes its end.
LEMMA SlotFollows ==
    ASSUME NEW s, NEW cl \in ServerClient, NEW c \in Connection, NEW d \in Connection,
           NEW t \in Transfer, NEW u \in Transfer, NEW f, NEW there,
           SlotSide(s, cl, c, t, f, there),
           d.cli = "open" => c.cli = "open",
           t.last_packet_no <= u.last_packet_no
    PROVE  SlotSide(s, cl, d, u, f, there)
<1>1. /\ cl.block \in Nat /\ t.last_packet_no \in Nat /\ u.last_packet_no \in Nat
  BY DEF ServerClient, Transfer
<1>2. SlotReads(s, cl, c, t) => SlotReads(s, cl, d, u)
  BY <1>1 DEF SlotReads
<1>3. SlotSends(s, cl, c, f, there) => SlotSends(s, cl, d, f, there)
  BY DEF SlotSends
<1> QED
  BY <1>2, <1>3 DEF SlotSide

\* A step of one session: what it makes of its end decides.
LEMMA SessionFetches ==
    ASSUME SlotsInv, FetchInv, NEW s \in Sessions, NEW u \in Transfer, NEW d \in Connection,
           Move(s, u, d), UNCHANGED serverVars,
           s \in Getters =>
              /\ GetterSide(s, d, u, content[NameOf[s]], NameOf[s] \in stored)
              /\ tx[s].last_packet_no <= u.last_packet_no
              /\ d.cli = "open" => conn[s].cli = "open" \/ (tx[s].at = "idle" /\ running)
    PROVE  FetchInv'
<1>1. /\ clients' = clients /\ content' = content /\ stored' = stored
      /\ conn \in [Sessions -> Connection] /\ tx \in [Sessions -> Transfer]
      /\ clients \in [Slots -> ServerClient]
      /\ conn' = [conn EXCEPT ![s] = d] /\ tx' = [tx EXCEPT ![s] = u]
  BY DEF SlotsInv, TypeInv, TypeOK, NetTypeOK, ClientTypeOK, ServerTypeOK,
         Move, serverVars
<1>2. ASSUME NEW q \in Getters
      PROVE  GetterSide(q, conn'[q], tx'[q], content'[NameOf[q]], NameOf[q] \in stored')
  <2>1. q \in Sessions
    BY ClientAssumption
  <2>2. CASE q = s
    BY <1>1, <2>2
  <2>3. CASE q # s
    <3>1. conn'[q] = conn[q] /\ tx'[q] = tx[q]
      BY <1>1, <2>1, <2>3
    <3> QED
      BY <1>1, <3>1 DEF FetchInv
  <2> QED
    BY <2>2, <2>3
<1>3. ASSUME NEW i \in Slots, clients[i].connected, clients[i].client_socket \in Getters
      PROVE  LET q == clients[i].client_socket
             IN  SlotSide(q, clients[i], conn'[q], tx'[q],
                          content'[NameOf[q]], NameOf[q] \in stored')
  <2> DEFINE q == clients[i].client_socket
             f == content[NameOf[q]]
             there == NameOf[q] \in stored
  <2>1. /\ SlotSide(q, clients[i], conn[q], tx[q], f, there)
        /\ clients[i] \in ServerClient
    BY <1>1, <1>3 DEF FetchInv
  <2>2. q \in Sessions /\ q \in Getters
    BY <1>3, ClientAssumption
  <2>3. CASE q = s
    <3>1. conn'[q] = d /\ tx'[q] = u
      BY <1>1, <2>2, <2>3
    <3>2. ~(tx[s].at = "idle" /\ running)
      BY <1>3, <2>3 DEF SlotsInv, SlotsServeConnections, SlotOwnsConnection, Unopened
    <3>3. conn[s] \in Connection /\ tx[s] \in Transfer
      BY <1>1
    <3> HIDE DEF f, there
    <3>4. SlotSide(q, clients[i], d, u, f, there)
      BY <2>1, <2>2, <2>3, <3>2, <3>3, SlotFollows
    <3> QED
      BY <1>1, <3>1, <3>4 DEF f, there
  <2>4. CASE q # s
    BY <1>1, <2>1, <2>2, <2>4
  <2> QED
    BY <2>3, <2>4
<1> QED
  BY <1>1, <1>2, <1>3 DEF FetchInv

\* Every step of a client.
LEMMA ClientFetches ==
    ASSUME SlotsInv, FetchInv, NEW s \in Sessions, Client(s) \/ Timeout(s)
    PROVE  FetchInv'
<1>1. /\ TypeInv /\ UNCHANGED serverVars /\ (ClientStep(s) \/ TimesOut(s))
      /\ conn \in [Sessions -> Connection] /\ tx \in [Sessions -> Transfer]
      /\ content \in [Names -> Payload] /\ NameOf[s] \in Names
  BY ClientAssumption
     DEF SlotsInv, TypeInv, TypeOK, NetTypeOK, ClientTypeOK, ServerTypeOK, Client, Timeout
<1>2. CASE s \in Getters
  <2>1. PICK u \in Transfer, d \in Connection :
           Move(s, u, d) /\ GetterTurns(s, conn[s], tx[s], d, u)
    BY <1>1, <1>2, EveryGetterTurns
  <2> DEFINE c == conn[s]
             t == tx[s]
             f == content[NameOf[s]]
             there == NameOf[s] \in stored
  <2>2. /\ c \in Connection /\ t \in Transfer /\ f \in Payload /\ there \in BOOLEAN
        /\ GetterSide(s, c, t, f, there) /\ GetterTurns(s, c, t, d, u)
    BY <1>1, <1>2, <2>1 DEF FetchInv
  <2> HIDE DEF c, t, f, there
  <2>3. GetterPipe(s, c, t) /\ (~Segmented => GetterHears(s, c, t, f, there))
    BY <2>2 DEF GetterSide
  <2>4. /\ GetterPipe(s, d, u)
        /\ t.last_packet_no <= u.last_packet_no
        /\ d.cli = "open" => c.cli = "open" \/ (t.at = "idle" /\ running)
    BY <1>2, <2>2, <2>3, PipeTurns
  <2>5. ~Segmented => GetterHears(s, d, u, f, there)
    BY <1>2, <2>2, <2>3, HearsTurns
  <2>6. GetterSide(s, d, u, f, there)
    BY <2>4, <2>5 DEF GetterSide
  <2> QED
    BY <1>1, <2>1, <2>4, <2>6, SessionFetches DEF c, t, f, there
<1>3. CASE s \notin Getters
  <2>1. PICK u \in Transfer, d \in Connection : Move(s, u, d)
    <3>1. connectToServer(s) \/ ConnectFails(s) \/ Uses(s)
      BY <1>1, ClientShape
    <3>2. conn[s] \in Connection /\ tx[s] \in Transfer
      BY <1>1
    <3>3. CASE connectToServer(s)
      <4>1. /\ [tx[s] EXCEPT !.at = "connected"] \in Transfer
            /\ [conn[s] EXCEPT !.cli = "open", !.srv = "backlog"] \in Connection
        BY <3>2 DEF Transfer, Connection
      <4> QED
        BY <3>3, <4>1 DEF connectToServer
    <3>4. CASE ConnectFails(s)
      <4>1. [tx[s] EXCEPT !.at = "done", !.result = "error"] \in Transfer
        BY <3>2 DEF Transfer
      <4>2. Move(s, [tx[s] EXCEPT !.at = "done", !.result = "error"], conn[s])
        BY <1>1, <3>4 DEF ConnectFails, Move, netVars
      <4> QED
        BY <3>2, <4>1, <4>2
    <3>5. CASE Uses(s)
      BY <3>5 DEF Uses
    <3> QED
      BY <3>1, <3>3, <3>4, <3>5
  <2> QED
    BY <1>1, <1>3, <2>1, SessionFetches
<1> QED
  BY <1>2, <1>3

\* A reset, or the end of the server's process.
LEMMA NetworkFetches ==
    ASSUME SlotsInv, FetchInv, NEW s \in Sessions, Network(s)
    PROVE  FetchInv'
<1>1. /\ TypeInv /\ UNCHANGED serverVars /\ tx' = tx
      /\ conn \in [Sessions -> Connection] /\ tx \in [Sessions -> Transfer]
  BY DEF SlotsInv, TypeInv, TypeOK, NetTypeOK, ClientTypeOK, Network
<1> DEFINE c == conn[s]
           t == tx[s]
<1>2. c \in Connection /\ t \in Transfer /\ Cleared \in Packet /\ tx' = [tx EXCEPT ![s] = t]
  BY <1>1, PacketTypes
<1>3. PICK d \in Connection :
          /\ conn' = [conn EXCEPT ![s] = d]
          /\ c.srv # "none" /\ d.cli = c.cli /\ d.up = <<>> /\ d.down = c.down
          /\ d.rst # "no" => c.rst # "no"
  <2>1. CASE ResetArrives(s)
    <3>1. Reset(c) \in Connection
      BY <1>2, ConnectionTypes
    <3>2. /\ Reset(c).cli = c.cli /\ Reset(c).up = <<>> /\ Reset(c).down = c.down
          /\ c.rst = "owed" /\ c.srv = "open"
          /\ conn' = [conn EXCEPT ![s] = Reset(c)]
      BY <1>2, <2>1 DEF ResetArrives, Reset, Connection
    <3> QED
      BY <3>1, <3>2
  <2>2. CASE OsReclaims(s)
    <3> DEFINE closed == ServerCloses(c)
               d == [closed EXCEPT !.lost = TRUE]
    <3>1. /\ closed \in Connection /\ closed.cli = c.cli /\ closed.up = <<>>
          /\ closed.rst = c.rst /\ closed.down = c.down
      BY <1>2, ServerClosesOn
    <3>2. conn' = [conn EXCEPT ![s] = d] /\ c.srv # "none"
      BY <2>2 DEF OsReclaims
    <3> HIDE DEF closed
    <3>3. /\ d \in Connection /\ d.cli = c.cli /\ d.up = <<>>
          /\ d.rst = c.rst /\ d.down = c.down
      BY <3>1 DEF Connection
    <3> HIDE DEF d
    <3> QED
      BY <3>2, <3>3
  <2> QED
    BY <2>1, <2>2 DEF Network
<1>4. t.at # "idle"
  BY <1>3 DEF SlotsInv, Unopened
<1>5. ASSUME s \in Getters
      PROVE  GetterSide(s, d, t, content[NameOf[s]], NameOf[s] \in stored)
  <2> DEFINE f == content[NameOf[s]]
             there == NameOf[s] \in stored
  <2>1. GetterSide(s, c, t, f, there)
    BY <1>5 DEF FetchInv
  <2>2. createError(0) \in Packet /\ Hearable(s, createError(0), f, there)
    BY PacketTypes DEF Hearable, isError, createError, Cleared
  <2>3. \A k \in 1 .. Len(d.up) : \E n \in 1 .. Len(c.up) : d.up[k] = c.up[n]
    BY <1>3
  <2> HIDE DEF f, there, c, t
  <2> QED
    BY <1>2, <1>3, <1>4, <1>5, <2>1, <2>2, <2>3, ServedKeeps DEF f, there
<1>6. t.last_packet_no <= t.last_packet_no
  BY <1>2 DEF Transfer
<1>7. Move(s, t, d)
  BY <1>2, <1>3 DEF Move
<1> QED
  BY <1>1, <1>2, <1>3, <1>5, <1>6, <1>7, SessionFetches

\* The invariant is inductive.
LEMMA FetchStep ==
    ASSUME SlotsInv, ~Segmented => StreamInv, FetchInv, [Next]_vars
    PROVE  FetchInv'
<1>1. CASE Server
  BY <1>1, ServerFetches
<1>2. CASE \E s \in Sessions : Client(s) \/ Timeout(s)
  BY <1>2, ClientFetches
<1>3. CASE \E s \in Sessions : Network(s)
  BY <1>3, NetworkFetches
<1>4. CASE UNCHANGED vars
  BY <1>4 DEF vars, netVars, serverVars, FetchInv
<1> QED
  BY <1>1, <1>2, <1>3, <1>4 DEF Next
-----------------------------------------------------------------------------
(* The theorems. *)

FileInv == SlotsInv /\ (~Segmented => StreamInv) /\ FetchInv

\* It holds together with the invariants of the earlier modules.
LEMMA FileInvInit == Init => FileInv
BY StreamInit, FetchInit, TypeInit, SlotsInit DEF FileInv, SlotsInv

\* And so it stays.
LEMMA FileInvStep == FileInv /\ [Next]_vars => FileInv'
<1> SUFFICES ASSUME FileInv, [Next]_vars PROVE FileInv'
  OBVIOUS
<1>1. SlotsInv'
  BY SlotsStep DEF FileInv
<1>2. ASSUME ~Segmented PROVE StreamInv'
  BY <1>2, StreamStep DEF FileInv
<1>3. FetchInv'
  BY FetchStep DEF FileInv
<1> QED
  BY <1>1, <1>2, <1>3 DEF FileInv

(***************************************************************************)
(* The server moves to a block of a file only when getFile has written all *)
(* that precede it (acknowledgements and the block counter of sendData):   *)
(* for any number of clients, slots and blocks, late timeouts, repeated    *)
(* acknowledgements, any way recv cuts the stream, and a server that may   *)
(* be closed at any time.                                                  *)
(***************************************************************************)
THEOREM OlderAreReceived == Spec => []OlderReceived
<1>1. FileInv => OlderReceived
  <2> SUFFICES ASSUME FileInv, NEW i \in Slots, NEW s \in Getters,
                      Serves(i, s), clients[i].request = "READ", conn[s].cli = "open"
               PROVE  tx[s].last_packet_no >= clients[i].block
    BY DEF OlderReceived
  <2>1. clients[i].connected /\ clients[i].client_socket = s
    BY DEF Serves
  <2>2. clients[i].block <= tx[s].last_packet_no
    BY <2>1 DEF FileInv, FetchInv, SlotSide, SlotReads
  <2>3. clients[i].block \in Nat /\ tx[s].last_packet_no \in Nat
    BY ClientAssumption
       DEF FileInv, SlotsInv, TypeInv, TypeOK, ServerTypeOK, ClientTypeOK,
           ServerClient, Transfer
  <2> QED
    BY <2>2, <2>3
<1> QED
  BY <1>1, FileInvInit, FileInvStep, PTL DEF Spec

(***************************************************************************)
(* What getFile writes is always the beginning of the file the server has, *)
(* and all of it when getFile returns true for a file that was whole: for  *)
(* any files, names shared with masters that store one at the same time,   *)
(* late timeouts, repeated acknowledgements and block numbers that wrap.   *)
(* recv must return whole packets.                                         *)
(***************************************************************************)
THEOREM FilesAreFetched ==
    ASSUME ~Segmented
    PROVE  Spec => []GetFaithful
<1>1. FileInv => GetFaithful
  <2> SUFFICES ASSUME FileInv, NEW s \in Getters
               PROVE  /\ IsPrefix(tx[s].file, content[NameOf[s]])
                      /\ Succeeded(s) /\ NameOf[s] \in InitStored =>
                             tx[s].file = content[NameOf[s]]
    BY DEF GetFaithful
  <2>1. GetterHears(s, conn[s], tx[s], content[NameOf[s]], NameOf[s] \in stored)
    BY DEF FileInv, FetchInv, GetterSide
  <2> QED
    BY <2>1 DEF GetterHears, Whole, Succeeded
<1> QED
  BY <1>1, FileInvInit, FileInvStep, PTL DEF Spec
=============================================================================

------------------------------ MODULE PaceProofs ------------------------------
(***************************************************************************)
(* Theorems about transfers in which nothing is late: client and slot go   *)
(* in lock step, for any number of both and any files.                     *)
(***************************************************************************)
EXTENDS FetchProofs, FiniteSetTheorems

-----------------------------------------------------------------------------
(***************************************************************************)
(* Lock step.  As long as nobody's wait ends while an answer is due, one   *)
(* packet at most is under way between a client and its slot: whoever has  *)
(* sent it waits.  A client that is not accepted yet, or whose request the *)
(* slot has not read, has sent its request at most.                        *)
(***************************************************************************)
Unasked(s, c, t) ==
    /\ c.down = <<>> /\ Len(c.up) <= 1
    /\ t.at = "waiting" <=> c.up # <<>>
    /\ t.last_packet_no = IF s \in Getters THEN Len(c.up) ELSE 0

\* The slot has to send the next block, or waits for the acknowledgement of the
\* last one: that of the block before is an old one, sent again.
PaceRead(cl, c, t) ==
    /\ t.at # "connected"
    /\ t.last_packet_no \in {cl.block, cl.block + 1}
    /\ cl.acknowledged = "OK" =>
          c.up = <<>> /\ c.down = <<>> /\ t.last_packet_no = cl.block + 1
    /\ cl.acknowledged = "WAITING" =>
          /\ c.up = <<>> => t.last_packet_no = cl.block
          /\ c.up # <<>> /\ isACK(c.up[1]) =>
                (c.up[1].num = cl.block <=> t.last_packet_no = cl.block + 1)

AtMostOne(c) == Len(c.up) + Len(c.down) <= 1

PaceWith(s, cl, c, t) ==
    cl.connected /\ c.cli = "open" =>
        /\ AtMostOne(c)
        /\ cl.request = "UNDEFINED" => Unasked(s, c, t)
        /\ cl.request = "READ" => PaceRead(cl, c, t)

PaceAlone(s, c, t) ==
    t.at = "idle" \/ (c.srv = "backlog" /\ c.cli = "open") => Unasked(s, c, t)

PaceInv ==
    /\ \A s \in Sessions : PaceAlone(s, conn[s], tx[s])
    /\ \A i \in Slots :
          LET s == clients[i].client_socket
          IN  clients[i].connected => PaceWith(s, clients[i], conn[s], tx[s])

\* Who waits to be accepted will be, in this turn of the server's loop.
SlotFree ==
    \A s \in Sessions : conn[s].srv = "backlog" => \E i \in Slots : ~clients[i].connected

\* The invariants that pace relies on.
Kept == SlotsInv /\ StreamInv /\ FetchInv /\ running
-----------------------------------------------------------------------------
(* The client's steps. *)

\* What a step of the client s makes of its end, for itself and for its slot.
Paced(s, d, u) ==
    /\ PaceAlone(s, d, u)
    /\ \A i \in Slots : Serves(i, s) => PaceWith(s, clients[i], d, u)

\* The invariants, for one session and the slot that serves it.
LEMMA SessionPace ==
    ASSUME Kept, PaceInv, NEW s \in Sessions
    PROVE  /\ TypeInv /\ tx[s] \in Transfer /\ conn[s] \in Connection
           /\ conn[s].up \in Seq(Packet) /\ conn[s].down \in Seq(Packet)
           /\ tx[s].last_packet_no \in Nat
           /\ SessionOK(s, conn[s], tx[s])
           /\ tx[s].at = "idle" => conn[s].srv = "none"
           /\ PaceAlone(s, conn[s], tx[s])
           /\ s \in Getters \cup Putters /\ (s \in Getters => s \notin Putters)
           /\ \A i \in Slots : Serves(i, s) =>
                 /\ clients[i] \in ServerClient /\ clients[i].connected
                 /\ conn[s].srv = "open"
                 /\ PaceWith(s, clients[i], conn[s], tx[s])
                 /\ SlotCounts(clients[i], conn[s], tx[s])
                 /\ clients[i].request \in {"UNDEFINED", "READ", "WRITE"}
                 /\ clients[i].block \in Nat
                 /\ clients[i].acknowledged \in {"WAITING", "OK"}
<1>1. /\ TypeInv /\ SlotOwnsConnection /\ Unopened /\ CountInv /\ running
  BY DEF Kept, SlotsInv, StreamInv, SlotsServeConnections
<1>2. tx[s] \in Transfer /\ conn[s] \in Connection
  BY <1>1 DEF TypeInv, TypeOK, ClientTypeOK, NetTypeOK
<1>3. /\ conn[s].up \in Seq(Packet) /\ conn[s].down \in Seq(Packet)
      /\ tx[s].last_packet_no \in Nat
  BY <1>2 DEF Connection, Transfer
<1>4. s \in Getters \cup Putters /\ (s \in Getters => s \notin Putters)
  BY ClientAssumption
<1>5. ASSUME NEW i \in Slots, Serves(i, s)
      PROVE  /\ clients[i] \in ServerClient /\ clients[i].connected
             /\ conn[s].srv = "open"
             /\ PaceWith(s, clients[i], conn[s], tx[s])
             /\ SlotCounts(clients[i], conn[s], tx[s])
  <2>1. clients[i] \in ServerClient
    BY <1>1 DEF TypeInv, TypeOK, ServerTypeOK
  <2>2. clients[i].connected /\ clients[i].client_socket = s
    BY <1>5 DEF Serves
  <2>3. conn[s].srv = "open"
    BY <1>1, <2>2 DEF SlotOwnsConnection
  <2>4. PaceWith(s, clients[i], conn[s], tx[s])
    BY <2>2 DEF PaceInv
  <2>5. SlotCounts(clients[i], conn[s], tx[s])
    BY <1>1, <2>2 DEF CountInv
  <2> QED
    BY <2>1, <2>2, <2>3, <2>4, <2>5
<1>6. \A cl \in ServerClient : /\ cl.request \in {"UNDEFINED", "READ", "WRITE"}
                               /\ cl.block \in Nat
                               /\ cl.acknowledged \in {"WAITING", "OK"}
  BY DEF ServerClient
<1> QED
  BY <1>1, <1>2, <1>3, <1>4, <1>5, <1>6 DEF CountInv, Unopened, PaceInv

\* Where one packet is under way at most, and here is one, it is the only one.
LEMMA OnlyOne ==
    ASSUME NEW q \in Seq(Packet), NEW w \in Seq(Packet), q # <<>>, Len(q) + Len(w) <= 1
    PROVE  Len(q) = 1 /\ w = <<>> /\ Tail(q) = <<>> /\ Head(q) = q[1]
<1>1. Len(q) \in Nat /\ Len(q) # 0 /\ Len(w) \in Nat
  OBVIOUS
<1>2. Len(q) = 1 /\ Len(w) = 0
  <2>1. \A a, b \in Nat : a # 0 /\ a + b <= 1 => a = 1 /\ b = 0
    OBVIOUS
  <2> QED
    BY <1>1, <2>1
<1>3. w = <<>>
  BY <1>2
<1>4. Len(Tail(q)) = 0 /\ Tail(q) \in Seq(Packet) /\ Head(q) = q[1]
  BY <1>2
<1>5. Tail(q) = <<>>
  BY <1>4
<1> QED
  BY <1>2, <1>3, <1>4, <1>5

\* A connection is opened, or cannot be.
LEMMA OpenPace ==
    ASSUME Kept, PaceInv, NEW s \in Sessions, connectToServer(s) \/ ConnectFails(s)
    PROVE  \E u, d : Move(s, u, d) /\ Paced(s, d, u)
<1> DEFINE c == conn[s]
           t == tx[s]
<1>1. /\ t \in Transfer /\ c \in Connection /\ t.at = "idle" /\ c.srv = "none"
      /\ TypeInv /\ Unasked(s, c, t)
  BY SessionPace DEF connectToServer, ConnectFails, PaceAlone
<1>2. \A i \in Slots : ~Serves(i, s)
  BY <1>1, SessionPace
<1>3. CASE connectToServer(s)
  <2> DEFINE u == [t EXCEPT !.at = "connected"]
             d == [c EXCEPT !.cli = "open", !.srv = "backlog"]
  <2>1. Move(s, u, d)
    BY <1>3 DEF connectToServer
  <2>2. /\ d.up = c.up /\ d.down = c.down
        /\ u.at = "connected" /\ u.last_packet_no = t.last_packet_no
    BY <1>1 DEF Transfer, Connection
  <2> HIDE DEF u, d
  <2>3. Unasked(s, d, u)
    BY <1>1, <2>2 DEF Unasked
  <2> QED
    BY <1>2, <2>1, <2>3 DEF Paced, PaceAlone
<1>4. CASE ConnectFails(s)
  <2> DEFINE u == [t EXCEPT !.at = "done", !.result = "error"]
  <2>1. tx' = [tx EXCEPT ![s] = u] /\ conn' = conn
    BY <1>4 DEF ConnectFails, netVars
  <2>2. Move(s, u, c)
    BY <1>1, <2>1 DEF Move, TypeInv, TypeOK, NetTypeOK
  <2>3. u.at = "done"
    BY <1>1 DEF Transfer
  <2> HIDE DEF u
  <2> QED
    BY <1>1, <1>2, <2>2, <2>3 DEF Paced, PaceAlone
<1> QED
  BY <1>3, <1>4

\* A connection of which the client has closed its end has no pace to keep.
LEMMA ClosePace ==
    ASSUME Kept, PaceInv, NEW s \in Sessions, ErrorReceived(s) \/ Destructor(s)
    PROVE  \E u, d : Move(s, u, d) /\ Paced(s, d, u)
<1> DEFINE c == conn[s]
           t == tx[s]
<1>1. t \in Transfer /\ c \in Connection /\ (c.rst # "no" => c.cli # "open")
  BY SessionPace DEF SessionOK, EndsAgree
<1>2. PICK h \in Connection, u \in Transfer :
         /\ Move(s, u, ClientCloses(h)) /\ u.at # "idle"
         /\ h.rst # "no" => h.cli # "open"
  <2>1. CASE ErrorReceived(s)
    <3> DEFINE u == [t EXCEPT !.at = "closing", !.result = "error"]
    <3>1. PICK r \in Reads(c.down) : Move(s, u, ClientCloses(Heard(s, r)))
      BY <2>1 DEF ErrorReceived
    <3>2. LET h == Heard(s, r) IN h \in Connection /\ h.rst = c.rst /\ h.cli = c.cli
      BY <3>1, HeardKeeps DEF Kept, SlotsInv
    <3>3. u \in Transfer /\ u.at = "closing"
      BY <1>1 DEF Transfer
    <3> HIDE DEF u
    <3> QED
      BY <1>1, <3>1, <3>2, <3>3
  <2>2. CASE Destructor(s)
    <3> DEFINE u == [t EXCEPT !.at = "done"]
    <3>1. Move(s, u, ClientCloses(c))
      BY <2>2 DEF Destructor
    <3>2. u \in Transfer /\ u.at = "done"
      BY <1>1 DEF Transfer
    <3> HIDE DEF u
    <3> QED
      BY <1>1, <3>1, <3>2
  <2> QED
    BY <2>1, <2>2
<1>3. ClientCloses(h).cli # "open"
  BY <1>2, ClientClosing
<1> QED
  BY <1>2, <1>3 DEF Paced, PaceAlone, PaceWith

\* The request is the first packet; a file that cannot be read is not asked for.
LEMMA AskPace ==
    ASSUME Kept, PaceInv, NEW s \in Sessions,
           SendWRQ(s) \/ SendRRQ(s) \/ SourceUnreadable(s)
    PROVE  \E u, d : Move(s, u, d) /\ Paced(s, d, u)
<1> DEFINE c == conn[s]
           t == tx[s]
<1>1. /\ t \in Transfer /\ c \in Connection /\ c.up \in Seq(Packet) /\ t.at = "connected"
      /\ NameOf[s] \in Names /\ PaceAlone(s, c, t) /\ SessionOK(s, c, t)
  BY SessionPace, ClientAssumption DEF SendWRQ, SendRRQ, SourceUnreadable
<1>2. ASSUME NEW i \in Slots, Serves(i, s), c.cli = "open"
      PROVE  /\ Unasked(s, c, t) /\ clients[i].request = "UNDEFINED" /\ c.srv = "open"
  <2>1. /\ clients[i].connected /\ c.srv = "open" /\ PaceWith(s, clients[i], c, t)
        /\ clients[i].request \in {"UNDEFINED", "READ", "WRITE"}
        /\ SlotCounts(clients[i], c, t)
    BY <1>2, SessionPace
  <2>2. clients[i].client_socket = s
    BY <1>2 DEF Serves
  <2>3. clients[i].request # "READ"
    BY <1>1, <1>2, <2>1 DEF PaceWith, PaceRead
  <2>4. clients[i].request # "WRITE"
    BY <1>1, <2>1 DEF SlotCounts, WritesFor, Begun
  <2> QED
    BY <1>2, <2>1, <2>3, <2>4 DEF PaceWith
<1>3. PICK u \in Transfer, d \in Connection :
         /\ Move(s, u, d) /\ u.at # "idle" /\ d.srv = c.srv /\ d.cli = c.cli
         /\ c.srv # "closed" /\ Unasked(s, c, t) => Unasked(s, d, u)
  <2>1. CASE SourceUnreadable(s)
    <3> DEFINE u == [t EXCEPT !.at = "closing", !.result = "error"]
    <3>1. Move(s, u, c)
      BY <2>1 DEF SourceUnreadable
    <3>2. u \in Transfer /\ u.at = "closing" /\ u.last_packet_no = t.last_packet_no
      BY <1>1 DEF Transfer
    <3> HIDE DEF u
    <3>3. Unasked(s, c, t) => Unasked(s, c, u)
      BY <1>1, <3>2 DEF Unasked
    <3> QED
      BY <1>1, <3>1, <3>2, <3>3
  <2>2. CASE SendWRQ(s) \/ SendRRQ(s)
    <3> DEFINE first == IF s \in Getters THEN createRRQ(NameOf[s]) ELSE createWRQ(NameOf[s])
               u == [t EXCEPT !.at = "waiting",
                              !.last_packet_no = IF s \in Getters THEN 1 ELSE @]
               d == ClientSends(c, first)
    <3>1. Move(s, u, d)
      <4>1. CASE SendRRQ(s)
        BY <4>1 DEF SendRRQ
      <4>2. CASE SendWRQ(s)
        <5>1. s \notin Getters
          BY <4>2, ClientAssumption DEF SendWRQ
        <5>2. u = [t EXCEPT !.at = "waiting"]
          BY <1>1, <5>1 DEF Transfer
        <5> QED
          BY <4>2, <5>1, <5>2 DEF SendWRQ
      <4> QED
        BY <2>2, <4>1, <4>2
    <3>2. /\ u \in Transfer /\ u.at = "waiting"
          /\ u.last_packet_no = IF s \in Getters THEN 1 ELSE t.last_packet_no
      BY <1>1 DEF Transfer
    <3>3. first \in Packet /\ first.op # "NONE"
      <4>1. first \in Packet
        BY <1>1, PacketTypes
      <4> QED
        BY <4>1 DEF createRRQ, createWRQ, Cleared
    <3> HIDE DEF u, first
    <3>4. /\ d \in Connection /\ d.srv = c.srv /\ d.cli = c.cli
          /\ c.srv # "closed" => d.up = Append(c.up, first)
      BY <1>1, <3>3, ClientSending
    <3>5. d.down = c.down
      BY <1>1, <3>3, SendsOn
    <3> HIDE DEF d
    <3>6. ASSUME c.srv # "closed", Unasked(s, c, t) PROVE Unasked(s, d, u)
      <4>1. c.up = <<>> /\ c.down = <<>>
        BY <1>1, <3>6 DEF Unasked
      <4>2. d.up = <<first>>
        BY <3>4, <3>6, <4>1
      <4>3. Len(d.up) = 1 /\ d.up # <<>>
        BY <4>2
      <4> QED
        BY <3>2, <3>5, <3>6, <4>1, <4>3 DEF Unasked
    <3> QED
      BY <3>1, <3>2, <3>4, <3>6
  <2> QED
    BY <2>1, <2>2
<1>4. PaceAlone(s, d, u)
  BY <1>1, <1>3 DEF PaceAlone
<1>5. ASSUME NEW i \in Slots, Serves(i, s) PROVE PaceWith(s, clients[i], d, u)
  <2>1. CASE d.cli = "open"
    <3>1. Unasked(s, d, u) /\ clients[i].request = "UNDEFINED"
      BY <1>2, <1>3, <1>5, <2>1
    <3>2. Len(d.up) + Len(d.down) <= 1
      BY <3>1 DEF Unasked
    <3> QED
      BY <3>1, <3>2 DEF PaceWith, AtMostOne
  <2> QED
    BY <2>1 DEF PaceWith
<1> QED
  BY <1>3, <1>4, <1>5 DEF Paced

\* The server has closed its end: nobody's slot serves the session.
LEMMA LostPace ==
    ASSUME Kept, PaceInv, NEW s \in Sessions, ClientStep(s),
           PutConnectionLost(s) \/ GetConnectionLost(s)
    PROVE  \E u, d : Move(s, u, d) /\ Paced(s, d, u)
<1>1. /\ conn[s] \in Connection /\ tx[s] \in Transfer /\ TypeInv
      /\ conn[s].srv = "closed" /\ tx[s].at # "idle"
  BY SessionPace
     DEF PutConnectionLost, GetConnectionLost, PutWaits, GetWaits, ServerGone
<1>2. \A i \in Slots : ~Serves(i, s)
  BY <1>1, SessionPace
<1>3. connectToServer(s) \/ ConnectFails(s) \/ Uses(s)
  BY <1>1, ClientShape
<1>4. Uses(s)
  BY <1>1, <1>3 DEF connectToServer, ConnectFails
<1>5. PICK u \in Transfer, d \in Connection :
         Move(s, u, d) /\ u.at # "idle" /\ d.srv = "closed"
  BY <1>1, <1>4 DEF Uses
<1> QED
  BY <1>2, <1>5 DEF Paced, PaceAlone

\* sendFile sends the next block where nothing is under way.
LEMMA PutPace ==
    ASSUME Kept, PaceInv, NEW s \in Putters, PutWaits(s), conn[s].srv # "backlog",
           NEW c \in Connection, c.srv = conn[s].srv, c.cli = conn[s].cli,
           \A i \in Slots : Serves(i, s) =>
               clients[i].request = "WRITE" /\ c.up = <<>> /\ c.down = <<>>,
           SendNextData(s, c)
    PROVE  \E u, d : Move(s, u, d) /\ Paced(s, d, u)
<1> DEFINE t == tx[s]
           n == t.last_packet_no + 1
           p == createData(n, ChunkOf(SourceOf[s], n))
           eof == EndsAt(SourceOf[s], n)
           u == [t EXCEPT !.last_packet_no = n,
                          !.at = IF eof THEN "closing" ELSE @,
                          !.result = IF eof THEN "ok" ELSE @]
           d == ClientSends(c, p)
<1>1. s \in Sessions /\ SourceOf[s] \in Seq(Cell)
  BY ClientAssumption
<1>2. t \in Transfer /\ t.at = "waiting" /\ n \in Nat \ {0}
  BY <1>1, SessionPace DEF PutWaits
<1>3. Move(s, u, d)
  BY DEF SendNextData, SendData
<1>4. u.at # "idle"
  BY <1>2 DEF Transfer
<1>5. p \in Packet
  BY <1>1, <1>2, ChunkType, PacketTypes
<1> HIDE DEF u, p
<1>6. Sends(c, p, d) /\ d.down = c.down
  BY <1>5, SendsOn
<1> HIDE DEF d
<1>7. ASSUME NEW i \in Slots, Serves(i, s) PROVE PaceWith(s, clients[i], d, u)
  <2>1. clients[i].request = "WRITE" /\ c.up = <<>> /\ c.down = <<>>
    BY <1>7
  <2>2. Len(d.down) = 0
    BY <1>6, <2>1
  <2>3. Len(d.up) + Len(d.down) <= 1
    <3>1. CASE d.up = <<>>
      BY <2>2, <3>1
    <3>2. CASE d.up = Append(c.up, p)
      <4>1. d.up = <<p>>
        BY <2>1, <3>2
      <4>2. Len(d.up) = 1
        BY <4>1
      <4> QED
        BY <2>2, <4>2
    <3> QED
      BY <1>6, <2>1, <3>1, <3>2 DEF Sends
  <2> QED
    BY <2>1, <2>3 DEF PaceWith, AtMostOne
<1>8. PaceAlone(s, d, u)
  BY <1>4, <1>6 DEF PaceAlone, Sends
<1> QED
  BY <1>3, <1>7, <1>8 DEF Paced

\* What arrives at the client is all there was under way.
LEMMA HeardAll ==
    ASSUME Kept, PaceInv, ~Segmented, NEW s \in Sessions, tx[s].at = "waiting",
           NEW r \in Reads(conn[s].down)
    PROVE  /\ conn[s].srv # "backlog" /\ conn[s].cli = "open"
           /\ conn[s].down # <<>> /\ r.pkt = conn[s].down[1]
           /\ 1 \in 1 .. Len(conn[s].down)
           /\ \A i \in Slots : Serves(i, s) =>
                 /\ clients[i].request \in {"READ", "WRITE"}
                 /\ clients[i].request = "WRITE" <=> s \in Putters
                 /\ clients[i].request = "READ" =>
                       clients[i].acknowledged = "WAITING"
                           /\ tx[s].last_packet_no = clients[i].block
                 /\ conn[s].up = <<>> /\ r.rest = <<>>
<1> DEFINE c == conn[s]
           t == tx[s]
<1>1. /\ c.up \in Seq(Packet) /\ c.down \in Seq(Packet)
      /\ PaceAlone(s, c, t) /\ SessionOK(s, c, t)
      /\ s \in Getters \cup Putters /\ (s \in Getters => s \notin Putters)
  BY SessionPace
<1>2. c.cli = "open"
  BY <1>1 DEF SessionOK, EndsAgree
<1>3. c.down # <<>> /\ r.pkt = Head(c.down) /\ r.rest = Tail(c.down)
  BY <1>1, WholeReads
<1>4. r.pkt = c.down[1] /\ 1 \in 1 .. Len(c.down)
  BY <1>1, <1>3
<1>5. c.srv # "backlog"
  BY <1>1, <1>2, <1>3 DEF PaceAlone, Unasked
<1>6. ASSUME NEW i \in Slots, Serves(i, s)
      PROVE  /\ clients[i].request \in {"READ", "WRITE"}
             /\ clients[i].request = "WRITE" <=> s \in Putters
             /\ clients[i].request = "READ" =>
                   clients[i].acknowledged = "WAITING"
                       /\ t.last_packet_no = clients[i].block
             /\ c.up = <<>> /\ r.rest = <<>>
  <2> DEFINE cl == clients[i]
  <2>1. /\ cl.connected /\ PaceWith(s, cl, c, t) /\ SlotCounts(cl, c, t)
        /\ cl.request \in {"UNDEFINED", "READ", "WRITE"}
        /\ cl.acknowledged \in {"WAITING", "OK"} /\ cl.client_socket = s
    BY <1>6, SessionPace DEF Serves
  <2> HIDE DEF cl, c, t
  <2>2. Len(c.up) + Len(c.down) <= 1 /\ cl.request # "UNDEFINED"
        /\ (cl.request = "READ" => PaceRead(cl, c, t))
    BY <1>2, <1>3, <2>1 DEF PaceWith, Unasked, AtMostOne
  <2>3. c.up = <<>> /\ Tail(c.down) = <<>>
    <3>1. Len(c.up) \in Nat /\ Len(c.down) \in Nat
      BY <1>1 DEF c
    <3>2. \A a, b \in Nat : a + b <= 1 => b + a <= 1
      OBVIOUS
    <3>3. Len(c.down) + Len(c.up) <= 1
      BY <2>2, <3>1, <3>2
    <3> QED
      BY <1>1, <1>3, <3>3, OnlyOne DEF c
  <2>4. /\ cl.request = "WRITE" => s \in Putters
        /\ cl.request = "READ" => s \in Getters
    BY <2>1 DEF SlotCounts, WritesFor, ReadsFor
  <2>5. cl.request = "READ" => cl.acknowledged = "WAITING" /\ t.last_packet_no = cl.block
    BY <1>3, <2>1, <2>2, <2>3 DEF PaceRead
  <2> QED
    BY <1>1, <1>3, <2>1, <2>2, <2>3, <2>4, <2>5 DEF cl, t, c
<1> QED
  BY <1>2, <1>3, <1>4, <1>5, <1>6

\* A packet that sendFile hears is an answer: it sends the next block.
LEMMA PutHears ==
    ASSUME Kept, PaceInv, ~Segmented, NEW s \in Sessions, PutAnswered(s)
    PROVE  \E u, d : Move(s, u, d) /\ Paced(s, d, u)
<1>1. s \in Putters /\ PutWaits(s) /\ tx[s].at = "waiting"
  BY DEF PutAnswered, PutWaits
<1>2. PICK r \in Reads(conn[s].down) : SendNextData(s, Heard(s, r))
  BY DEF PutAnswered
<1> DEFINE c == Heard(s, r)
<1>3. /\ c \in Connection /\ c.down = r.rest /\ c.up = conn[s].up
      /\ c.cli = conn[s].cli /\ c.srv = conn[s].srv
  BY <1>2, HeardKeeps DEF Kept, SlotsInv
<1>4. /\ conn[s].srv # "backlog"
      /\ \A i \in Slots : Serves(i, s) =>
            clients[i].request = "WRITE" /\ conn[s].up = <<>> /\ r.rest = <<>>
  BY <1>1, <1>2, HeardAll
<1> HIDE DEF c
<1> QED
  BY <1>1, <1>2, <1>3, <1>4, PutPace DEF c

\* getFile takes the block it expects, drops another packet, or sends its last
\* packet again where nothing is under way.
InPace(cl, c, t, d, u) ==
    \/ Takes(c, t, d, u)
    \/ Rests(c, t, d, u)
    \/ Repeats(c, t, d, u) /\ c.up = <<>> /\ c.down = <<>> /\ cl.acknowledged = "WAITING"

\* Whichever of the three it is, getFile stays in pace with a slot that reads.
LEMMA GetterPace ==
    ASSUME ~Segmented, NEW s \in Getters, NEW cl \in ServerClient,
           NEW c \in Connection, NEW d \in Connection,
           NEW t \in Transfer, NEW u \in Transfer, NEW f \in Payload, NEW there \in BOOLEAN,
           GetterPipe(s, c, t), GetterHears(s, c, t, f, there),
           t.at = "waiting", c.cli = "open", c.srv = "open",
           AtMostOne(c), PaceRead(cl, c, t), InPace(cl, c, t, d, u)
    PROVE  AtMostOne(d) /\ PaceRead(cl, d, u)
<1>1. /\ c.up \in Seq(Packet) /\ c.down \in Seq(Packet)
      /\ d.up \in Seq(Packet) /\ d.down \in Seq(Packet)
      /\ cl.block \in Nat /\ t.last_packet_no \in Nat \ {0}
      /\ cl.acknowledged \in {"WAITING", "OK"}
  BY DEF Connection, Transfer, ServerClient, GetterPipe
<1>2. Len(c.up) \in Nat /\ Len(c.down) \in Nat /\ Len(d.up) \in Nat /\ Len(d.down) \in Nat
  BY <1>1
<1>3. CASE Takes(c, t, d, u)
  <2> DEFINE last == t.last_packet_no
  <2>1. PICK r \in Reads(c.down) :
          /\ ~isError(r.pkt)
          /\ getNumber(r.pkt) = last
          /\ Sends(c, createACK(last), d) /\ d.down = r.rest
          /\ u.last_packet_no = last + 1
          /\ u.at \in {"closing", "waiting"}
    BY <1>3 DEF Takes
  <2>2. c.down # <<>> /\ r.pkt = Head(c.down) /\ r.rest = Tail(c.down)
    BY <1>1, <2>1, WholeReads
  <2>3. c.up = <<>> /\ d.down = <<>> /\ r.pkt = c.down[1] /\ 1 \in 1 .. Len(c.down)
    <3>1. \A a, b \in Nat : a + b <= 1 => b + a <= 1
      OBVIOUS
    <3>2. Len(c.down) + Len(c.up) <= 1
      BY <1>2, <3>1 DEF AtMostOne
    <3>3. c.up = <<>> /\ Tail(c.down) = <<>>
      BY <1>1, <2>2, <3>2, OnlyOne
    <3> QED
      BY <1>1, <2>1, <2>2, <3>3
  <2>4. last < WordMod
    <3>1. PICK j \in 1 .. WordMod : DataOf(s, f, j, r.pkt)
      BY <2>1, <2>3 DEF GetterHears, Hearable
    <3>2. getNumber(r.pkt) = Word(j) /\ j \in Nat
      BY <3>1, PacketAssumption DEF DataOf, getNumber, isData
    <3> QED
      BY <2>1, <3>2, WordOf
  <2>5. Word(last) = last
    <3>1. \A m \in Nat \ {0}, n \in Nat : n < m => n % m = n
      OBVIOUS
    <3> QED
      BY <1>1, <2>4, <3>1, PacketAssumption DEF Word
  <2>6. createACK(last).op = "ACK" /\ createACK(last).num = last
    BY <2>5 DEF createACK, Cleared
  <2> DEFINE ack == createACK(last)
  <2>7. d.up = Append(c.up, ack)
    BY <2>1, <2>6 DEF Sends
  <2> HIDE DEF ack
  <2>8. d.up = <<ack>>
    BY <2>3, <2>7
  <2>9. Len(d.up) = 1 /\ d.up[1] = ack /\ d.up # <<>>
    BY <2>8
  <2>10. Len(d.down) = 0
    BY <2>3
  <2>11. cl.acknowledged = "WAITING" /\ last = cl.block
    BY <1>1, <2>2, <2>3 DEF PaceRead
  <2> HIDE DEF last
  <2>12. /\ u.at # "connected" /\ u.last_packet_no = cl.block + 1
         /\ d.up # <<>> /\ d.up[1].num = cl.block
    BY <2>1, <2>6, <2>9, <2>11 DEF ack
  <2>13. PaceRead(cl, d, u)
    BY <1>1, <2>11, <2>12 DEF PaceRead
  <2> QED
    BY <2>9, <2>10, <2>13 DEF AtMostOne
<1>4. CASE Rests(c, t, d, u)
  <2>1. /\ d.up = c.up /\ u.at # "connected" /\ u.last_packet_no = t.last_packet_no
    BY <1>4 DEF Rests, Same
  <2>2. d.down = c.down \/ d.down = <<>> \/ (c.down # <<>> /\ d.down = Tail(c.down))
    <3>1. \A r \in Reads(c.down) : c.down # <<>> /\ r.rest = Tail(c.down)
      BY <1>1, WholeReads
    <3> QED
      BY <1>4, <3>1 DEF Rests
  <2>3. Len(d.down) <= Len(c.down) /\ (c.down = <<>> => d.down = <<>>)
    <3>1. CASE d.down = c.down
      BY <1>2, <3>1
    <3>2. CASE d.down = <<>>
      BY <1>2, <3>2
    <3>3. CASE c.down # <<>> /\ d.down = Tail(c.down)
      <4>1. \A q \in Seq(Packet) : q # <<>> => Len(Tail(q)) <= Len(q)
        OBVIOUS
      <4> QED
        BY <1>1, <3>3, <4>1
    <3> QED
      BY <2>2, <3>1, <3>2, <3>3
  <2>4. Len(d.up) + Len(d.down) <= 1
    <3>1. \A a, m, n \in Nat : m <= n /\ a + n <= 1 => a + m <= 1
      OBVIOUS
    <3> QED
      BY <1>2, <2>1, <2>3, <3>1 DEF AtMostOne
  <2>5. PaceRead(cl, d, u)
    BY <2>1, <2>3 DEF PaceRead
  <2> QED
    BY <2>4, <2>5 DEF AtMostOne
<1>5. CASE /\ Repeats(c, t, d, u) /\ c.up = <<>> /\ c.down = <<>>
           /\ cl.acknowledged = "WAITING"
  <2> DEFINE p == t.packet_ack
  <2>1. /\ p \in Packet /\ p.op # "NONE" /\ Sends(c, p, d) /\ d.down = <<>>
        /\ u.at = "waiting" /\ u.last_packet_no = t.last_packet_no
    BY <1>5 DEF Repeats, Same, Transfer
  <2>2. p.op = "ACK" => p.num < t.last_packet_no
    BY <2>1 DEF GetterPipe, AskedBy
  <2> HIDE DEF p
  <2>3. d.up = Append(c.up, p)
    BY <2>1 DEF Sends
  <2>4. d.up = <<p>>
    BY <1>5, <2>3
  <2>5. Len(d.up) = 1 /\ d.up[1] = p /\ d.up # <<>> /\ Len(d.down) = 0
    BY <2>1, <2>4
  <2>6. t.last_packet_no = cl.block
    BY <1>5 DEF PaceRead
  <2>7. /\ p \in Packet => p.num \in Nat
        /\ \A m, n \in Nat : m < n => m # n /\ n # n + 1
    BY DEF Packet
  <2>8. isACK(d.up[1]) => d.up[1].num # cl.block /\ u.last_packet_no # cl.block + 1
    BY <1>1, <2>1, <2>2, <2>5, <2>6, <2>7 DEF isACK
  <2>9. PaceRead(cl, d, u)
    BY <1>1, <1>5, <2>1, <2>5, <2>6, <2>8 DEF PaceRead
  <2> QED
    BY <2>5, <2>9 DEF AtMostOne
<1> QED
  BY <1>3, <1>4, <1>5 DEF InPace

\* The invariants of getFile and of the slot that reads for it.
LEMMA GetterPaces ==
    ASSUME Kept, PaceInv, ~Segmented, NEW s \in Getters,
           NEW u \in Transfer, NEW d \in Connection,
           tx[s].at = "waiting", conn[s].cli = "open", conn[s].srv # "backlog",
           u.at # "idle", d.srv = conn[s].srv,
           \A i \in Slots : Serves(i, s) =>
              clients[i].request = "READ" /\ InPace(clients[i], conn[s], tx[s], d, u)
    PROVE  Paced(s, d, u)
<1> DEFINE c == conn[s]
           t == tx[s]
           f == content[NameOf[s]]
           there == NameOf[s] \in stored
<1>1. s \in Sessions /\ f \in Payload /\ there \in BOOLEAN
  BY ClientAssumption DEF Kept, SlotsInv, TypeInv, TypeOK, ServerTypeOK
<1>2. c \in Connection /\ t \in Transfer
  BY <1>1, SessionPace
<1>3. GetterPipe(s, c, t) /\ GetterHears(s, c, t, f, there)
  BY DEF Kept, FetchInv, GetterSide
<1> HIDE DEF f, there
<1>4. ASSUME NEW i \in Slots, Serves(i, s) PROVE PaceWith(s, clients[i], d, u)
  <2> DEFINE cl == clients[i]
  <2>1. /\ cl \in ServerClient /\ cl.connected /\ c.srv = "open" /\ PaceWith(s, cl, c, t)
        /\ cl.request = "READ"
    BY <1>1, <1>4, SessionPace
  <2>2. AtMostOne(c) /\ PaceRead(cl, c, t)
    BY <2>1 DEF PaceWith
  <2>3. InPace(cl, c, t, d, u)
    BY <1>4
  <2>4. t.at = "waiting" /\ c.cli = "open"
    OBVIOUS
  <2> HIDE DEF cl, c, t
  <2>5. AtMostOne(d) /\ PaceRead(cl, d, u)
    BY <1>1, <1>2, <1>3, <2>1, <2>2, <2>3, <2>4, GetterPace
  <2> QED
    BY <2>1, <2>5 DEF PaceWith, cl
<1> QED
  BY <1>4 DEF Paced, PaceAlone

\* getFile hears a packet.
LEMMA GetHears ==
    ASSUME Kept, PaceInv, ~Segmented, NEW s \in Sessions,
           GetExpected(s) \/ GetMismatch(s) \/ GetOversized(s)
    PROVE  \E u, d : Move(s, u, d) /\ Paced(s, d, u)
<1> DEFINE c == conn[s]
           t == tx[s]
<1>1. s \in Getters /\ t.at = "waiting" /\ TypeInv
  BY DEF GetExpected, GetMismatch, GetOversized, GetWaits, Kept, SlotsInv
<1>2. c \in Connection /\ t \in Transfer /\ c.down \in Seq(Packet) /\ s \notin Putters
  BY <1>1, SessionPace
<1>3. ASSUME NEW r \in Reads(c.down)
      PROVE  /\ c.srv # "backlog" /\ c.cli = "open"
             /\ \A i \in Slots : Serves(i, s) => clients[i].request = "READ"
             /\ r.pkt = c.down[1] /\ 1 \in 1 .. Len(c.down)
  BY <1>1, <1>2, <1>3, HeardAll
<1>4. CASE GetExpected(s)
  <2>1. PICK r \in Reads(c.down) : TRUE
    BY <1>4 DEF GetExpected
  <2>2. PICK u \in Transfer, d \in Connection : Move(s, u, d) /\ Takes(c, t, d, u)
    BY <1>1, <1>4, TakeTurns
  <2>3. u.at # "idle" /\ d.srv = c.srv
    BY <2>2 DEF Takes, Sends
  <2> QED
    BY <1>1, <1>3, <2>1, <2>2, <2>3, GetterPaces DEF InPace
<1>5. CASE GetMismatch(s)
  <2>1. PICK r \in Reads(c.down) : Move(s, t, Heard(s, r))
    BY <1>5 DEF GetMismatch
  <2> DEFINE d == Heard(s, r)
  <2>2. /\ d \in Connection /\ d.down = r.rest /\ d.up = c.up
        /\ d.cli = c.cli /\ d.rst = c.rst /\ d.srv = c.srv
    BY <1>1, <2>1, HeardKeeps, ClientAssumption
  <2> HIDE DEF d
  <2>3. Rests(c, t, d, t)
    BY <1>1, <2>1, <2>2 DEF Rests, Same
  <2> QED
    BY <1>1, <1>2, <1>3, <2>1, <2>2, <2>3, GetterPaces DEF InPace, d
<1>6. CASE GetOversized(s)
  <2>1. PICK r \in Reads(c.down) : ~isError(r.pkt) /\ ~copyDataFits(r.pkt, DataCells)
    BY <1>6 DEF GetOversized
  <2>2. GetterHears(s, c, t, content[NameOf[s]], NameOf[s] \in stored)
    BY <1>1 DEF Kept, FetchInv, GetterSide
  <2>3. copyDataFits(r.pkt, DataCells)
    BY <1>3, <2>1, <2>2 DEF GetterHears, Hearable, DataOf, Chunk, copyDataFits
  <2> QED
    BY <2>1, <2>3
<1> QED
  BY <1>4, <1>5, <1>6

\* A wait that ends where nothing is due finds nothing under way.
LEMMA PutTires ==
    ASSUME Kept, PaceInv, ~Segmented, SlotFree, NEW s \in Sessions, NothingDue(s),
           PutTimesOut(s)
    PROVE  \E u, d : Move(s, u, d) /\ Paced(s, d, u)
<1>1. s \in Putters /\ PutWaits(s) /\ tx[s].at = "waiting" /\ conn[s].down = <<>>
  BY DEF PutTimesOut, PutWaits
<1>2. conn[s].srv = "open" /\ conn[s].up = <<>>
  BY DEF NothingDue, SlotFree
<1>3. /\ conn[s] \in Connection /\ SendNextData(s, conn[s])
      /\ SessionOK(s, conn[s], tx[s]) /\ s \notin Getters
  BY <1>1, SessionPace DEF PutTimesOut
<1>4. ASSUME NEW i \in Slots, Serves(i, s) PROVE clients[i].request = "WRITE"
  <2>1. /\ clients[i].connected /\ clients[i].client_socket = s
        /\ PaceWith(s, clients[i], conn[s], tx[s]) /\ conn[s].cli = "open"
        /\ SlotCounts(clients[i], conn[s], tx[s])
        /\ clients[i].request \in {"UNDEFINED", "READ", "WRITE"}
    BY <1>1, <1>3, <1>4, SessionPace DEF Serves, SessionOK, EndsAgree
  <2>2. clients[i].request # "UNDEFINED"
    BY <1>1, <1>2, <2>1 DEF PaceWith, Unasked
  <2>3. clients[i].request # "READ"
    BY <1>3, <2>1 DEF SlotCounts, ReadsFor
  <2> QED
    BY <2>1, <2>2, <2>3
<1> QED
  BY <1>1, <1>2, <1>3, <1>4, PutPace

\* Where nothing is due, getFile sends its last packet again, or gives up.
LEMMA GetTires ==
    ASSUME Kept, PaceInv, ~Segmented, SlotFree, NEW s \in Sessions, NothingDue(s),
           GetTimesOut(s)
    PROVE  \E u, d : Move(s, u, d) /\ Paced(s, d, u)
<1> DEFINE c == conn[s]
           t == tx[s]
           v == [t EXCEPT !.timeout_count = @ + 1]
           w == [v EXCEPT !.at = "closing", !.result = "error"]
           e == ClientSends(c, v.packet_ack)
<1>1. s \in Getters /\ t.at = "waiting" /\ c.down = <<>>
  BY DEF GetTimesOut, GetWaits
<1>2. c.srv = "open" /\ c.up = <<>> /\ \A i \in Slots : ~Owes(i, s)
  BY DEF NothingDue, SlotFree
<1>3. /\ c \in Connection /\ t \in Transfer /\ SessionOK(s, c, t) /\ s \notin Putters
  BY <1>1, SessionPace
<1>4. c.cli = "open"
  BY <1>1, <1>3 DEF SessionOK, EndsAgree
<1>5. ASSUME NEW i \in Slots, Serves(i, s)
      PROVE  clients[i].request = "READ" /\ clients[i].acknowledged = "WAITING"
  <2>1. /\ clients[i].connected /\ clients[i].client_socket = s
        /\ PaceWith(s, clients[i], c, t) /\ SlotCounts(clients[i], c, t)
        /\ clients[i].request \in {"UNDEFINED", "READ", "WRITE"}
        /\ clients[i].acknowledged \in {"WAITING", "OK"}
    BY <1>5, SessionPace DEF Serves
  <2>2. clients[i].request # "UNDEFINED"
    BY <1>1, <1>2, <1>4, <2>1 DEF PaceWith, Unasked
  <2>3. clients[i].request # "WRITE"
    BY <1>3, <2>1 DEF SlotCounts, WritesFor
  <2> QED
    BY <1>2, <2>1, <2>2, <2>3 DEF Owes
<1>6. /\ v \in Transfer /\ v.at = "waiting" /\ v.packet_ack = t.packet_ack
      /\ v.last_packet_no = t.last_packet_no /\ v.file = t.file /\ v.result = t.result
  BY <1>1, <1>3 DEF Transfer
<1>7. Move(s, v, e) \/ Move(s, w, c)
  BY DEF GetTimesOut
<1> HIDE DEF v
<1>8. /\ w \in Transfer /\ w.at = "closing" /\ w.packet_ack = t.packet_ack
      /\ w.last_packet_no = t.last_packet_no /\ w.file = t.file /\ w.result = "error"
  BY <1>6 DEF Transfer
<1> HIDE DEF w
<1>9. t.packet_ack \in Packet
  BY <1>3 DEF Transfer
<1>10. e \in Connection /\ Sends(c, t.packet_ack, e) /\ e.down = c.down
  BY <1>3, <1>6, <1>9, SendsOn
<1>11. t.packet_ack.op = "NONE" => e = c
  BY <1>6 DEF ClientSends
<1> HIDE DEF e
<1>12. CASE Move(s, w, c)
  <2>1. Rests(c, t, c, w)
    BY <1>1, <1>8 DEF Rests, Same
  <2> QED
    BY <1>1, <1>2, <1>3, <1>4, <1>5, <1>8, <1>12, <2>1, GetterPaces DEF InPace
<1>13. CASE Move(s, v, e)
  <2>1. e.srv = c.srv
    BY <1>10 DEF Sends
  <2>2. Repeats(c, t, e, v) \/ Rests(c, t, e, v)
    <3>1. CASE t.packet_ack.op = "NONE"
      BY <1>1, <1>6, <1>11, <3>1 DEF Rests, Same
    <3>2. CASE t.packet_ack.op # "NONE"
      BY <1>1, <1>6, <1>10, <3>2 DEF Repeats, Same
    <3> QED
      BY <3>1, <3>2
  <2> QED
    BY <1>1, <1>2, <1>3, <1>4, <1>5, <1>6, <1>10, <1>13, <2>1, <2>2, GetterPaces DEF InPace
<1> QED
  BY <1>7, <1>12, <1>13

\* A step of one session leaves the others alone.
LEMMA SessionPaced ==
    ASSUME Kept, PaceInv, NEW s \in Sessions, NEW u, NEW d,
           Move(s, u, d), Paced(s, d, u), UNCHANGED serverVars
    PROVE  PaceInv'
<1>1. /\ clients' = clients /\ conn \in [Sessions -> Connection] /\ tx \in [Sessions -> Transfer]
      /\ conn' = [conn EXCEPT ![s] = d] /\ tx' = [tx EXCEPT ![s] = u]
  BY DEF Kept, SlotsInv, TypeInv, TypeOK, NetTypeOK, ClientTypeOK, Move, serverVars
<1>2. ASSUME NEW q \in Sessions
      PROVE  /\ q = s => conn'[q] = d /\ tx'[q] = u
             /\ q # s => conn'[q] = conn[q] /\ tx'[q] = tx[q]
  BY <1>1
<1>3. ASSUME NEW q \in Sessions PROVE PaceAlone(q, conn'[q], tx'[q])
  <2>1. CASE q = s
    BY <1>2, <2>1 DEF Paced
  <2>2. CASE q # s
    BY <1>2, <2>2 DEF PaceInv
  <2> QED
    BY <2>1, <2>2
<1>4. ASSUME NEW i \in Slots, clients[i].connected
      PROVE  LET q == clients[i].client_socket IN PaceWith(q, clients[i], conn'[q], tx'[q])
  <2> DEFINE q == clients[i].client_socket
  <2>1. q \in Sessions /\ PaceWith(q, clients[i], conn[q], tx[q])
    BY <1>4 DEF PaceInv, Kept, SlotsInv, SlotsServeConnections, SlotOwnsConnection
  <2>2. CASE q = s
    <3>1. Serves(i, s)
      BY <1>4, <2>2 DEF Serves
    <3>2. PaceWith(s, clients[i], d, u)
      BY <3>1 DEF Paced
    <3> QED
      BY <1>2, <2>1, <2>2, <3>2
  <2>3. CASE q # s
    BY <1>2, <2>1, <2>3
  <2> QED
    BY <2>2, <2>3
<1> QED
  BY <1>1, <1>3, <1>4 DEF PaceInv

\* A client's step, without a timeout, keeps every session in pace.
LEMMA ClientPace ==
    ASSUME Kept, PaceInv, ~Segmented, NEW s \in Sessions, Client(s)
    PROVE  PaceInv'
<1>1. ClientStep(s) /\ UNCHANGED serverVars
  BY DEF Client
<1>2. \E u, d : Move(s, u, d) /\ Paced(s, d, u)
  <2>1. CASE connectToServer(s) \/ ConnectFails(s)
    BY <2>1, OpenPace
  <2>2. CASE SendWRQ(s) \/ SourceUnreadable(s) \/ SendRRQ(s)
    BY <2>2, AskPace
  <2>3. CASE PutAnswered(s)
    BY <2>3, PutHears
  <2>4. CASE PutConnectionLost(s) \/ GetConnectionLost(s)
    BY <1>1, <2>4, LostPace
  <2>5. CASE ErrorReceived(s) \/ Destructor(s)
    BY <2>5, ClosePace
  <2>6. CASE GetExpected(s) \/ GetOversized(s) \/ GetMismatch(s)
    BY <2>6, GetHears
  <2> QED
    BY <1>1, <2>1, <2>2, <2>3, <2>4, <2>5, <2>6 DEF ClientStep
<1> QED
  BY <1>1, <1>2, SessionPaced

\* A timeout does, if every session is patient and whoever waits will find a slot.
LEMMA TimeoutPace ==
    ASSUME Kept, PaceInv, ~Segmented, Impatient = {}, SlotFree,
           NEW s \in Sessions, Timeout(s)
    PROVE  PaceInv'
<1>1. NothingDue(s) /\ TimesOut(s) /\ UNCHANGED serverVars
  BY DEF Timeout, MayTimeOut
<1>2. \E u, d : Move(s, u, d) /\ Paced(s, d, u)
  <2>1. CASE PutTimesOut(s)
    BY <1>1, <2>1, PutTires
  <2>2. CASE GetTimesOut(s)
    BY <1>1, <2>2, GetTires
  <2> QED
    BY <1>1, <2>1, <2>2 DEF TimesOut
<1> QED
  BY <1>1, <1>2, SessionPaced

\* The network: a client that has closed its end has no pace to keep.
LEMMA NetworkPace ==
    ASSUME Kept, PaceInv, NEW s \in Sessions, Network(s)
    PROVE  PaceInv'
<1> DEFINE d == Reset(conn[s])
<1>1. /\ conn[s].rst = "owed" /\ conn[s].srv = "open"
      /\ conn' = [conn EXCEPT ![s] = d] /\ tx' = tx /\ UNCHANGED serverVars
  BY DEF Network, ResetArrives, OsReclaims, Kept
<1>2. /\ conn[s] \in Connection /\ conn[s].cli # "open" /\ tx[s].at # "idle" /\ TypeInv
  BY <1>1, SessionPace DEF SessionOK, EndsAgree
<1>3. Move(s, tx[s], d)
  BY <1>1, <1>2 DEF Move, TypeInv, TypeOK, ClientTypeOK
<1>4. d.cli # "open"
  BY <1>2 DEF Reset, Connection
<1> HIDE DEF d
<1>5. Paced(s, d, tx[s])
  BY <1>2, <1>4 DEF Paced, PaceAlone, PaceWith
<1> QED
  BY <1>1, <1>3, <1>5, SessionPaced
-----------------------------------------------------------------------------
(* The server's steps. *)

\* What a turn of the slot makes of it and of the connection it serves.
PaceTurned ==
    /\ Me.connected
    /\ \E cl, c : /\ Store(cl, c)
                  /\ cl.client_socket = Me.client_socket
                  /\ c.srv # "backlog"
                  /\ PaceWith(Me.client_socket, cl, c, tx[Me.client_socket])

\* The invariants, for the slot the thread is at.
LEMMA MyPace ==
    ASSUME Kept, PaceInv, Me.connected
    PROVE  /\ Me \in ServerClient /\ Me.client_socket \in Sessions
           /\ Line \in Connection /\ Line.srv = "open"
           /\ tx[Me.client_socket] \in Transfer
           /\ PaceWith(Me.client_socket, Me, Line, tx[Me.client_socket])
           /\ Line.cli = "open" => Line.rst = "no"
<1>1. /\ Me \in ServerClient /\ Me.client_socket \in Sessions
      /\ Line \in Connection /\ Line.srv = "open"
      /\ tx[Me.client_socket] \in Transfer
      /\ SessionOK(Me.client_socket, Line, tx[Me.client_socket])
  BY MyCount DEF Kept, StreamInv
<1>2. Line.cli = "open" => Line.rst = "no"
  BY <1>1 DEF SessionOK, EndsAgree, Connection
<1>3. slot \in Slots
  BY MeType DEF Kept, SlotsInv
<1>4. PaceWith(Me.client_socket, Me, Line, tx[Me.client_socket])
  BY <1>3 DEF PaceInv, Me, Line
<1> QED
  BY <1>1, <1>2, <1>4

\* A packet the slot takes is all there was under way.
LEMMA MyOnly ==
    ASSUME Kept, PaceInv, ~Segmented, NEW r \in receivePacket
    PROVE  /\ Me.connected /\ r.pkt \in Packet
           /\ After(r) \in Connection /\ After(r).srv = "open" /\ After(r).cli = Line.cli
           /\ Line.up # <<>> /\ r.pkt = Line.up[1]
           /\ Line.cli = "open" =>
                 After(r).rst = "no" /\ After(r).up = <<>> /\ After(r).down = <<>>
<1>1. /\ Me.connected /\ r.pkt \in Packet
      /\ r.pkt = Head(Line.up) /\ Line.up # <<>>
      /\ After(r) \in Connection /\ After(r).srv = "open"
      /\ After(r).up = Tail(Line.up) /\ After(r).rst = Line.rst
      /\ After(r).cli = Line.cli
  BY MyPacket DEF Kept, StreamInv
<1>2. /\ Line \in Connection
      /\ PaceWith(Me.client_socket, Me, Line, tx[Me.client_socket])
      /\ Line.cli = "open" => Line.rst = "no"
  BY <1>1, MyPace
<1>3. Line.up \in Seq(Packet) /\ Line.down \in Seq(Packet)
  BY <1>2 DEF Connection
<1>4. Head(Line.up) = Line.up[1]
  BY <1>1, <1>3
<1>5. After(r).down = Line.down
  BY <1>2 DEF After, Connection
<1>6. ASSUME Line.cli = "open" PROVE Tail(Line.up) = <<>> /\ Line.down = <<>>
  <2>1. Len(Line.up) + Len(Line.down) <= 1
    BY <1>1, <1>2, <1>6 DEF PaceWith, AtMostOne
  <2> QED
    BY <1>1, <1>3, <2>1, OnlyOne
<1> QED
  BY <1>1, <1>2, <1>4, <1>5, <1>6

\* An answer where nothing is under way is all there is.
LEMMA OneAnswer ==
    ASSUME NEW c \in Connection, c.srv = "open",
           c.cli = "open" => c.rst = "no" /\ c.up = <<>> /\ c.down = <<>>,
           NEW p \in Packet, NEW o \in ServerSends(c, p)
    PROVE  /\ o.conn.srv = "open" /\ o.conn.cli = c.cli
           /\ c.cli = "open" => o.ok /\ o.conn.up = <<>> /\ AtMostOne(o.conn)
<1>1. /\ o.conn \in Connection /\ o.conn.cli = c.cli /\ o.conn.srv = c.srv
      /\ o.conn.up = c.up \/ o.conn.up = <<>>
      /\ o.conn.down = c.down \/ o.conn.down = Append(c.down, p)
      /\ c.rst = "no" /\ c.cli = "open" => o.ok
  BY ServerSendsOn, ServerSendsType
<1>2. ASSUME c.cli = "open" PROVE o.conn.up = <<>> /\ AtMostOne(o.conn)
  <2>1. o.conn.up = <<>> /\ Len(o.conn.up) = 0
    BY <1>1, <1>2
  <2>2. Len(o.conn.down) \in {0, 1}
    <3>1. CASE o.conn.down = <<>>
      BY <3>1
    <3>2. CASE o.conn.down = Append(<<>>, p)
      <4>1. o.conn.down = <<p>>
        BY <3>2
      <4> QED
        BY <4>1
    <3> QED
      BY <1>1, <1>2, <3>1, <3>2
  <2>3. \A n \in {0, 1} : 0 + n <= 1
    OBVIOUS
  <2>4. Len(o.conn.up) + Len(o.conn.down) <= 1
    BY <2>1, <2>2, <2>3
  <2> QED
    BY <2>1, <2>4 DEF AtMostOne
<1> QED
  BY <1>1, <1>2

\* A slot that lets go has no pace to keep.
LEMMA LeavesPace ==
    ASSUME Leaves
    PROVE  PaceTurned
BY DEF Leaves, Touches, PaceTurned, PaceWith

\* The first request.
LEMMA RequestPace ==
    ASSUME Kept, PaceInv, ~Segmented, NEW r \in receivePacket,
           \/ ReadMissingFile(r) \/ StartRead(r)
           \/ WriteExistingFile(r) \/ StartWrite(r) \/ RequestUnexpected(r)
    PROVE  PaceTurned
<1> DEFINE s == Me.client_socket
           t == tx[s]
           c == After(r)
<1>1. /\ Me.connected /\ r.pkt \in Packet /\ c \in Connection /\ c.srv = "open"
      /\ c.cli = Line.cli /\ Line.up # <<>>
      /\ c.cli = "open" => c.rst = "no" /\ c.up = <<>> /\ c.down = <<>>
  BY MyOnly
<1>2. /\ Me \in ServerClient /\ s \in Sessions /\ Line \in Connection
      /\ PaceWith(s, Me, Line, t) /\ TypeInv
  BY <1>1, MyPace DEF Kept, SlotsInv
<1>3. phase = "request"
  BY DEF ReadMissingFile, StartRead, WriteExistingFile, StartWrite, CreateFile,
         RequestUnexpected
<1>4. /\ Me.request = "UNDEFINED" /\ Me.block = 0
      /\ s \in Putters => r.pkt = createWRQ(NameOf[s])
  BY <1>3, FirstRequest DEF Kept, StreamInv
<1>5. Line.cli = "open" => Unasked(s, Line, t)
  BY <1>1, <1>2, <1>4 DEF PaceWith
<1> DEFINE reads == [Me EXCEPT !.request = "READ", !.file_rrq = "live"]
           writes == [Me EXCEPT !.request = "WRITE", !.file_rrq = "live"]
<1>6. /\ reads \in ServerClient /\ reads.client_socket = s
      /\ writes \in ServerClient /\ writes.client_socket = s
  BY <1>2 DEF ServerClient, Pointer
<1> HIDE DEF c
<1>7. CASE ReadMissingFile(r) \/ WriteExistingFile(r) \/ RequestUnexpected(r)
  <2>1. /\ UNCHANGED backlog
        /\ \E n \in Nat : Refuse(reads, c, n) \/ Refuse(writes, c, n) \/ Refuse(Me, c, n)
    BY <1>7 DEF ReadMissingFile, WriteExistingFile, RequestUnexpected, c
  <2> HIDE DEF reads, writes
  <2>2. Leaves
    BY <1>1, <1>2, <1>6, <2>1, RefuseLeaves
  <2> QED
    BY <2>2, LeavesPace
<1>8. CASE StartRead(r)
  <2> DEFINE cl == [Me EXCEPT !.request = "READ", !.file_rrq = "live", !.name = r.pkt.name]
             nb == NextBlock(cl)
  <2>1. isRRQ(r.pkt) /\ r.pkt.name \in stored /\ sendPacketData(cl, c)
    BY <1>8 DEF StartRead, c
  <2>2. r.pkt.name \in Names /\ content \in [Names -> Payload]
    BY <1>2, <2>1 DEF TypeInv, TypeOK, ServerTypeOK
  <2>3. /\ cl \in ServerClient /\ cl.name \in Names /\ cl.block = 0 /\ cl.connected
        /\ cl.client_socket = s /\ cl.request = "READ"
    BY <1>1, <1>2, <1>4, <2>2 DEF ServerClient, Pointer
  <2> HIDE DEF cl
  <2>4. /\ nb \in ServerClient /\ nb.last_sent_packet \in Packet
        /\ nb.client_socket = s /\ nb.request = "READ"
    BY <2>2, <2>3, NextBlockType
  <2>5. nb.block = 1
    BY <2>3 DEF NextBlock, ServerClient
  <2>6. PICK o \in ServerSends(c, nb.last_sent_packet) :
            Store([nb EXCEPT !.acknowledged = IF o.ok THEN "WAITING" ELSE @], o.conn)
    BY <2>1 DEF sendPacketData
  <2> HIDE DEF nb
  <2> DEFINE new == [nb EXCEPT !.acknowledged = IF o.ok THEN "WAITING" ELSE @]
  <2>7. /\ new.client_socket = s /\ new.request = "READ" /\ new.block = 1
        /\ o.ok => new.acknowledged = "WAITING"
    BY <2>4, <2>5 DEF ServerClient
  <2>8. /\ o.conn.srv = "open" /\ o.conn.cli = c.cli
        /\ c.cli = "open" => o.ok /\ o.conn.up = <<>> /\ AtMostOne(o.conn)
    BY <1>1, <2>4, OneAnswer
  <2>9. Store(new, o.conn)
    BY <2>6
  <2> HIDE DEF new
  <2>10. s \in Getters
    <3>1. ~isRRQ(createWRQ(NameOf[s]))
      BY DEF isRRQ, createWRQ, Cleared
    <3> QED
      BY <1>2, <1>4, <2>1, <3>1, ClientAssumption
  <2>11. ASSUME c.cli = "open" PROVE PaceRead(new, o.conn, t)
    <3>1. Unasked(s, Line, t)
      BY <1>1, <1>5, <2>11
    <3>2. t.at = "waiting" /\ t.last_packet_no = Len(Line.up)
      BY <1>1, <2>10, <3>1 DEF Unasked
    <3>3. Len(Line.up) = 1
      <4>1. Line.up \in Seq(Packet)
        BY <1>2 DEF Connection
      <4>2. Len(Line.up) \in Nat /\ Len(Line.up) # 0 /\ Len(Line.up) <= 1
        BY <1>1, <3>1, <4>1 DEF Unasked
      <4>3. \A n \in Nat : n # 0 /\ n <= 1 => n = 1
        OBVIOUS
      <4> QED
        BY <4>2, <4>3
    <3> QED
      BY <2>7, <2>8, <2>11, <3>2, <3>3 DEF PaceRead
  <2>12. PaceWith(s, new, o.conn, t)
    BY <2>7, <2>8, <2>11 DEF PaceWith
  <2> QED
    BY <1>1, <2>7, <2>8, <2>9, <2>12 DEF PaceTurned
<1>9. CASE StartWrite(r)
  <2>1. PICK opened \in {TRUE, FALSE} :
            Answer([Me EXCEPT !.request = "WRITE", !.file_rrq = "freed",
                              !.file_wrq = "live", !.name = r.pkt.name,
                              !.good = opened], c, createACK(0))
    BY <1>9 DEF StartWrite, CreateFile, c
  <2> DEFINE new == [Me EXCEPT !.request = "WRITE", !.file_rrq = "freed",
                              !.file_wrq = "live", !.name = r.pkt.name,
                              !.good = opened]
  <2>2. new.client_socket = s /\ new.request = "WRITE"
    BY <1>2 DEF ServerClient
  <2>3. PICK o \in ServerSends(c, createACK(0)) : Store(new, o.conn)
    BY <2>1 DEF Answer
  <2> HIDE DEF new
  <2>4. createACK(0) \in Packet
    BY PacketTypes
  <2>5. /\ o.conn.srv = "open" /\ o.conn.cli = c.cli
        /\ c.cli = "open" => AtMostOne(o.conn)
    BY <1>1, <2>4, OneAnswer
  <2>6. PaceWith(s, new, o.conn, t)
    BY <2>2, <2>5 DEF PaceWith
  <2> QED
    BY <1>1, <2>2, <2>3, <2>5, <2>6 DEF PaceTurned
<1> QED
  BY <1>7, <1>8, <1>9

\* An acknowledgement.
LEMMA AckPace ==
    ASSUME Kept, PaceInv, ~Segmented, NEW r \in receivePacket,
           AckExpected(r) \/ AckFinal(r) \/ AckMismatch(r) \/ ReadUnexpected(r)
    PROVE  PaceTurned
<1> DEFINE s == Me.client_socket
           t == tx[s]
           c == After(r)
<1>1. /\ Me.connected /\ r.pkt \in Packet /\ c \in Connection /\ c.srv = "open"
      /\ c.cli = Line.cli /\ Line.up # <<>> /\ r.pkt = Line.up[1]
      /\ c.cli = "open" => c.rst = "no" /\ c.up = <<>> /\ c.down = <<>>
  BY MyOnly
<1>2. /\ Me \in ServerClient /\ s \in Sessions /\ PaceWith(s, Me, Line, t) /\ TypeInv
      /\ t.last_packet_no \in Nat /\ Me.block \in Nat /\ Me.last_sent_packet \in Packet
  BY <1>1, MyPace DEF Kept, SlotsInv, Transfer, ServerClient
<1>3. Me.request = "READ" /\ Me.acknowledged = "WAITING"
  BY DEF AckExpected, AckFor, AckFinal, AckMismatch, ReadUnexpected, Serving,
         receivePacket, Receiving
<1>4. c.cli = "open" => PaceRead(Me, Line, t)
  BY <1>1, <1>2, <1>3 DEF PaceWith
<1> HIDE DEF c, t
<1>5. CASE AckFinal(r) \/ ReadUnexpected(r)
  <2> DEFINE cl == [Me EXCEPT !.acknowledged = "OK"]
  <2>1. /\ UNCHANGED backlog
        /\ disconnectClient(cl, c) \/ Refuse(Me, c, 4)
    BY <1>5 DEF AckFinal, ReadUnexpected, c
  <2>2. cl \in ServerClient /\ cl.client_socket = s
    BY <1>2 DEF ServerClient
  <2> HIDE DEF cl
  <2>3. Leaves
    BY <1>1, <1>2, <2>1, <2>2, DisconnectLeaves, RefuseLeaves
  <2> QED
    BY <2>3, LeavesPace
<1>6. CASE AckExpected(r)
  <2> DEFINE cl == [Me EXCEPT !.acknowledged = "OK"]
  <2>1. Store(cl, c) /\ isACK(r.pkt) /\ Me.block = getNumber(r.pkt)
    BY <1>6 DEF AckExpected, AckFor, AckOK, c
  <2>2. /\ cl.client_socket = s /\ cl.request = "READ" /\ cl.block = Me.block
        /\ cl.acknowledged = "OK"
    BY <1>2, <1>3 DEF ServerClient
  <2> HIDE DEF cl
  <2>3. r.pkt.num = Me.block
    BY <2>1 DEF getNumber
  <2>4. ASSUME c.cli = "open" PROVE AtMostOne(c) /\ PaceRead(cl, c, t)
    <3>1. t.at # "connected" /\ t.last_packet_no = Me.block + 1
      BY <1>1, <1>3, <1>4, <2>1, <2>3, <2>4 DEF PaceRead
    <3>2. Len(c.up) = 0 /\ Len(c.down) = 0
      BY <1>1, <2>4
    <3> QED
      BY <1>1, <2>2, <2>4, <3>1, <3>2 DEF PaceRead, AtMostOne
  <2>5. PaceWith(s, cl, c, t)
    BY <2>2, <2>4 DEF PaceWith
  <2> QED
    BY <1>1, <2>1, <2>2, <2>5 DEF PaceTurned, t
<1>7. CASE AckMismatch(r)
  <2>1. isACK(r.pkt) /\ Me.block # getNumber(r.pkt)
    BY <1>7 DEF AckMismatch
  <2>2. PICK o \in ServerSends(c, Me.last_sent_packet) : Store(Me, o.conn)
    BY <1>7 DEF AckMismatch, Answer, c
  <2>3. r.pkt.num # Me.block
    BY <2>1 DEF getNumber
  <2>4. /\ o.conn.srv = "open" /\ o.conn.cli = c.cli
        /\ c.cli = "open" => o.conn.up = <<>> /\ AtMostOne(o.conn)
    BY <1>1, <1>2, OneAnswer
  <2>5. ASSUME c.cli = "open" PROVE PaceRead(Me, o.conn, t)
    <3>1. t.at # "connected" /\ t.last_packet_no = Me.block
      BY <1>1, <1>3, <1>4, <2>1, <2>3, <2>5 DEF PaceRead
    <3> QED
      BY <1>3, <2>4, <2>5, <3>1 DEF PaceRead
  <2>6. PaceWith(s, Me, o.conn, t)
    BY <1>3, <2>4, <2>5 DEF PaceWith
  <2> QED
    BY <1>1, <2>2, <2>4, <2>6 DEF PaceTurned, t
<1> QED
  BY <1>5, <1>6, <1>7

\* A block of a file the server receives.
LEMMA DataPace ==
    ASSUME Kept, PaceInv, ~Segmented, NEW r \in receivePacket,
           DataExpected(r) \/ DataFinal(r) \/ DataMismatch(r) \/ WriteUnexpected(r)
    PROVE  PaceTurned
<1> DEFINE s == Me.client_socket
           t == tx[s]
           c == After(r)
<1>1. /\ Me.connected /\ c \in Connection /\ c.srv = "open"
      /\ c.cli = "open" => c.rst = "no" /\ c.up = <<>> /\ c.down = <<>>
  BY MyOnly
<1>2. /\ Me \in ServerClient /\ TypeInv /\ Me.block \in Nat
  BY <1>1, MyPace DEF Kept, SlotsInv, ServerClient
<1>3. Me.request = "WRITE"
  BY DEF DataExpected, DataFinal, DataMismatch, WriteUnexpected, Serving
<1> DEFINE ack == createACK(Me.block + 1)
<1>4. ack \in Packet
  BY <1>2, PacketTypes
<1> HIDE DEF c, t, ack
<1>5. CASE DataFinal(r) \/ WriteUnexpected(r)
  <2>1. /\ UNCHANGED backlog
        /\ (\E o \in ServerSends(c, ack) : disconnectClient(Me, o.conn)) \/ Refuse(Me, c, 4)
    BY <1>5 DEF DataFinal, EndTransfer, WriteUnexpected, c, ack
  <2>2. \A o \in ServerSends(c, ack) : o.conn \in Connection
    BY <1>1, <1>4, ServerSendsType
  <2>3. Leaves
    BY <1>1, <1>2, <2>1, <2>2, DisconnectLeaves, RefuseLeaves
  <2> QED
    BY <2>3, LeavesPace
<1>6. CASE DataExpected(r)
  <2>1. PICK good \in BOOLEAN :
            Answer([Me EXCEPT !.block = @ + 1, !.good = good], c, ack)
    <3>1. PICK n \in 0 .. Len(r.pkt.data) :
             Answer([Me EXCEPT !.block = @ + 1,
                               !.good = @ /\ n = Len(r.pkt.data)], c, ack)
      BY <1>6 DEF DataExpected, c, ack
    <3>2. (Me.good /\ n = Len(r.pkt.data)) \in BOOLEAN
      OBVIOUS
    <3> QED
      BY <3>1, <3>2
  <2> DEFINE cl == [Me EXCEPT !.block = @ + 1, !.good = good]
  <2>2. cl.client_socket = s /\ cl.request = "WRITE"
    BY <1>2, <1>3 DEF ServerClient
  <2>3. PICK o \in ServerSends(c, ack) : Store(cl, o.conn)
    BY <2>1 DEF Answer
  <2> HIDE DEF cl
  <2>4. /\ o.conn.srv = "open" /\ o.conn.cli = c.cli
        /\ c.cli = "open" => AtMostOne(o.conn)
    BY <1>1, <1>4, OneAnswer
  <2>5. PaceWith(s, cl, o.conn, t)
    BY <2>2, <2>4 DEF PaceWith
  <2> QED
    BY <1>1, <2>2, <2>3, <2>4, <2>5 DEF PaceTurned, t
<1>7. CASE DataMismatch(r)
  <2> DEFINE cl == [Me EXCEPT !.block = @ + 1]
  <2>1. Store(cl, c)
    BY <1>7 DEF DataMismatch, c
  <2>2. cl.client_socket = s /\ cl.request = "WRITE"
    BY <1>2, <1>3 DEF ServerClient
  <2> HIDE DEF cl
  <2>3. ASSUME c.cli = "open" PROVE AtMostOne(c)
    <3>1. Len(c.up) = 0 /\ Len(c.down) = 0
      BY <1>1, <2>3
    <3> QED
      BY <3>1 DEF AtMostOne
  <2>4. PaceWith(s, cl, c, t)
    BY <2>2, <2>3 DEF PaceWith
  <2> QED
    BY <1>1, <2>1, <2>2, <2>4 DEF PaceTurned, t
<1> QED
  BY <1>5, <1>6, <1>7

\* The next block, once the last one is acknowledged.
LEMMA SendPace ==
    ASSUME Kept, PaceInv, SendNextBlock
    PROVE  PaceTurned
<1> DEFINE s == Me.client_socket
           t == tx[s]
           nb == NextBlock(Me)
<1>1. /\ Me.connected /\ Me.request = "READ" /\ Me.acknowledged = "OK"
      /\ sendPacketData(Me, Line)
  BY DEF SendNextBlock, MaySend, Serving
<1>2. /\ Me \in ServerClient /\ s \in Sessions /\ Line \in Connection /\ Line.srv = "open"
      /\ PaceWith(s, Me, Line, t) /\ TypeInv /\ Me.block \in Nat
      /\ Line.cli = "open" => Line.rst = "no"
  BY <1>1, MyPace DEF Kept, SlotsInv, ServerClient
<1>3. Me.name \in Names /\ content \in [Names -> Payload]
  BY <1>1, <1>2, MeType DEF SlotOK, TypeInv, TypeOK, ServerTypeOK
<1>4. Line.cli = "open" =>
         /\ Line.up = <<>> /\ Line.down = <<>> /\ t.at # "connected"
         /\ t.last_packet_no = Me.block + 1
  BY <1>1, <1>2 DEF PaceWith, PaceRead
<1>5. /\ nb \in ServerClient /\ nb.last_sent_packet \in Packet
      /\ nb.client_socket = s /\ nb.request = "READ"
  BY <1>1, <1>2, <1>3, NextBlockType
<1>6. nb.block = Me.block + 1
  BY <1>2 DEF NextBlock, ServerClient
<1>7. PICK o \in ServerSends(Line, nb.last_sent_packet) :
          Store([nb EXCEPT !.acknowledged = IF o.ok THEN "WAITING" ELSE @], o.conn)
  BY <1>1 DEF sendPacketData
<1> HIDE DEF nb
<1> DEFINE new == [nb EXCEPT !.acknowledged = IF o.ok THEN "WAITING" ELSE @]
<1>8. /\ new.client_socket = s /\ new.request = "READ" /\ new.block = Me.block + 1
      /\ o.ok => new.acknowledged = "WAITING"
  BY <1>5, <1>6 DEF ServerClient
<1>9. /\ o.conn.srv = "open" /\ o.conn.cli = Line.cli
      /\ Line.cli = "open" => o.ok /\ o.conn.up = <<>> /\ AtMostOne(o.conn)
  BY <1>2, <1>4, <1>5, OneAnswer
<1>10. Store(new, o.conn)
  BY <1>7
<1> HIDE DEF new, t
<1>11. ASSUME Line.cli = "open" PROVE PaceRead(new, o.conn, t)
  BY <1>4, <1>8, <1>9, <1>11 DEF PaceRead
<1>12. PaceWith(s, new, o.conn, t)
  BY <1>8, <1>9, <1>11 DEF PaceWith
<1> QED
  BY <1>1, <1>8, <1>9, <1>10, <1>12 DEF PaceTurned, t

\* Every turn.
LEMMA ServerPaced ==
    ASSUME Kept, PaceInv, ~Segmented, ServerStep
    PROVE  PaceTurned \/ acceptClient \/ Idles
<1>1. TypeInv
  BY DEF Kept, SlotsInv
<1>2. CASE PeerClosed
  <2>1. Me.connected /\ disconnectClient(Me, Line) /\ UNCHANGED backlog
    BY <1>2 DEF PeerClosed, Receiving
  <2>2. Me \in ServerClient /\ Line \in Connection
    BY <2>1, MyPace
  <2>3. Leaves
    BY <1>1, <2>1, <2>2, DisconnectLeaves
  <2> QED
    BY <2>3, LeavesPace
<1>3. CASE \E r \in receivePacket : OnPacket(r)
  BY <1>3, RequestPace, AckPace, DataPace DEF OnPacket
<1>4. CASE SendNextBlock
  BY <1>4, SendPace
<1>5. CASE NothingToAccept \/ NothingReceived \/ NothingToSend
  BY <1>1, <1>5, IdleTurn
<1> QED
  BY <1>2, <1>3, <1>4, <1>5 DEF ServerStep

\* The turn of a slot concerns its own session only.
LEMMA TurnedPace ==
    ASSUME Kept, PaceInv, tx' = tx, PaceTurned
    PROVE  PaceInv'
<1> DEFINE k == Me.client_socket
<1>1. /\ slot \in Slots /\ Me = clients[slot] /\ SlotsDisjoint /\ SlotOwnsConnection
      /\ running /\ clients \in [Slots -> ServerClient] /\ conn \in [Sessions -> Connection]
  BY MeType DEF Kept, SlotsInv, SlotsServeConnections, TypeInv, TypeOK, ServerTypeOK,
                NetTypeOK, Me
<1>2. Me.connected /\ k \in Sessions
  BY MyPace DEF PaceTurned
<1>3. conn[k].srv = "open" /\ tx[k].at # "idle"
  BY <1>1, <1>2 DEF SlotOwnsConnection, Kept, SlotsInv, Unopened
<1>4. PICK cl, c : /\ clients' = [clients EXCEPT ![slot] = cl]
                   /\ conn' = [conn EXCEPT ![k] = c]
                   /\ cl.client_socket = k /\ c.srv # "backlog"
                   /\ PaceWith(k, cl, c, tx[k])
  BY DEF PaceTurned, Store
<1>5. ASSUME NEW q \in Sessions PROVE PaceAlone(q, conn'[q], tx'[q])
  <2>1. CASE q = k
    <3>1. conn'[q] = c
      BY <1>1, <1>2, <1>4, <2>1
    <3> QED
      BY <1>3, <1>4, <2>1, <3>1 DEF PaceAlone
  <2>2. CASE q # k
    <3>1. conn'[q] = conn[q]
      BY <1>1, <1>4, <2>2
    <3> QED
      BY <3>1 DEF PaceInv
  <2> QED
    BY <2>1, <2>2
<1>6. ASSUME NEW i \in Slots, clients'[i].connected
      PROVE  LET q == clients'[i].client_socket IN PaceWith(q, clients'[i], conn'[q], tx'[q])
  <2>1. CASE i = slot
    <3>1. clients'[i] = cl /\ conn'[k] = c
      BY <1>1, <1>2, <1>4, <2>1
    <3> QED
      BY <1>4, <3>1
  <2>2. CASE i # slot
    <3>1. clients'[i] = clients[i]
      BY <1>1, <1>4, <2>2
    <3>2. clients[i].client_socket # k /\ clients[i].client_socket \in Sessions
      BY <1>1, <1>2, <1>6, <2>2, <3>1 DEF SlotsDisjoint, Serves, SlotOwnsConnection
    <3>3. conn'[clients[i].client_socket] = conn[clients[i].client_socket]
      BY <1>1, <1>4, <3>2
    <3> QED
      BY <1>6, <3>1, <3>3 DEF PaceInv
  <2> QED
    BY <2>1, <2>2
<1> QED
  BY <1>5, <1>6 DEF PaceInv

\* A slot accepts a client that has asked at most.
LEMMA AcceptPace ==
    ASSUME Kept, PaceInv, tx' = tx, acceptClient
    PROVE  PaceInv'
<1>1. /\ SlotOwnsConnection /\ BacklogWaits /\ TypeInv /\ Unopened /\ running
      /\ backlog \in Seq(Sessions) /\ conn \in [Sessions -> Connection]
      /\ clients \in [Slots -> ServerClient] /\ slot \in Slots
  BY DEF Kept, SlotsInv, SlotsServeConnections, TypeInv, TypeOK, NetTypeOK, ServerTypeOK
<1> DEFINE k == Head(backlog)
           cl == [Me EXCEPT !.connected = TRUE, !.client_socket = k]
           c == [conn[k] EXCEPT !.srv = "open"]
<1>2. ~Me.connected /\ Me = clients[slot] /\ backlog # <<>> /\ Store(cl, c)
  BY DEF acceptClient, accept, Me
<1>3. k \in Sessions /\ k = backlog[1] /\ 1 \in DOMAIN backlog
  BY <1>1, <1>2
<1>4. conn[k].srv = "backlog" /\ tx[k].at # "idle" /\ conn[k] \in Connection
  BY <1>1, <1>3 DEF BacklogWaits, Unopened
<1>5. Me.request = "UNDEFINED"
  BY <1>1, <1>2 DEF TypeInv, SlotOK
<1> HIDE DEF k
<1>6. cl.client_socket = k /\ cl.request = "UNDEFINED"
  BY <1>1, <1>2, <1>3, <1>5 DEF ServerClient
<1>7. c.srv = "open" /\ c.up = conn[k].up /\ c.down = conn[k].down /\ c.cli = conn[k].cli
  BY <1>4 DEF Connection
<1> HIDE DEF cl, c
<1>8. clients' = [clients EXCEPT ![slot] = cl] /\ conn' = [conn EXCEPT ![k] = c]
  BY <1>2, <1>6 DEF Store
<1>9. PaceWith(k, cl, c, tx[k])
  <2>1. ASSUME c.cli = "open" PROVE Unasked(k, c, tx[k])
    <3>1. PaceAlone(k, conn[k], tx[k])
      BY <1>3 DEF PaceInv
    <3>2. Unasked(k, conn[k], tx[k])
      BY <1>4, <1>7, <2>1, <3>1 DEF PaceAlone
    <3> QED
      BY <1>7, <3>2 DEF Unasked
  <2>2. ASSUME c.cli = "open" PROVE AtMostOne(c)
    <3>1. Len(c.up) <= 1 /\ Len(c.up) \in Nat /\ Len(c.down) = 0
      <4>1. c.up \in Seq(Packet)
        BY <1>4, <1>7 DEF Connection
      <4> QED
        BY <2>1, <2>2, <4>1 DEF Unasked
    <3> QED
      BY <3>1 DEF AtMostOne
  <2> QED
    BY <1>6, <2>1, <2>2 DEF PaceWith
<1>10. ASSUME NEW q \in Sessions PROVE PaceAlone(q, conn'[q], tx'[q])
  <2>1. CASE q = k
    <3>1. conn'[q] = c
      BY <1>1, <1>3, <1>8, <2>1
    <3> QED
      BY <1>4, <1>7, <2>1, <3>1 DEF PaceAlone
  <2>2. CASE q # k
    <3>1. conn'[q] = conn[q]
      BY <1>1, <1>8, <2>2
    <3> QED
      BY <3>1 DEF PaceInv
  <2> QED
    BY <2>1, <2>2
<1>11. ASSUME NEW i \in Slots, clients'[i].connected
       PROVE  LET q == clients'[i].client_socket IN PaceWith(q, clients'[i], conn'[q], tx'[q])
  <2>1. CASE i = slot
    <3>1. clients'[i] = cl /\ conn'[k] = c
      BY <1>1, <1>3, <1>8, <2>1
    <3> QED
      BY <1>6, <1>9, <3>1
  <2>2. CASE i # slot
    <3>1. clients'[i] = clients[i]
      BY <1>1, <1>8, <2>2
    <3>2. clients[i].client_socket # k /\ clients[i].client_socket \in Sessions
      BY <1>1, <1>4, <1>11, <3>1 DEF SlotOwnsConnection
    <3>3. conn'[clients[i].client_socket] = conn[clients[i].client_socket]
      BY <1>1, <1>8, <3>2
    <3> QED
      BY <1>11, <3>1, <3>3 DEF PaceInv
  <2> QED
    BY <2>1, <2>2
<1> QED
  BY <1>10, <1>11 DEF PaceInv

\* A turn in which the slot does nothing.
LEMMA IdlePace ==
    ASSUME Kept, PaceInv, tx' = tx, Idles
    PROVE  PaceInv'
<1>1. clients \in [Slots -> ServerClient] /\ slot \in Slots /\ Me = clients[slot]
  BY MeType DEF Kept, SlotsInv, TypeInv, TypeOK, ServerTypeOK, Me
<1>2. conn' = conn
  BY DEF Idles, netVars
<1>3. ASSUME NEW i \in Slots
      PROVE  \/ clients'[i] = clients[i]
             \/ ~clients'[i].connected
  <2>1. CASE UNCHANGED clients
    BY <2>1
  <2>2. CASE /\ ~Me.connected
             /\ clients' = [clients EXCEPT ![slot].client_socket = NoSession]
    <3>1. CASE i = slot
      BY <1>1, <2>2, <3>1 DEF ServerClient
    <3>2. CASE i # slot
      BY <1>1, <2>2, <3>2
    <3> QED
      BY <3>1, <3>2
  <2> QED
    BY <2>1, <2>2 DEF Idles
<1> QED
  BY <1>2, <1>3 DEF PaceInv

\* A turn of the server's loop does, for the slot whose turn it is and the others.
LEMMA ServerPace ==
    ASSUME Kept, PaceInv, ~Segmented, Server
    PROVE  PaceInv'
BY ServerPaced, TurnedPace, AcceptPace, IdlePace DEF Server
-----------------------------------------------------------------------------
(* Every step, and what pace means. *)

\* Without faults the server's process goes on.
LEMMA RunsOn ==
    ASSUME TypeInv, ~MayFault, running, [Next]_vars
    PROVE  running'
<1>1. Undefined => running'
  BY ServerAssumption DEF Undefined
<1>2. ASSUME NEW r, OnPacket(r) PROVE running'
  BY <1>1, <1>2
     DEF OnPacket, ReadMissingFile, StartRead, WriteExistingFile, StartWrite, CreateFile,
         RequestUnexpected, AckExpected, AckOK, AckFinal, AckMismatch, ReadUnexpected,
         DataExpected, DataFinal, EndTransfer, DataMismatch, WriteUnexpected,
         Refuse, disconnectClient
<1>3. CASE Server
  BY <1>1, <1>2, <1>3
     DEF Server, ServerStep, acceptClient, accept, NothingToAccept, PeerClosed,
         NothingReceived, SendNextBlock, NothingToSend, disconnectClient, netVars
<1>4. CASE \E s \in Sessions : Client(s) \/ Timeout(s)
  <2>1. PICK s \in Sessions : ClientStep(s) \/ TimesOut(s)
    BY <1>4 DEF Client, Timeout
  <2>2. connectToServer(s) \/ ConnectFails(s) \/ Uses(s)
    BY <2>1, ClientShape
  <2> QED
    BY <2>2 DEF connectToServer, ConnectFails, Uses, netVars
<1>5. CASE \E s \in Sessions : Network(s)
  BY <1>5, NetworkShape
<1>6. CASE UNCHANGED vars
  BY <1>6 DEF vars, netVars
<1> QED
  BY <1>3, <1>4, <1>5, <1>6 DEF Next

\* Nothing is under way at first.
LEMMA PaceInit == Init => PaceInv
<1> SUFFICES ASSUME Init PROVE PaceInv
  OBVIOUS
<1>1. ASSUME NEW s \in Sessions PROVE PaceAlone(s, conn[s], tx[s])
  <2>1. conn[s] = NoConnection /\ tx[s] = NewTransfer
    BY DEF Init, NetInit, ClientInit
  <2>2. /\ conn[s].up = <<>> /\ conn[s].down = <<>>
        /\ tx[s].at = "idle" /\ tx[s].last_packet_no = 0
    BY <2>1 DEF NoConnection, NewTransfer
  <2>3. Len(conn[s].up) = 0 /\ Len(conn[s].up) <= 1
    BY <2>2
  <2> QED
    BY <2>2, <2>3 DEF PaceAlone, Unasked
<1>2. \A i \in Slots : ~clients[i].connected
  BY DEF Init, ServerInit, NewServerClient
<1> QED
  BY <1>1, <1>2 DEF PaceInv

\* The inductive invariant.
PaceSafe == FileInv /\ running /\ PaceInv

\* Every step keeps the invariants, with no wait that ends too early.
LEMMA PaceStep ==
    ASSUME ~Segmented, ~MayFault, Impatient = {}, PaceSafe, SlotFree, [Next]_vars
    PROVE  PaceSafe'
<1>1. Kept /\ TypeInv
  BY DEF PaceSafe, FileInv, Kept, SlotsInv
<1>2. running'
  BY <1>1, RunsOn DEF PaceSafe
<1>3. FileInv'
  BY FileInvStep DEF PaceSafe
<1>4. PaceInv'
  <2>1. PaceInv
    BY DEF PaceSafe
  <2>2. CASE Server
    BY <1>1, <2>1, <2>2, ServerPace
  <2>3. CASE \E s \in Sessions : Client(s)
    BY <1>1, <2>1, <2>3, ClientPace
  <2>4. CASE \E s \in Sessions : Timeout(s)
    BY <1>1, <2>1, <2>4, TimeoutPace
  <2>5. CASE \E s \in Sessions : Network(s)
    BY <1>1, <2>1, <2>5, NetworkPace
  <2>6. CASE UNCHANGED vars
    BY <2>1, <2>6 DEF vars, netVars, serverVars, PaceInv
  <2> QED
    BY <2>2, <2>3, <2>4, <2>5, <2>6 DEF Next
<1> QED
  BY <1>2, <1>3, <1>4 DEF PaceSafe

\* Who keeps pace is in lock step.
LEMMA PaceLocks ==
    ASSUME ~Segmented, PaceSafe
    PROVE  LockStep
<1> SUFFICES ASSUME NEW i \in Slots, NEW s \in Sessions, Serves(i, s), conn[s].cli = "open"
             PROVE  /\ InFlight(s) <= 1
                    /\ tx[s].last_packet_no - clients[i].block \in {0, 1}
  BY DEF LockStep
<1> DEFINE cl == clients[i]
           c == conn[s]
           t == tx[s]
<1>1. Kept /\ PaceInv
  BY DEF PaceSafe, FileInv, Kept
<1>2. /\ cl.connected /\ c.srv = "open" /\ PaceWith(s, cl, c, t) /\ SlotCounts(cl, c, t)
      /\ cl.request \in {"UNDEFINED", "READ", "WRITE"} /\ cl.block \in Nat
      /\ t.last_packet_no \in Nat /\ c.up \in Seq(Packet) /\ c.down \in Seq(Packet)
      /\ SessionOK(s, c, t)
  BY <1>1, SessionPace
<1>3. Len(c.up) \in Nat /\ Len(c.down) \in Nat
  BY <1>2
<1>4. c.cli = "open" /\ c.rst # "arrived"
  BY <1>2 DEF SessionOK, EndsAgree
<1>5. InFlight(s) = Len(c.up) + Len(c.down)
  BY DEF InFlight
<1> HIDE DEF cl, c, t
<1>6. Len(c.up) + Len(c.down) <= 1
  BY <1>2, <1>4 DEF PaceWith, AtMostOne
<1>7. Len(c.up) \in {0, 1}
  <2>1. \A a, b \in Nat : a + b <= 1 => a \in {0, 1}
    OBVIOUS
  <2> QED
    BY <1>3, <1>6, <2>1
<1>8. t.last_packet_no - cl.block \in {0, 1}
  <2>1. CASE cl.request = "UNDEFINED"
    <3>1. cl.block = 0
      BY <1>2, <2>1 DEF SlotCounts, CountsFromZero
    <3>2. t.last_packet_no \in {0, 1}
      BY <1>2, <1>4, <1>7, <2>1 DEF PaceWith, Unasked
    <3> QED
      BY <3>1, <3>2
  <2>2. CASE cl.request = "READ"
    <3>1. t.last_packet_no \in {cl.block, cl.block + 1}
      BY <1>2, <1>4, <2>2 DEF PaceWith, PaceRead
    <3> QED
      BY <1>2, <3>1
  <2>3. CASE cl.request = "WRITE"
    <3>1. cl.block + Len(c.up) = t.last_packet_no
      BY <1>2, <1>4, <2>3 DEF SlotCounts, WritesFor
    <3>2. \A a, b \in Nat : \A n \in {0, 1} : b + n = a => a - b \in {0, 1}
      OBVIOUS
    <3> QED
      BY <1>2, <1>7, <3>1, <3>2
  <2> QED
    BY <1>2, <2>1, <2>2, <2>3
<1> QED
  BY <1>5, <1>6, <1>8 DEF cl, t

\* Where there is a slot for every session, whoever waits finds one.
LEMMA EnoughSlots ==
    ASSUME IsFiniteSet(Sessions), Cardinality(Sessions) <= MaxClients, SlotsInv, running
    PROVE  SlotFree
<1> SUFFICES ASSUME NEW s \in Sessions, conn[s].srv = "backlog",
                    \A i \in Slots : clients[i].connected
             PROVE  FALSE
  BY DEF SlotFree
<1> DEFINE Others == Sessions \ {s}
           f == [i \in Slots |-> clients[i].client_socket]
<1>1. /\ IsFiniteSet(Others) /\ Cardinality(Others) = Cardinality(Sessions) - 1
      /\ Cardinality(Sessions) \in Nat
  BY FS_RemoveElement, FS_CardinalityType
<1>2. IsFiniteSet(Slots) /\ Cardinality(Slots) = MaxClients
  <2>1. MaxClients \in Nat \ {0} /\ MaxClients - 1 \in Int
    BY ServerAssumption
  <2>2. /\ IsFiniteSet(0 .. MaxClients - 1)
        /\ Cardinality(0 .. MaxClients - 1) =
              IF 0 > MaxClients - 1 THEN 0 ELSE (MaxClients - 1) - 0 + 1
    BY <2>1, FS_Interval
  <2> QED
    BY <2>1, <2>2 DEF Slots
<1>3. f \in [Slots -> Others]
  <2>1. ASSUME NEW i \in Slots PROVE clients[i].client_socket \in Others
    BY DEF SlotsInv, SlotsServeConnections, SlotOwnsConnection
  <2> QED
    BY <2>1
<1>4. Cardinality(Others) < Cardinality(Slots)
  BY <1>1, <1>2, ServerAssumption
<1> HIDE DEF Others, f
<1>5. PICK i \in Slots, j \in Slots : i # j /\ f[i] = f[j]
  BY <1>1, <1>2, <1>3, <1>4, FS_PigeonHole
<1>6. clients[i].client_socket = clients[j].client_socket
  BY <1>5 DEF f
<1> QED
  BY <1>5, <1>6 DEF SlotsInv, SlotsServeConnections, SlotsDisjoint, Serves

(***************************************************************************)
(* A transfer proceeds in lock step, whoever sends, fetches or waits in    *)
(* between, and whatever becomes of the disk: at most one packet is under  *)
(* way, and the counters of sendFile or getFile and of the slot are at     *)
(* most one apart.  Nobody's wait may end while an answer is due, and a    *)
(* client that waits to be accepted must find a slot.                      *)
(***************************************************************************)
THEOREM TransfersInLockStep ==
    ASSUME ~Segmented, ~MayFault, Impatient = {}
    PROVE  Spec /\ []SlotFree => []LockStep
<1>1. Init => PaceSafe
  BY FileInvInit, PaceInit DEF PaceSafe, Init, NetInit
<1>2. PaceSafe /\ SlotFree /\ [Next]_vars => PaceSafe'
  BY PaceStep
<1>3. PaceSafe => LockStep
  BY PaceLocks
<1> QED
  BY <1>1, <1>2, <1>3, PTL DEF Spec

(***************************************************************************)
(* With a slot of the array clients for every session (at most             *)
(* TFTP_SERVER_MAX_CLIENTS masters), nobody waits for a slot: lock step    *)
(* follows from the clients' patience alone.                               *)
(***************************************************************************)
THEOREM LockStepWithSlots ==
    ASSUME ~Segmented, ~MayFault, Impatient = {},
           IsFiniteSet(Sessions), Cardinality(Sessions) <= MaxClients
    PROVE  Spec => []LockStep
<1>1. Init => PaceSafe
  BY FileInvInit, PaceInit DEF PaceSafe, Init, NetInit
<1>2. PaceSafe /\ [Next]_vars => PaceSafe'
  BY PaceStep, EnoughSlots DEF PaceSafe, FileInv
<1>3. PaceSafe => LockStep
  BY PaceLocks
<1> QED
  BY <1>1, <1>2, <1>3, PTL DEF Spec
=============================================================================

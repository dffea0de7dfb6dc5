------------------------------ MODULE TftpProofs ------------------------------
(***************************************************************************)
(* Theorems about TftpSystem that hold for every number of sessions and    *)
(* slots, every file, and with every fault the model knows.                *)
(***************************************************************************)
EXTENDS TftpProperties, SequenceTheorems, TLAPS

-----------------------------------------------------------------------------
(* Types of what the operators of TftpPacket and TftpNet return. *)

LEMMA PacketTypes ==
    /\ Cleared \in Packet
    /\ \A n \in Names : createRRQ(n) \in Packet /\ createWRQ(n) \in Packet
    /\ \A n \in Nat : createACK(n) \in Packet /\ createError(n) \in Packet
    /\ \A n \in Nat, d \in Payload : createData(n, d) \in Packet
    /\ \A d \in Payload : Raw(d) \in Packet
<1> USE DEF Packet, Opcode, Cleared
<1>1. <<>> \in Payload
  BY DEF Payload
<1>2. \A n \in Nat : Word(n) \in Nat
  BY PacketAssumption DEF Word
<1>3. Cleared \in Packet /\ \A d \in Payload : Raw(d) \in Packet
  BY <1>1 DEF Raw
<1>4. \A n \in Names : createRRQ(n) \in Packet /\ createWRQ(n) \in Packet
  BY <1>1 DEF createRRQ, createWRQ
<1>5. \A n \in Nat : createACK(n) \in Packet /\ createError(n) \in Packet
  BY <1>1, <1>2 DEF createACK, createError
<1>6. \A n \in Nat, d \in Payload : createData(n, d) \in Packet
  BY <1>2 DEF createData
<1> QED
  BY <1>3, <1>4, <1>5, <1>6

LEMMA NotEmpty ==
    \A s \in Seq(Packet) : Len(s) > 0 => s # <<>>
<1>1. Len(<<>>) = 0
  OBVIOUS
<1> QED
  BY <1>1

LEMMA LaterTail ==
    \A q \in Seq(Packet) : Len(q) > 1 => Tail(Tail(q)) \in Seq(Packet)
<1> SUFFICES ASSUME NEW q \in Seq(Packet), Len(q) > 1
             PROVE  Tail(Tail(q)) \in Seq(Packet)
  OBVIOUS
<1>1. q # <<>>
  OBVIOUS
<1>2. Len(Tail(q)) = Len(q) - 1 /\ Tail(q) \in Seq(Packet)
  BY <1>1
<1>3. Len(Tail(q)) > 0
  BY <1>2
<1>4. Tail(q) # <<>>
  BY <1>2, <1>3, NotEmpty
<1> QED
  BY <1>2, <1>4

LEMMA ReadsType ==
    ASSUME NEW q \in Seq(Packet), NEW r \in Reads(q)
    PROVE  /\ r.pkt \in Packet
           /\ r.rest \in Seq(Packet)
           /\ q # <<>>
<1> DEFINE first == Head(q)
<1>1. q # <<>> /\ first \in Packet /\ Tail(q) \in Seq(Packet) /\ first.data \in Payload
  BY DEF Reads, Packet
<1>2. CASE r = WholeRead(q)
  BY <1>1, <1>2 DEF WholeRead
<1>3. CASE r \in ShortReads(q)
  <2>1. PICK k \in 0 .. Len(first.data) - 1 : r = ShortRead(q, k)
    BY <1>3 DEF ShortReads
  <2>2. /\ SubSeq(first.data, 1, k) \in Payload
        /\ SubSeq(first.data, k + 1, Len(first.data)) \in Payload
    BY <1>1, <2>1 DEF Payload
  <2>3. [first EXCEPT !.data = SubSeq(first.data, 1, k)] \in Packet
    BY <1>1, <2>2 DEF Packet
  <2>4. <<Raw(SubSeq(first.data, k + 1, Len(first.data)))>> \o Tail(q) \in Seq(Packet)
    BY <1>1, <2>2, PacketTypes
  <2> QED
    BY <1>1, <2>1, <2>3, <2>4 DEF ShortRead
<1>4. CASE r \in JoinedReads(q)
  <2> DEFINE next == q[2]
  <2>1. Len(q) > 1 /\ next \in Packet /\ next.data \in Payload
    BY <1>4 DEF JoinedReads, Packet
  <2>2. PICK j \in 0 .. Len(next.data) : r = JoinedRead(q, j)
    BY <1>4 DEF JoinedReads
  <2> DEFINE left == SubSeq(next.data, j + 1, Len(next.data))
             joined == first.data \o <<HeaderCell>> \o SubSeq(next.data, 1, j)
             rest == (IF left = <<>> THEN <<>> ELSE <<Raw(left)>>) \o Tail(Tail(q))
  <2>3. left \in Payload /\ joined \in Payload
    BY <1>1, <2>1, <2>2 DEF Payload
  <2>4. [first EXCEPT !.data = joined] \in Packet
    BY <1>1, <2>3 DEF Packet
  <2>5. Tail(Tail(q)) \in Seq(Packet)
    BY <2>1, LaterTail
  <2>6. rest \in Seq(Packet)
    BY <2>3, <2>5, PacketTypes
  <2>7. r.pkt = [first EXCEPT !.data = joined] /\ r.rest = rest
    BY <2>2 DEF JoinedRead
  <2> QED
    BY <1>1, <2>4, <2>6, <2>7
<1> QED
  BY <1>1, <1>2, <1>3, <1>4 DEF Reads

LEMMA ConnectionTypes ==
    ASSUME NEW c \in Connection, NEW p \in Packet
    PROVE  /\ ClientSends(c, p) \in Connection
           /\ ClientSends(c, p).srv = c.srv
           /\ ClientCloses(c) \in Connection
           /\ ClientCloses(c).srv = c.srv
           /\ Reset(c) \in Connection
           /\ Reset(c).srv = c.srv
           /\ ServerCloses(c) \in Connection
           /\ ServerCloses(c).srv = "closed"
           /\ \A q \in Seq(Packet) : /\ [c EXCEPT !.up = q] \in Connection
                                     /\ [c EXCEPT !.down = q] \in Connection
<1>1. <<>> \in Seq(Packet) /\ \A q \in Seq(Packet) : Append(q, p) \in Seq(Packet)
  OBVIOUS
<1> USE <1>1 DEF Connection
<1>2. ClientSends(c, p) \in Connection /\ ClientSends(c, p).srv = c.srv
  BY DEF ClientSends
<1>3. ClientCloses(c) \in Connection /\ ClientCloses(c).srv = c.srv
  BY DEF ClientCloses
<1>4. Reset(c) \in Connection /\ Reset(c).srv = c.srv
  BY DEF Reset
<1>5. ServerCloses(c) \in Connection /\ ServerCloses(c).srv = "closed"
  BY DEF ServerCloses
<1> QED
  BY <1>2, <1>3, <1>4, <1>5

LEMMA ServerSendsType ==
    ASSUME NEW c \in Connection, NEW p \in Packet, NEW o \in ServerSends(c, p)
    PROVE  o.conn \in Connection /\ o.conn.srv = c.srv /\ o.ok \in BOOLEAN
<1> DEFINE Sent == {[ok |-> TRUE, conn |-> [c EXCEPT !.down = Append(@, p)]]}
           Owed == {[ok |-> TRUE, conn |-> [c EXCEPT !.rst = "owed"]]}
<1>1. /\ c.rst = "arrived" => ServerSends(c, p) = {[ok |-> FALSE, conn |-> c]}
      /\ c.rst = "owed" => ServerSends(c, p) = {[ok |-> TRUE, conn |-> c],
                                                [ok |-> FALSE, conn |-> Reset(c)]}
      /\ c.rst = "no" => ServerSends(c, p) = IF c.cli = "open" THEN Sent ELSE Owed
  BY DEF ServerSends
<1>2. c.rst \in {"no", "owed", "arrived"}
  BY DEF Connection
<1>3. /\ [c EXCEPT !.down = Append(@, p)] \in Connection
      /\ [c EXCEPT !.rst = "owed"] \in Connection
  <2>1. \A q \in Seq(Packet) : Append(q, p) \in Seq(Packet)
    OBVIOUS
  <2> QED
    BY <2>1 DEF Connection
<1>4. /\ [c EXCEPT !.down = Append(@, p)].srv = c.srv
      /\ [c EXCEPT !.rst = "owed"].srv = c.srv
  BY DEF Connection
<1>5. CASE c.rst = "arrived"
  <2>1. o = [ok |-> FALSE, conn |-> c]
    BY <1>1, <1>5
  <2> QED
    BY <2>1
<1>6. CASE c.rst = "owed"
  <2>1. o = [ok |-> TRUE, conn |-> c] \/ o = [ok |-> FALSE, conn |-> Reset(c)]
    BY <1>1, <1>6
  <2>2. CASE o = [ok |-> TRUE, conn |-> c]
    BY <2>2
  <2>3. CASE o = [ok |-> FALSE, conn |-> Reset(c)]
    BY <2>3, ConnectionTypes
  <2> QED
    BY <2>1, <2>2, <2>3
<1>7. CASE c.rst = "no"
  <2>1. \/ o = [ok |-> TRUE, conn |-> [c EXCEPT !.down = Append(@, p)]]
        \/ o = [ok |-> TRUE, conn |-> [c EXCEPT !.rst = "owed"]]
    BY <1>1, <1>7
  <2>2. CASE o = [ok |-> TRUE, conn |-> [c EXCEPT !.down = Append(@, p)]]
    BY <2>2, <1>3, <1>4
  <2>3. CASE o = [ok |-> TRUE, conn |-> [c EXCEPT !.rst = "owed"]]
    BY <2>3, <1>3, <1>4
  <2> QED
    BY <2>1, <2>2, <2>3
<1> QED
  BY <1>2, <1>5, <1>6, <1>7

LEMMA NextBlockType ==
    ASSUME NEW cl \in ServerClient, cl.name \in Names,
           content \in [Names -> Payload]
    PROVE  /\ NextBlock(cl) \in ServerClient
           /\ NextBlock(cl).last_sent_packet \in Packet
           /\ NextBlock(cl).connected = cl.connected
           /\ NextBlock(cl).client_socket = cl.client_socket
           /\ NextBlock(cl).request = cl.request
           /\ NextBlock(cl).name = cl.name
<1> DEFINE file == content[cl.name]
           n == IF cl.disconnect_on_ack THEN 0
                ELSE IF Len(file) - cl.pos < DataCells THEN Len(file) - cl.pos
                ELSE DataCells
           data == SubSeq(file, cl.pos + 1, cl.pos + n)
<1>1. file \in Payload /\ Len(file) \in Nat /\ cl.pos \in Nat /\ DataCells \in Nat
  BY PacketAssumption DEF ServerClient, Payload
<1>2. n \in Int /\ cl.pos + n \in Nat /\ cl.pos + n <= (IF cl.disconnect_on_ack THEN cl.pos ELSE Len(file))
  BY <1>1
<1>3. data \in Payload
  <2>1. CASE cl.pos + n <= Len(file)
    <3>1. cl.pos + n \in Nat /\ cl.pos + 1 \in Nat /\ cl.pos + 1 >= 1
      BY <1>1, <1>2
    <3>2. \A k \in cl.pos + 1 .. cl.pos + n : k \in 1 .. Len(file)
      BY <1>1, <2>1, <3>1
    <3>3. \A k \in 1 .. Len(file) : file[k] \in Cell \cup {HeaderCell}
      BY <1>1 DEF Payload
    <3>4. \A k \in cl.pos + 1 .. cl.pos + n : file[k] \in Cell \cup {HeaderCell}
      BY <3>2, <3>3
    <3> HIDE DEF n, file
    <3> QED
      <4>1. ASSUME NEW a \in Int, NEW b \in Int,
                   \A k \in a .. b : file[k] \in Cell \cup {HeaderCell}
            PROVE  SubSeq(file, a, b) \in Seq(Cell \cup {HeaderCell})
        BY <4>1, SubSeqProperties
      <4> QED
        BY <3>1, <3>4, <4>1 DEF Payload
  <2>2. CASE ~(cl.pos + n <= Len(file))
    <3>1. n = 0
      BY <1>1, <1>2, <2>2
    <3>2. data = <<>>
      BY <1>1, <3>1 DEF Payload
    <3> HIDE DEF data
    <3> QED
      BY <3>2 DEF Payload
  <2> QED
    BY <2>1, <2>2
<1>4. createData(cl.block + 1, data) \in Packet /\ cl.block + 1 \in Nat
  BY <1>3, PacketTypes DEF ServerClient
<1>5. (cl.disconnect_on_ack \/ n < DataCells) \in BOOLEAN
  OBVIOUS
<1> HIDE DEF n, data
<1>6. NextBlock(cl) = [cl EXCEPT !.block = cl.block + 1, !.pos = cl.pos + n,
                                !.disconnect_on_ack = cl.disconnect_on_ack \/ n < DataCells,
                                !.last_sent_packet = createData(cl.block + 1, data)]
  BY DEF NextBlock, n, data
<1> QED
  BY <1>2, <1>4, <1>5, <1>6 DEF ServerClient
-----------------------------------------------------------------------------
(***************************************************************************)
(* The type invariant is not inductive alone: a connected slot must have a *)
(* connection, one that serves a request a file name, and a slot that is   *)
(* accepted into no request left from before.                              *)
(***************************************************************************)
SlotOK(cl) ==
    /\ cl \in ServerClient
    /\ cl.connected => cl.client_socket \in Sessions
    /\ cl.connected /\ cl.request # "UNDEFINED" => cl.name \in Names
    /\ ~cl.connected => cl.request = "UNDEFINED"

TypeInv == TypeOK /\ \A i \in Slots : SlotOK(clients[i])

(***************************************************************************)
(* What a step of the server does to its slot and connection: it goes on   *)
(* serving the connection, lets go of it, accepts one, or does nothing.    *)
(***************************************************************************)
Touches(cl, c) ==
    /\ Me.connected
    /\ SlotOK(cl)
    /\ c \in Connection
    /\ cl.client_socket = Me.client_socket
    /\ Store(cl, c)
    /\ running' \in BOOLEAN
    /\ UNCHANGED backlog

Keeps == \E cl, c : Touches(cl, c) /\ cl.connected /\ c.srv = Line.srv
Leaves == \E cl, c : Touches(cl, c) /\ ~cl.connected /\ c.srv = "closed"
Idles ==
    /\ UNCHANGED netVars
    /\ \/ UNCHANGED clients
       \/ /\ ~Me.connected
          /\ clients' = [clients EXCEPT ![slot].client_socket = NoSession]

LEMMA MeType ==
    ASSUME TypeInv
    PROVE  /\ slot \in Slots
           /\ SlotOK(Me)
           /\ Me.connected => /\ Line \in Connection
                              /\ \A r \in receivePacket :
                                    /\ r.pkt \in Packet
                                    /\ After(r) \in Connection
                                    /\ After(r).srv = Line.srv
<1>1. slot \in Slots /\ SlotOK(Me)
  BY DEF TypeInv, TypeOK, ServerTypeOK, Me
<1>2. Me.connected => Line \in Connection
  BY <1>1 DEF TypeInv, TypeOK, NetTypeOK, Line, SlotOK
<1>3. ASSUME Me.connected, NEW r \in receivePacket
      PROVE  /\ r.pkt \in Packet
             /\ After(r) \in Connection
             /\ After(r).srv = Line.srv
  <2>1. r \in Reads(Line.up) /\ Line \in Connection /\ Line.up \in Seq(Packet)
    BY <1>2, <1>3 DEF receivePacket, Connection
  <2>2. r.pkt \in Packet /\ r.rest \in Seq(Packet)
    BY <2>1, ReadsType
  <2> QED
    BY <2>1, <2>2 DEF After, Connection
<1> QED
  BY <1>1, <1>2, <1>3

LEMMA AnswerKeeps ==
    ASSUME TypeInv, Me.connected,
           NEW cl, SlotOK(cl), cl.connected, cl.client_socket = Me.client_socket,
           NEW c \in Connection, c.srv = Line.srv, NEW p \in Packet,
           Answer(cl, c, p), running' \in BOOLEAN, UNCHANGED backlog
    PROVE  Keeps
<1>1. PICK o \in ServerSends(c, p) : Store(cl, o.conn)
  BY DEF Answer
<1>2. o.conn \in Connection /\ o.conn.srv = Line.srv
  BY ServerSendsType
<1> QED
  BY <1>1, <1>2 DEF Keeps, Touches

LEMMA SendDataKeeps ==
    ASSUME TypeInv, Me.connected,
           NEW cl, SlotOK(cl), cl.connected, cl.client_socket = Me.client_socket,
           cl.name \in Names,
           NEW c \in Connection, c.srv = Line.srv,
           sendPacketData(cl, c), running' \in BOOLEAN, UNCHANGED backlog
    PROVE  Keeps
<1> DEFINE nb == NextBlock(cl)
<1>1. content \in [Names -> Payload] /\ cl \in ServerClient
  BY DEF TypeInv, TypeOK, ServerTypeOK, SlotOK
<1>2. /\ nb \in ServerClient
      /\ nb.last_sent_packet \in Packet
      /\ nb.connected = cl.connected
      /\ nb.client_socket = cl.client_socket
      /\ nb.request = cl.request
      /\ nb.name = cl.name
  BY <1>1, NextBlockType
<1>3. PICK o \in ServerSends(c, nb.last_sent_packet) :
          Store([nb EXCEPT !.acknowledged = IF o.ok THEN "WAITING" ELSE @], o.conn)
  BY DEF sendPacketData
<1>4. o.conn \in Connection /\ o.conn.srv = Line.srv
  BY <1>2, ServerSendsType
<1> DEFINE new == [nb EXCEPT !.acknowledged = IF o.ok THEN "WAITING" ELSE @]
<1> HIDE DEF nb
<1>5. /\ new \in ServerClient
      /\ new.connected = cl.connected
      /\ new.client_socket = cl.client_socket
      /\ new.request = cl.request
      /\ new.name = cl.name
  BY <1>2 DEF ServerClient
<1>6. SlotOK(new) /\ new.connected /\ new.client_socket = Me.client_socket
  BY <1>5 DEF SlotOK
<1> HIDE DEF new
<1>7. Store(new, o.conn)
  BY <1>3 DEF new
<1> QED
  BY <1>4, <1>6, <1>7 DEF Keeps, Touches

LEMMA DisconnectLeaves ==
    ASSUME TypeInv, Me.connected,
           NEW cl \in ServerClient, cl.client_socket = Me.client_socket,
           NEW c \in Connection,
           disconnectClient(cl, c), UNCHANGED backlog
    PROVE  Leaves
<1> DEFINE new == Disconnected(cl)
<1>1. /\ new \in ServerClient /\ ~new.connected /\ new.request = "UNDEFINED"
      /\ new.client_socket = Me.client_socket
  <2>1. \A ptr \in Pointer : Deleted(ptr) \in Pointer
    BY DEF Deleted, Pointer
  <2>2. Released(cl) \in ServerClient
    BY <2>1, PacketTypes DEF ServerClient, Released
  <2>3. /\ ~Released(cl).connected /\ Released(cl).request = "UNDEFINED"
        /\ Released(cl).client_socket = Me.client_socket
    BY DEF ServerClient, Released
  <2> DEFINE rel == Released(cl)
  <2> HIDE DEF rel
  <2>4. /\ [rel EXCEPT !.block = 0] \in ServerClient
        /\ ~[rel EXCEPT !.block = 0].connected
        /\ [rel EXCEPT !.block = 0].request = "UNDEFINED"
        /\ [rel EXCEPT !.block = 0].client_socket = Me.client_socket
    BY <2>2, <2>3 DEF ServerClient, rel
  <2> QED
    BY <2>4 DEF Disconnected, rel
<1>2. ServerCloses(c) \in Connection /\ ServerCloses(c).srv = "closed"
  BY ConnectionTypes, PacketTypes
<1>3. Store(new, ServerCloses(c)) /\ running' \in BOOLEAN
  BY DEF disconnectClient, Undefined
<1> QED
  BY <1>1, <1>2, <1>3 DEF Leaves, Touches, SlotOK

LEMMA RefuseLeaves ==
    ASSUME TypeInv, Me.connected,
           NEW cl \in ServerClient, cl.client_socket = Me.client_socket,
           NEW c \in Connection, NEW code \in Nat,
           Refuse(cl, c, code), UNCHANGED backlog
    PROVE  Leaves
<1>1. PICK o \in ServerSends(c, createError(code)) : disconnectClient(cl, o.conn)
  BY DEF Refuse
<1>2. o.conn \in Connection
  BY PacketTypes, ServerSendsType
<1> QED
  BY <1>1, <1>2, DisconnectLeaves

(***************************************************************************)
(* The actions of the server, by what they do to the slot's connection.    *)
(***************************************************************************)
FilesTyped == stored \in SUBSET Names /\ content \in [Names -> Payload]

LEMMA AdvanceType ==
    ASSUME TypeInv, Advance
    PROVE  phase' \in Phases /\ slot' \in Slots
<1>1. phase \in Phases /\ slot \in Slots /\ MaxClients \in Nat \ {0}
  BY ServerAssumption DEF TypeInv, TypeOK, ServerTypeOK
<1>2. phase' \in Phases
  BY <1>1 DEF Advance, Visit, Phases
<1>3. slot' \in Slots
  BY <1>1 DEF Advance, Visit, Slots
<1> QED
  BY <1>2, <1>3

LEMMA RequestShape ==
    ASSUME TypeInv, NEW r \in receivePacket,
           \/ ReadMissingFile(r) \/ StartRead(r)
           \/ WriteExistingFile(r) \/ StartWrite(r) \/ RequestUnexpected(r)
    PROVE  (Keeps \/ Leaves) /\ FilesTyped'
<1>1. Me.connected
  BY DEF receivePacket, Receiving
<1>2. /\ Me \in ServerClient /\ Me.client_socket \in Sessions
      /\ Line \in Connection
      /\ r.pkt \in Packet /\ After(r) \in Connection /\ After(r).srv = Line.srv
  BY <1>1, MeType DEF SlotOK
<1>3. FilesTyped
  BY DEF TypeInv, TypeOK, ServerTypeOK, FilesTyped
<1>4. CASE ReadMissingFile(r)
  <2> DEFINE cl == [Me EXCEPT !.request = "READ", !.file_rrq = "live"]
  <2>1. cl \in ServerClient /\ cl.client_socket = Me.client_socket
    BY <1>2 DEF ServerClient, Pointer
  <2>2. Refuse(cl, After(r), 1) /\ UNCHANGED backlog /\ filesUnchanged
    BY <1>4 DEF ReadMissingFile
  <2> HIDE DEF cl
  <2>3. Leaves
    BY <1>1, <1>2, <2>1, <2>2, RefuseLeaves
  <2> QED
    BY <1>3, <2>2, <2>3 DEF filesUnchanged, FilesTyped
<1>5. CASE StartRead(r)
  <2> DEFINE cl == [Me EXCEPT !.request = "READ", !.file_rrq = "live",
                              !.name = r.pkt.name]
  <2>1. r.pkt.name \in Names
    BY <1>2, <1>5 DEF StartRead, isRRQ, Packet
  <2>2. /\ cl \in ServerClient /\ cl.client_socket = Me.client_socket
        /\ cl.connected = Me.connected /\ cl.name = r.pkt.name
    BY <1>2, <2>1 DEF ServerClient, Pointer
  <2>3. sendPacketData(cl, After(r)) /\ UNCHANGED <<backlog, running>> /\ filesUnchanged
    BY <1>5 DEF StartRead
  <2> HIDE DEF cl
  <2>4. SlotOK(cl) /\ running' \in BOOLEAN
    BY <1>1, <1>2, <2>1, <2>2, <2>3 DEF SlotOK, TypeInv, TypeOK, NetTypeOK
  <2>5. Keeps
    BY <1>1, <1>2, <2>1, <2>2, <2>3, <2>4, SendDataKeeps
  <2> QED
    BY <1>3, <2>3, <2>5 DEF filesUnchanged, FilesTyped
<1>6. CASE WriteExistingFile(r)
  <2> DEFINE cl == [Me EXCEPT !.request = "WRITE", !.file_rrq = "live"]
  <2>1. cl \in ServerClient /\ cl.client_socket = Me.client_socket
    BY <1>2 DEF ServerClient, Pointer
  <2>2. Refuse(cl, After(r), 6) /\ UNCHANGED backlog /\ filesUnchanged
    BY <1>6 DEF WriteExistingFile
  <2> HIDE DEF cl
  <2>3. Leaves
    BY <1>1, <1>2, <2>1, <2>2, RefuseLeaves
  <2> QED
    BY <1>3, <2>2, <2>3 DEF filesUnchanged, FilesTyped
<1>7. CASE StartWrite(r)
  <2>1. r.pkt.name \in Names
    BY <1>2, <1>7 DEF StartWrite, CreateFile, isWRQ, Packet
  <2>2. PICK opened \in BOOLEAN :
           /\ stored' = IF opened THEN stored \cup {r.pkt.name} ELSE stored
           /\ content' = IF opened THEN [content EXCEPT ![r.pkt.name] = <<>>]
                         ELSE content
           /\ Answer([Me EXCEPT !.request = "WRITE", !.file_rrq = "freed",
                                !.file_wrq = "live", !.name = r.pkt.name,
                                !.good = opened],
                     After(r), createACK(0))
    BY <1>7 DEF StartWrite, CreateFile
  <2> DEFINE cl == [Me EXCEPT !.request = "WRITE", !.file_rrq = "freed",
                              !.file_wrq = "live", !.name = r.pkt.name,
                              !.good = opened]
  <2>3. /\ cl \in ServerClient /\ cl.client_socket = Me.client_socket
        /\ cl.connected = Me.connected /\ cl.name = r.pkt.name
    BY <1>2, <2>1 DEF ServerClient, Pointer
  <2>4. Answer(cl, After(r), createACK(0)) /\ UNCHANGED <<backlog, running>>
    BY <1>7, <2>2 DEF StartWrite, CreateFile
  <2> HIDE DEF cl
  <2>5. SlotOK(cl) /\ running' \in BOOLEAN
    BY <1>1, <1>2, <2>1, <2>3, <2>4 DEF SlotOK, TypeInv, TypeOK, NetTypeOK
  <2>6. Keeps
    BY <1>1, <1>2, <2>3, <2>4, <2>5, PacketTypes, AnswerKeeps
  <2>7. <<>> \in Payload
    BY DEF Payload
  <2>8. FilesTyped'
    BY <1>3, <2>1, <2>2, <2>7 DEF FilesTyped
  <2> QED
    BY <2>6, <2>8
<1>8. CASE RequestUnexpected(r)
  <2>1. Refuse(Me, After(r), 4) /\ UNCHANGED backlog /\ filesUnchanged
    BY <1>8 DEF RequestUnexpected
  <2>2. Leaves
    BY <1>1, <1>2, <2>1, RefuseLeaves
  <2> QED
    BY <1>3, <2>1, <2>2 DEF filesUnchanged, FilesTyped
<1> QED
  BY <1>4, <1>5, <1>6, <1>7, <1>8

LEMMA ReadShape ==
    ASSUME TypeInv, NEW r \in receivePacket,
           AckExpected(r) \/ AckFinal(r) \/ AckMismatch(r) \/ ReadUnexpected(r)
    PROVE  (Keeps \/ Leaves) /\ FilesTyped'
<1>1. Me.connected /\ Me.request = "READ"
  BY DEF receivePacket, AckExpected, AckFinal, AckFor, AckMismatch, ReadUnexpected, Serving
<1>2. /\ SlotOK(Me) /\ Me \in ServerClient /\ Me.client_socket \in Sessions
      /\ Line \in Connection
      /\ r.pkt \in Packet /\ After(r) \in Connection /\ After(r).srv = Line.srv
  BY <1>1, MeType DEF SlotOK
<1> DEFINE acked == [Me EXCEPT !.acknowledged = "OK"]
<1>3. /\ acked \in ServerClient /\ acked.client_socket = Me.client_socket
      /\ acked.connected /\ SlotOK(acked)
  BY <1>1, <1>2 DEF ServerClient, SlotOK
<1>4. /\ UNCHANGED backlog /\ filesUnchanged
      /\ AckFinal(r) \/ ReadUnexpected(r) \/ UNCHANGED running
  BY DEF AckExpected, AckFinal, AckMismatch, ReadUnexpected, AckOK
<1>5. FilesTyped'
  BY <1>4 DEF TypeInv, TypeOK, ServerTypeOK, FilesTyped, filesUnchanged
<1>6. UNCHANGED running => running' \in BOOLEAN
  BY DEF TypeInv, TypeOK, NetTypeOK
<1> HIDE DEF acked
<1>7. CASE AckExpected(r)
  <2>1. Store(acked, After(r)) /\ UNCHANGED running
    BY <1>7 DEF AckExpected, AckOK, acked
  <2> QED
    BY <1>1, <1>2, <1>3, <1>4, <1>5, <1>6, <2>1 DEF Keeps, Touches
<1>8. CASE AckFinal(r)
  <2>1. disconnectClient(acked, After(r))
    BY <1>8 DEF AckFinal, acked
  <2> QED
    BY <1>1, <1>2, <1>3, <1>4, <1>5, <2>1, DisconnectLeaves
<1>9. CASE AckMismatch(r)
  <2>1. Answer(Me, After(r), Me.last_sent_packet) /\ UNCHANGED running
    BY <1>9 DEF AckMismatch
  <2>2. Me.last_sent_packet \in Packet
    BY <1>2 DEF ServerClient
  <2> QED
    BY <1>1, <1>2, <1>4, <1>5, <1>6, <2>1, <2>2, AnswerKeeps
<1>10. CASE ReadUnexpected(r)
  <2>1. Refuse(Me, After(r), 4)
    BY <1>10 DEF ReadUnexpected
  <2> QED
    BY <1>1, <1>2, <1>4, <1>5, <2>1, RefuseLeaves
<1> QED
  BY <1>7, <1>8, <1>9, <1>10

LEMMA PartType ==
    ASSUME NEW data \in Payload, NEW n \in 0 .. Len(data)
    PROVE  SubSeq(data, 1, n) \in Payload
<1>1. Len(data) \in Nat /\ \A i \in 1 .. n : data[i] \in Cell \cup {HeaderCell}
  BY DEF Payload
<1> QED
  BY <1>1, SubSeqProperties DEF Payload

LEMMA WriteTypes ==
    ASSUME TypeInv, Me.name \in Names, NEW r, r.pkt \in Packet,
           NEW n \in 0 .. Len(r.pkt.data), write(r.pkt.data, n)
    PROVE  FilesTyped'
<1>1. /\ content \in [Names -> Payload]
      /\ stored \in SUBSET Names
      /\ r.pkt.data \in Payload
  BY DEF TypeInv, TypeOK, ServerTypeOK, Packet
<1>2. SubSeq(r.pkt.data, 1, n) \in Payload
  BY <1>1, PartType
<1>3. content[Me.name] \o SubSeq(r.pkt.data, 1, n) \in Payload
  BY <1>1, <1>2 DEF Payload
<1> QED
  BY <1>1, <1>3 DEF write, WriteBlock, FilesTyped

LEMMA WriteShape ==
    ASSUME TypeInv, NEW r \in receivePacket,
           DataExpected(r) \/ DataFinal(r) \/ DataMismatch(r) \/ WriteUnexpected(r)
    PROVE  (Keeps \/ Leaves) /\ FilesTyped'
<1>1. Me.connected /\ Me.request = "WRITE"
  BY DEF receivePacket, DataExpected, DataFinal, DataMismatch, WriteUnexpected, Serving
<1>2. /\ SlotOK(Me) /\ Me \in ServerClient /\ Me.client_socket \in Sessions
      /\ Me.name \in Names /\ Me.block \in Nat
      /\ Line \in Connection
      /\ r.pkt \in Packet /\ After(r) \in Connection /\ After(r).srv = Line.srv
  BY <1>1, MeType DEF SlotOK, ServerClient
<1>3. FilesTyped /\ running \in BOOLEAN
  BY DEF TypeInv, TypeOK, ServerTypeOK, NetTypeOK, FilesTyped
<1>4. createACK(Me.block + 1) \in Packet
  BY <1>2, PacketTypes
<1>5. CASE DataExpected(r)
  <2>1. PICK n \in 0 .. Len(r.pkt.data) :
          /\ write(r.pkt.data, n)
          /\ Answer([Me EXCEPT !.block = @ + 1, !.good = @ /\ n = Len(r.pkt.data)],
                    After(r), createACK(Me.block + 1))
    BY <1>5 DEF DataExpected
  <2> DEFINE kept == Me.good /\ n = Len(r.pkt.data)
             cl == [Me EXCEPT !.block = @ + 1, !.good = kept]
  <2>0. kept \in BOOLEAN
    OBVIOUS
  <2>2. cl \in ServerClient /\ cl.client_socket = Me.client_socket /\ cl.connected
    <3> DEFINE counted == [Me EXCEPT !.block = @ + 1]
    <3>1. /\ counted \in ServerClient /\ counted.connected
          /\ counted.client_socket = Me.client_socket
      BY <1>1, <1>2 DEF ServerClient
    <3>2. cl = [counted EXCEPT !.good = kept]
      OBVIOUS
    <3> HIDE DEF counted, cl
    <3> QED
      BY <2>0, <3>1, <3>2 DEF ServerClient
  <2>3. SlotOK(cl)
    BY <1>1, <1>2, <2>2 DEF SlotOK, ServerClient
  <2>4. running' \in BOOLEAN /\ UNCHANGED backlog
    BY <1>3, <1>5 DEF DataExpected, Undefined
  <2> HIDE DEF cl
  <2>5. Answer(cl, After(r), createACK(Me.block + 1))
    BY <2>1 DEF cl
  <2>6. Keeps
    BY <1>1, <1>2, <1>4, <2>2, <2>3, <2>4, <2>5, AnswerKeeps
  <2> QED
    BY <1>2, <2>1, <2>6, WriteTypes
<1>6. CASE DataFinal(r)
  <2>1. PICK n \in 0 .. Len(r.pkt.data) :
          /\ write(r.pkt.data, n)
          /\ \E o \in ServerSends(After(r), createACK(Me.block + 1)) :
                 disconnectClient(Me, o.conn)
    BY <1>6 DEF DataFinal, EndTransfer
  <2>2. PICK o \in ServerSends(After(r), createACK(Me.block + 1)) :
           disconnectClient(Me, o.conn)
    BY <2>1
  <2>3. o.conn \in Connection
    BY <1>2, <1>4, <2>2, ServerSendsType
  <2>4. UNCHANGED backlog
    BY <1>6 DEF DataFinal, EndTransfer
  <2>5. Leaves
    BY <1>1, <1>2, <2>2, <2>3, <2>4, DisconnectLeaves
  <2> QED
    BY <1>2, <2>1, <2>5, WriteTypes
<1>7. CASE DataMismatch(r)
  <2> DEFINE cl == [Me EXCEPT !.block = @ + 1]
  <2>1. cl \in ServerClient /\ cl.client_socket = Me.client_socket /\ cl.connected
    BY <1>1, <1>2 DEF ServerClient
  <2>2. SlotOK(cl)
    BY <1>1, <1>2, <2>1 DEF SlotOK, ServerClient
  <2>3. Store(cl, After(r)) /\ UNCHANGED <<backlog, running>> /\ filesUnchanged
    BY <1>7 DEF DataMismatch
  <2> HIDE DEF cl
  <2> QED
    BY <1>1, <1>2, <1>3, <2>1, <2>2, <2>3
       DEF Keeps, Touches, filesUnchanged, FilesTyped
<1>8. CASE WriteUnexpected(r)
  <2>1. Refuse(Me, After(r), 4) /\ UNCHANGED backlog /\ filesUnchanged
    BY <1>8 DEF WriteUnexpected
  <2>2. Leaves
    BY <1>1, <1>2, <2>1, RefuseLeaves
  <2> QED
    BY <1>3, <2>1, <2>2 DEF filesUnchanged, FilesTyped
<1> QED
  BY <1>5, <1>6, <1>7, <1>8

LEMMA ServerShape ==
    ASSUME TypeInv, ServerStep
    PROVE  /\ Keeps \/ Leaves \/ acceptClient \/ Idles
           /\ FilesTyped'
           /\ phase' \in Phases /\ slot' \in Slots
<1>1. phase' \in Phases /\ slot' \in Slots
  BY AdvanceType DEF ServerStep
<1>2. filesUnchanged => FilesTyped'
  BY DEF TypeInv, TypeOK, ServerTypeOK, FilesTyped, filesUnchanged
<1>3. CASE acceptClient
  BY <1>1, <1>2, <1>3 DEF acceptClient, accept
<1>4. CASE NothingToAccept
  <2>1. Me.connected => UNCHANGED clients
    BY <1>4 DEF NothingToAccept, Me, TypeInv, TypeOK, ServerTypeOK, ServerClient
  <2>2. ~Me.connected => clients' = [clients EXCEPT ![slot].client_socket = NoSession]
    BY <1>4 DEF NothingToAccept, Me, TypeInv, TypeOK, ServerTypeOK
  <2> QED
    BY <1>1, <1>2, <1>4, <2>1, <2>2 DEF NothingToAccept, Idles
<1>5. CASE PeerClosed
  <2>1. Me.connected /\ disconnectClient(Me, Line) /\ UNCHANGED backlog /\ filesUnchanged
    BY <1>5 DEF PeerClosed, Receiving
  <2>2. Me \in ServerClient /\ Line \in Connection
    BY <2>1, MeType DEF SlotOK
  <2>3. Leaves
    BY <2>1, <2>2, DisconnectLeaves
  <2> QED
    BY <1>1, <1>2, <2>1, <2>3
<1>6. CASE NothingReceived
  BY <1>1, <1>2, <1>6 DEF NothingReceived, Idles
<1>7. CASE \E r \in receivePacket : OnPacket(r)
  <2>1. PICK r \in receivePacket : OnPacket(r)
    BY <1>7
  <2>2. (Keeps \/ Leaves) /\ FilesTyped'
    BY <2>1, RequestShape, ReadShape, WriteShape DEF OnPacket
  <2> QED
    BY <1>1, <2>2
<1>8. CASE SendNextBlock
  <2>1. /\ Me.connected /\ Me.request = "READ"
        /\ sendPacketData(Me, Line) /\ UNCHANGED <<backlog, running>> /\ filesUnchanged
    BY <1>8 DEF SendNextBlock, MaySend, Serving
  <2>2. SlotOK(Me) /\ Me.name \in Names /\ Line \in Connection /\ running' \in BOOLEAN
    BY <2>1, MeType DEF SlotOK, TypeInv, TypeOK, NetTypeOK
  <2>3. Keeps
    BY <2>1, <2>2, SendDataKeeps
  <2> QED
    BY <1>1, <1>2, <2>1, <2>3
<1>9. CASE NothingToSend
  BY <1>1, <1>2, <1>9 DEF NothingToSend, Idles
<1> QED
  BY <1>3, <1>4, <1>5, <1>6, <1>7, <1>8, <1>9 DEF ServerStep
-----------------------------------------------------------------------------
(***************************************************************************)
(* What a step of a client does: it opens its connection, fails to, or     *)
(* uses it and never goes back to idle; the server's end stays as it is.   *)
(***************************************************************************)
Uses(s) ==
    /\ tx[s].at # "idle"
    /\ UNCHANGED <<backlog, running>>
    /\ \E t, c : /\ Move(s, t, c)
                 /\ t \in Transfer /\ t.at # "idle"
                 /\ c \in Connection /\ c.srv = conn[s].srv

\* A block of a file is a payload.
LEMMA ChunkType ==
    ASSUME NEW file \in Seq(Cell), NEW k \in Nat \ {0}
    PROVE  ChunkOf(file, k) \in Payload
<1> DEFINE low == (k - 1) * DataCells
           high == IF k * DataCells <= Len(file) THEN k * DataCells ELSE Len(file)
<1>1. DataCells \in Nat /\ Len(file) \in Nat /\ k - 1 \in Nat
  BY PacketAssumption
<1>2. \A a, b \in Nat : a * b \in Nat
  OBVIOUS
<1>3. low \in Nat /\ k * DataCells \in Nat
  BY <1>1, <1>2
<1>4. high \in Nat /\ high <= Len(file)
  BY <1>1, <1>3
<1> HIDE DEF low, high
<1>5. \A i \in low + 1 .. high : file[i] \in Cell
  BY <1>1, <1>3, <1>4
<1>6. SubSeq(file, low + 1, high) \in Seq(Cell)
  BY <1>3, <1>4, <1>5, SubSeqProperties
<1>7. Seq(Cell) \subseteq Payload
  BY DEF Payload
<1> QED
  BY <1>6, <1>7 DEF ChunkOf, low, high

LEMMA SendDataUses ==
    ASSUME TypeInv, NEW s \in Putters, PutWaits(s),
           NEW c \in Connection, c.srv = conn[s].srv,
           SendNextData(s, c), UNCHANGED <<backlog, running>>
    PROVE  Uses(s)
<1>1. s \in Sessions /\ tx[s] \in Transfer /\ tx[s].at = "waiting"
      /\ SourceOf[s] \in Seq(Cell)
  BY ClientAssumption DEF TypeInv, TypeOK, ClientTypeOK, PutWaits
<1> DEFINE n == tx[s].last_packet_no + 1
           p == createData(n, ChunkOf(SourceOf[s], n))
<1>2. n \in Nat \ {0}
  BY <1>1 DEF Transfer
<1>3. p \in Packet
  BY <1>1, <1>2, ChunkType, PacketTypes
<1> HIDE DEF n, p
<1>4. ClientSends(c, p) \in Connection /\ ClientSends(c, p).srv = conn[s].srv
  BY <1>3, ConnectionTypes
<1> DEFINE eof == EndsAt(SourceOf[s], n)
           t == [tx[s] EXCEPT !.last_packet_no = n,
                              !.at = IF eof THEN "closing" ELSE @,
                              !.result = IF eof THEN "ok" ELSE @]
<1>5. t \in Transfer /\ t.at # "idle"
  BY <1>1, <1>2 DEF Transfer
<1>6. Move(s, t, ClientSends(c, p))
  BY DEF SendNextData, SendData, n, p
<1> HIDE DEF t
<1> QED
  BY <1>1, <1>4, <1>5, <1>6 DEF Uses

LEMMA HeardType ==
    ASSUME TypeInv, NEW s \in Sessions, NEW r \in Reads(conn[s].down)
    PROVE  /\ r.pkt \in Packet
           /\ Heard(s, r) \in Connection
           /\ Heard(s, r).srv = conn[s].srv
<1>1. conn[s] \in Connection /\ conn[s].down \in Seq(Packet)
  BY DEF TypeInv, TypeOK, NetTypeOK, Connection
<1>2. r.pkt \in Packet /\ r.rest \in Seq(Packet)
  BY <1>1, ReadsType
<1> QED
  BY <1>1, <1>2 DEF Heard, Connection

LEMMA AcceptedType ==
    ASSUME NEW old \in Transfer
    PROVE  Accepted(old) \in Transfer /\ Accepted(old).at = old.at
<1> DEFINE counted == [old EXCEPT !.last_packet_no = @ + 1]
           count == IF old.timeout_count = 1 THEN 0 ELSE old.timeout_count
<1>1. counted \in Transfer /\ counted.at = old.at
  BY DEF Transfer
<1>2. count \in Nat
  BY DEF Transfer
<1>3. Accepted(old) = [counted EXCEPT !.timeout_count = count]
  BY DEF Accepted, Transfer
<1> HIDE DEF counted, count
<1> QED
  BY <1>1, <1>2, <1>3 DEF Transfer

LEMMA TakeUses ==
    ASSUME TypeInv, NEW s \in Sessions, GetWaits(s),
           NEW r \in Reads(conn[s].down), Take(s, r, tx[s].last_packet_no)
    PROVE  Uses(s)
<1>1. tx[s] \in Transfer /\ tx[s].at = "waiting"
  BY DEF TypeInv, TypeOK, ClientTypeOK, GetWaits
<1>2. r.pkt \in Packet /\ Heard(s, r) \in Connection /\ Heard(s, r).srv = conn[s].srv
  BY HeardType
<1> DEFINE ack == createACK(tx[s].last_packet_no)
           old == Accepted(tx[s])
           last == Len(r.pkt.data) < DataCells
           t == [old EXCEPT !.packet_ack = ack,
                            !.file = @ \o r.pkt.data,
                            !.at = IF last THEN "closing" ELSE @,
                            !.result = IF last THEN "ok" ELSE @]
<1>3. ack \in Packet
  BY <1>1, PacketTypes DEF Transfer
<1>4. old \in Transfer /\ old.at = "waiting"
  BY <1>1, AcceptedType
<1>5. Move(s, t, ClientSends(Heard(s, r), ack)) /\ UNCHANGED <<backlog, running>>
  BY DEF Take
<1> HIDE DEF ack, old
<1>6. old.file \o r.pkt.data \in Payload
  BY <1>2, <1>4 DEF Transfer, Payload, Packet
<1>7. t \in Transfer /\ t.at # "idle"
  BY <1>3, <1>4, <1>6 DEF Transfer
<1>8. /\ ClientSends(Heard(s, r), ack) \in Connection
      /\ ClientSends(Heard(s, r), ack).srv = conn[s].srv
  BY <1>2, <1>3, ConnectionTypes
<1> HIDE DEF t
<1> QED
  BY <1>1, <1>5, <1>7, <1>8 DEF Uses

LEMMA PutUses ==
    ASSUME TypeInv, NEW s \in Sessions,
           SendWRQ(s) \/ SourceUnreadable(s) \/ PutAnswered(s) \/ PutConnectionLost(s)
           \/ PutTimesOut(s)
    PROVE  Uses(s)
<1>1. tx[s] \in Transfer /\ conn[s] \in Connection /\ NameOf[s] \in Names
  BY ClientAssumption DEF TypeInv, TypeOK, ClientTypeOK, NetTypeOK
<1>2. CASE SendWRQ(s)
  <2> DEFINE c == ClientSends(conn[s], createWRQ(NameOf[s]))
             t == [tx[s] EXCEPT !.at = "waiting"]
  <2>1. c \in Connection /\ c.srv = conn[s].srv
    BY <1>1, PacketTypes, ConnectionTypes
  <2>2. t \in Transfer /\ t.at # "idle"
    BY <1>1 DEF Transfer
  <2>3. tx[s].at # "idle" /\ Move(s, t, c) /\ UNCHANGED <<backlog, running>>
    BY <1>2 DEF SendWRQ
  <2> HIDE DEF c, t
  <2> QED
    BY <2>1, <2>2, <2>3 DEF Uses
<1>3. CASE SourceUnreadable(s)
  <2> DEFINE t == [tx[s] EXCEPT !.at = "closing", !.result = "error"]
  <2>1. t \in Transfer /\ t.at # "idle"
    BY <1>1 DEF Transfer
  <2>2. tx[s].at # "idle" /\ Move(s, t, conn[s]) /\ UNCHANGED <<backlog, running>>
    BY <1>3 DEF SourceUnreadable
  <2> HIDE DEF t
  <2> QED
    BY <1>1, <2>1, <2>2 DEF Uses
<1>4. CASE PutAnswered(s)
  <2>1. PICK r \in Reads(conn[s].down) : SendNextData(s, Heard(s, r))
    BY <1>4 DEF PutAnswered
  <2>2. s \in Putters /\ PutWaits(s) /\ UNCHANGED <<backlog, running>>
    BY <1>4 DEF PutAnswered, PutWaits
  <2>3. Heard(s, r) \in Connection /\ Heard(s, r).srv = conn[s].srv
    BY <2>1, HeardType
  <2> QED
    BY <2>1, <2>2, <2>3, SendDataUses
<1>5. CASE PutConnectionLost(s)
  <2> DEFINE c == [conn[s] EXCEPT !.down = <<>>]
  <2>1. s \in Putters /\ PutWaits(s) /\ SendNextData(s, c) /\ UNCHANGED <<backlog, running>>
    BY <1>5 DEF PutConnectionLost, PutWaits
  <2>2. c \in Connection /\ c.srv = conn[s].srv
    <3>1. <<>> \in Seq(Packet)
      OBVIOUS
    <3> QED
      BY <1>1, <3>1 DEF Connection
  <2> HIDE DEF c
  <2> QED
    BY <2>1, <2>2, SendDataUses
<1>6. CASE PutTimesOut(s)
  <2>1. s \in Putters /\ PutWaits(s) /\ SendNextData(s, conn[s])
        /\ UNCHANGED <<backlog, running>>
    BY <1>6 DEF PutTimesOut, PutWaits
  <2> QED
    BY <1>1, <2>1, SendDataUses
<1> QED
  BY <1>2, <1>3, <1>4, <1>5, <1>6

LEMMA GetUses ==
    ASSUME TypeInv, NEW s \in Sessions,
           \/ SendRRQ(s) \/ GetExpected(s) \/ GetOversized(s) \/ GetMismatch(s)
           \/ GetConnectionLost(s) \/ GetTimesOut(s)
    PROVE  Uses(s)
<1>1. tx[s] \in Transfer /\ conn[s] \in Connection /\ NameOf[s] \in Names
  BY ClientAssumption DEF TypeInv, TypeOK, ClientTypeOK, NetTypeOK
<1>2. CASE SendRRQ(s)
  <2> DEFINE c == ClientSends(conn[s], createRRQ(NameOf[s]))
             t == [tx[s] EXCEPT !.at = "waiting", !.last_packet_no = 1]
  <2>1. c \in Connection /\ c.srv = conn[s].srv
    BY <1>1, PacketTypes, ConnectionTypes
  <2>2. t \in Transfer /\ t.at # "idle"
    BY <1>1 DEF Transfer
  <2>3. tx[s].at # "idle" /\ Move(s, t, c) /\ UNCHANGED <<backlog, running>>
    BY <1>2 DEF SendRRQ
  <2> HIDE DEF c, t
  <2> QED
    BY <2>1, <2>2, <2>3 DEF Uses
<1>3. CASE GetExpected(s)
  <2>1. PICK r \in Reads(conn[s].down) : Take(s, r, tx[s].last_packet_no)
    BY <1>3 DEF GetExpected
  <2> QED
    BY <1>3, <2>1, TakeUses DEF GetExpected
<1>4. CASE GetOversized(s)
  <2>1. PICK r \in Reads(conn[s].down) : Move(s, Accepted(tx[s]), Heard(s, r))
    BY <1>4 DEF GetOversized
  <2>2. Heard(s, r) \in Connection /\ Heard(s, r).srv = conn[s].srv
    BY <2>1, HeardType
  <2>3. tx[s].at = "waiting" /\ UNCHANGED <<backlog, running>>
    BY <1>4 DEF GetOversized, GetWaits
  <2>4. Accepted(tx[s]) \in Transfer /\ Accepted(tx[s]).at = "waiting"
    BY <1>1, <2>3, AcceptedType
  <2> QED
    BY <2>1, <2>2, <2>3, <2>4 DEF Uses
<1>5. CASE GetMismatch(s)
  <2>1. PICK r \in Reads(conn[s].down) : Move(s, tx[s], Heard(s, r))
    BY <1>5 DEF GetMismatch
  <2>2. Heard(s, r) \in Connection /\ Heard(s, r).srv = conn[s].srv
    BY <2>1, HeardType
  <2>3. tx[s].at = "waiting" /\ UNCHANGED <<backlog, running>>
    BY <1>5 DEF GetMismatch, GetWaits
  <2> QED
    BY <1>1, <2>1, <2>2, <2>3 DEF Uses
<1>6. CASE GetConnectionLost(s)
  <2> DEFINE c == [conn[s] EXCEPT !.down = <<>>]
             t == [tx[s] EXCEPT !.at = "spinning"]
  <2>1. tx[s].at # "idle" /\ Move(s, t, c) /\ UNCHANGED <<backlog, running>>
    BY <1>6 DEF GetConnectionLost, GetWaits
  <2>2. c \in Connection /\ c.srv = conn[s].srv
    <3>1. <<>> \in Seq(Packet)
      OBVIOUS
    <3> QED
      BY <1>1, <3>1 DEF Connection
  <2>3. t \in Transfer /\ t.at # "idle"
    BY <1>1 DEF Transfer
  <2> HIDE DEF c, t
  <2> QED
    BY <2>1, <2>2, <2>3 DEF Uses
<1>7. CASE GetTimesOut(s)
  <2> DEFINE t == [tx[s] EXCEPT !.timeout_count = @ + 1]
             gone == [t EXCEPT !.at = "closing", !.result = "error"]
             c == ClientSends(conn[s], t.packet_ack)
  <2>1. tx[s].at = "waiting" /\ UNCHANGED <<backlog, running>>
    BY <1>7 DEF GetTimesOut, GetWaits
  <2>2. Move(s, t, c) \/ Move(s, gone, conn[s])
    BY <1>7 DEF GetTimesOut
  <2>3. t \in Transfer /\ t.at = "waiting"
    BY <1>1, <2>1 DEF Transfer
  <2> HIDE DEF t
  <2>4. gone \in Transfer /\ gone.at # "idle" /\ t.packet_ack \in Packet
    BY <2>3 DEF Transfer
  <2>5. c \in Connection /\ c.srv = conn[s].srv
    BY <1>1, <2>4, ConnectionTypes
  <2> HIDE DEF gone, c
  <2> QED
    BY <1>1, <2>1, <2>2, <2>3, <2>4, <2>5 DEF Uses
<1> QED
  BY <1>2, <1>3, <1>4, <1>5, <1>6, <1>7

LEMMA ClientShape ==
    ASSUME TypeInv, NEW s \in Sessions, ClientStep(s) \/ TimesOut(s)
    PROVE  connectToServer(s) \/ ConnectFails(s) \/ Uses(s)
<1>1. tx[s] \in Transfer /\ conn[s] \in Connection
  BY DEF TypeInv, TypeOK, ClientTypeOK, NetTypeOK
<1>2. CASE ErrorReceived(s)
  <2> DEFINE t == [tx[s] EXCEPT !.at = "closing", !.result = "error"]
  <2>1. PICK r \in Reads(conn[s].down) : Move(s, t, ClientCloses(Heard(s, r)))
    BY <1>2 DEF ErrorReceived
  <2>2. tx[s].at # "idle" /\ UNCHANGED <<backlog, running>>
    BY <1>2 DEF ErrorReceived
  <2>3. Heard(s, r) \in Connection /\ Heard(s, r).srv = conn[s].srv
    BY <2>1, HeardType
  <2>4. /\ ClientCloses(Heard(s, r)) \in Connection
        /\ ClientCloses(Heard(s, r)).srv = conn[s].srv
    BY <2>3, PacketTypes, ConnectionTypes
  <2>5. t \in Transfer /\ t.at # "idle"
    BY <1>1 DEF Transfer
  <2> HIDE DEF t
  <2> QED
    BY <2>1, <2>2, <2>4, <2>5 DEF Uses
<1>3. CASE Destructor(s)
  <2> DEFINE t == [tx[s] EXCEPT !.at = "done"]
  <2>1. tx[s].at # "idle" /\ Move(s, t, ClientCloses(conn[s]))
        /\ UNCHANGED <<backlog, running>>
    BY <1>3 DEF Destructor
  <2>2. ClientCloses(conn[s]) \in Connection /\ ClientCloses(conn[s]).srv = conn[s].srv
    BY <1>1, PacketTypes, ConnectionTypes
  <2>3. t \in Transfer /\ t.at # "idle"
    BY <1>1 DEF Transfer
  <2> HIDE DEF t
  <2> QED
    BY <2>1, <2>2, <2>3 DEF Uses
<1> QED
  BY <1>2, <1>3, PutUses, GetUses DEF ClientStep, TimesOut
-----------------------------------------------------------------------------
(***************************************************************************)
(* Type correctness.                                                       *)
(***************************************************************************)
LEMMA TypeInit == Init => TypeInv
<1> SUFFICES ASSUME Init PROVE TypeInv
  OBVIOUS
<1>1. NetTypeOK
  BY DEF Init, NetInit, NetTypeOK, NoConnection, Connection
<1>2. NewServerClient \in ServerClient
  BY PacketTypes DEF NewServerClient, ServerClient, Pointer
<1>3. ServerTypeOK /\ \A i \in Slots : SlotOK(clients[i])
  <2>1. /\ ~NewServerClient.connected
        /\ NewServerClient.request = "UNDEFINED"
    BY DEF NewServerClient
  <2>2. clients = [i \in Slots |-> NewServerClient]
    BY DEF Init, ServerInit
  <2>3. SlotOK(NewServerClient)
    BY <1>2, <2>1 DEF SlotOK
  <2>4. 0 \in Slots
    BY ServerAssumption DEF Slots
  <2> QED
    BY <1>2, <2>2, <2>3, <2>4, ServerAssumption DEF Init, ServerInit, ServerTypeOK, Phases
<1>4. NewTransfer \in Transfer
  BY PacketTypes DEF NewTransfer, Transfer, Payload
<1>5. ClientTypeOK
  BY <1>4 DEF Init, ClientInit, ClientTypeOK
<1> QED
  BY <1>1, <1>3, <1>5 DEF TypeInv, TypeOK

LEMMA ServerTypeStep ==
    ASSUME TypeInv, Server
    PROVE  TypeInv'
<1>1. /\ Keeps \/ Leaves \/ acceptClient \/ Idles
      /\ FilesTyped' /\ phase' \in Phases /\ slot' \in Slots
      /\ UNCHANGED tx
  BY ServerShape DEF Server
<1>2. /\ conn \in [Sessions -> Connection] /\ backlog \in Seq(Sessions)
      /\ running \in BOOLEAN /\ clients \in [Slots -> ServerClient]
      /\ \A i \in Slots : SlotOK(clients[i])
      /\ slot \in Slots /\ SlotOK(Me) /\ Me \in ServerClient
  BY MeType DEF TypeInv, TypeOK, NetTypeOK, ServerTypeOK, SlotOK
<1>3. ClientTypeOK'
  BY <1>1 DEF TypeInv, TypeOK, ClientTypeOK
<1>4. SUFFICES /\ NetTypeOK'
               /\ clients' \in [Slots -> ServerClient]
               /\ \A i \in Slots : SlotOK(clients'[i])
  BY <1>1, <1>3, <1>4 DEF TypeInv, TypeOK, ServerTypeOK, FilesTyped, SlotOK
<1>5. CASE Keeps \/ Leaves
  <2>1. PICK cl, c : Touches(cl, c)
    BY <1>5 DEF Keeps, Leaves
  <2>2. /\ clients' = [clients EXCEPT ![slot] = cl] /\ SlotOK(cl) /\ cl \in ServerClient
        /\ conn' = [conn EXCEPT ![cl.client_socket] = c] /\ c \in Connection
        /\ running' \in BOOLEAN /\ backlog' = backlog
    BY <2>1 DEF Touches, Store, SlotOK
  <2> QED
    BY <1>2, <2>2 DEF NetTypeOK
<1>6. CASE acceptClient
  <2> DEFINE s == Head(backlog)
             cl == [Me EXCEPT !.connected = TRUE, !.client_socket = s]
             c == [conn[s] EXCEPT !.srv = "open"]
  <2>1. s \in Sessions /\ Tail(backlog) \in Seq(Sessions)
    BY <1>2, <1>6 DEF acceptClient, accept
  <2>2. cl \in ServerClient /\ cl.client_socket = s /\ cl.request = Me.request
    BY <1>2, <2>1 DEF ServerClient
  <2>3. c \in Connection
    BY <1>2, <2>1 DEF Connection
  <2>4. Store(cl, c) /\ backlog' = Tail(backlog) /\ running' = running
    BY <1>6 DEF acceptClient, accept
  <2>5. cl.request = "UNDEFINED"
    BY <1>2, <1>6, <2>2 DEF acceptClient, SlotOK
  <2> HIDE DEF s, cl, c
  <2>6. SlotOK(cl)
    BY <2>1, <2>2, <2>5 DEF SlotOK
  <2>7. clients' = [clients EXCEPT ![slot] = cl] /\ conn' = [conn EXCEPT ![s] = c]
    BY <2>2, <2>4 DEF Store
  <2> QED
    BY <1>2, <2>1, <2>2, <2>3, <2>4, <2>6, <2>7 DEF NetTypeOK
<1>7. CASE Idles
  <2> DEFINE cl == [Me EXCEPT !.client_socket = NoSession]
  <2>1. NetTypeOK'
    BY <1>2, <1>7 DEF Idles, netVars, NetTypeOK
  <2>2. CASE UNCHANGED clients
    BY <1>2, <2>1, <2>2
  <2>3. CASE ~Me.connected /\ clients' = [clients EXCEPT ![slot].client_socket = NoSession]
    <3>1. cl \in ServerClient /\ cl.connected = Me.connected /\ cl.request = Me.request
      BY <1>2 DEF ServerClient
    <3>2. clients' = [clients EXCEPT ![slot] = cl]
      BY <1>2, <2>3 DEF Me
    <3> HIDE DEF cl
    <3>3. SlotOK(cl)
      BY <1>2, <2>3, <3>1 DEF SlotOK
    <3> QED
      BY <1>2, <2>1, <3>1, <3>2, <3>3
  <2> QED
    BY <1>7, <2>2, <2>3 DEF Idles
<1> QED
  BY <1>1, <1>5, <1>6, <1>7

LEMMA ClientTypeStep ==
    ASSUME TypeInv, NEW s \in Sessions, Client(s) \/ Timeout(s)
    PROVE  TypeInv'
<1>1. /\ connectToServer(s) \/ ConnectFails(s) \/ Uses(s)
      /\ UNCHANGED serverVars
  BY ClientShape DEF Client, Timeout
<1>2. /\ conn \in [Sessions -> Connection] /\ backlog \in Seq(Sessions)
      /\ running \in BOOLEAN /\ tx \in [Sessions -> Transfer]
  BY DEF TypeInv, TypeOK, NetTypeOK, ClientTypeOK
<1>3. ServerTypeOK' /\ \A i \in Slots : SlotOK(clients[i])'
  BY <1>1 DEF TypeInv, TypeOK, ServerTypeOK, serverVars
<1>4. NetTypeOK' /\ ClientTypeOK'
  <2>1. CASE connectToServer(s)
    <3> DEFINE t == [tx[s] EXCEPT !.at = "connected"]
               c == [conn[s] EXCEPT !.cli = "open", !.srv = "backlog"]
    <3>1. t \in Transfer
      BY <1>2 DEF Transfer
    <3>2. c \in Connection
      BY <1>2 DEF Connection
    <3>3. Move(s, t, c) /\ backlog' = Append(backlog, s) /\ running' = running
      BY <2>1 DEF connectToServer
    <3>4. Append(backlog, s) \in Seq(Sessions)
      BY <1>2
    <3> HIDE DEF t, c
    <3> QED
      BY <1>2, <3>1, <3>2, <3>3, <3>4 DEF Move, NetTypeOK, ClientTypeOK
  <2>2. CASE ConnectFails(s)
    <3> DEFINE t == [tx[s] EXCEPT !.at = "done", !.result = "error"]
    <3>1. t \in Transfer
      BY <1>2 DEF Transfer
    <3>2. tx' = [tx EXCEPT ![s] = t] /\ UNCHANGED netVars
      BY <1>2, <2>2 DEF ConnectFails
    <3> HIDE DEF t
    <3> QED
      BY <1>2, <3>1, <3>2 DEF netVars, NetTypeOK, ClientTypeOK
  <2>3. CASE Uses(s)
    BY <1>2, <2>3 DEF Uses, Move, NetTypeOK, ClientTypeOK
  <2> QED
    BY <1>1, <2>1, <2>2, <2>3
<1> QED
  BY <1>3, <1>4 DEF TypeInv, TypeOK

\* What the network does to a connection.
LEMMA NetworkShape ==
    ASSUME TypeInv, NEW s \in Sessions, Network(s)
    PROVE  /\ UNCHANGED <<backlog, running, serverVars, tx>>
           /\ \E c \in Connection :
                 /\ conn' = [conn EXCEPT ![s] = c]
                 /\ \/ conn[s].srv = "open" /\ c.srv = "open"
                    \/ ~running /\ conn[s].srv # "none" /\ c.srv = "closed"
<1>1. conn[s] \in Connection
  BY DEF TypeInv, TypeOK, NetTypeOK
<1>2. CASE ResetArrives(s)
  <2>1. Reset(conn[s]) \in Connection /\ Reset(conn[s]).srv = conn[s].srv
    BY <1>1, PacketTypes, ConnectionTypes
  <2>2. /\ conn' = [conn EXCEPT ![s] = Reset(conn[s])]
        /\ conn[s].srv = "open"
        /\ UNCHANGED <<backlog, running, serverVars, tx>>
    BY <1>2 DEF ResetArrives, Network, OsReclaims
  <2> QED
    BY <2>1, <2>2
<1>3. CASE OsReclaims(s)
  <2> DEFINE c == [ServerCloses(conn[s]) EXCEPT !.lost = TRUE]
  <2>1. c \in Connection /\ c.srv = "closed"
    <3>1. /\ ServerCloses(conn[s]) \in Connection
          /\ ServerCloses(conn[s]).srv = "closed"
      BY <1>1, PacketTypes, ConnectionTypes
    <3> QED
      BY <3>1 DEF Connection
  <2>2. /\ conn' = [conn EXCEPT ![s] = c] /\ ~running /\ conn[s].srv # "none"
        /\ UNCHANGED <<backlog, running, serverVars, tx>>
    BY <1>3 DEF OsReclaims, Network, ResetArrives
  <2> QED
    BY <2>1, <2>2
<1> QED
  BY <1>2, <1>3 DEF Network

LEMMA TypeStep == TypeInv /\ [Next]_vars => TypeInv'
<1> SUFFICES ASSUME TypeInv, [Next]_vars PROVE TypeInv'
  OBVIOUS
<1>1. CASE Server
  BY <1>1, ServerTypeStep
<1>2. CASE \E s \in Sessions : Client(s) \/ Timeout(s)
  BY <1>2, ClientTypeStep
<1>3. CASE \E s \in Sessions : Network(s)
  <2>1. PICK s \in Sessions : Network(s)
    BY <1>3
  <2>2. PICK c \in Connection : conn' = [conn EXCEPT ![s] = c]
    BY <2>1, NetworkShape
  <2>3. UNCHANGED <<backlog, running, serverVars, tx>>
    BY <2>1, NetworkShape
  <2>4. NetTypeOK'
    BY <2>2, <2>3 DEF TypeInv, TypeOK, NetTypeOK
  <2> QED
    BY <2>3, <2>4 DEF TypeInv, TypeOK, ServerTypeOK, ClientTypeOK, serverVars
<1>4. CASE UNCHANGED vars
  BY <1>4 DEF TypeInv, TypeOK, NetTypeOK, ServerTypeOK, ClientTypeOK,
              vars, netVars, serverVars
<1> QED
  BY <1>1, <1>2, <1>3, <1>4 DEF Next

(***************************************************************************)
(* Every variable keeps its type: in particular the thread never looks     *)
(* past the end of clients, and no operation leaves a slot that is         *)
(* connected without a connection.                                         *)
(***************************************************************************)
THEOREM TypeCorrect == Spec => []TypeOK
<1>1. TypeInv => TypeOK
  BY DEF TypeInv
<1> QED
  BY <1>1, TypeInit, TypeStep, PTL DEF Spec
-----------------------------------------------------------------------------
(***************************************************************************)
(* Slots and connections match.  Inductive together with the types and the *)
(* fact that a client that has not called connectToServer yet has no       *)
(* connection the server could know of.                                    *)
(***************************************************************************)
Unopened == \A s \in Sessions : tx[s].at = "idle" => conn[s].srv = "none"

SlotsInv == TypeInv /\ SlotsServeConnections /\ Unopened

LEMMA SlotsInit == Init => SlotsServeConnections /\ Unopened
<1> SUFFICES ASSUME Init PROVE SlotsServeConnections /\ Unopened
  OBVIOUS
<1>1. \A i \in Slots : ~clients[i].connected
  BY DEF Init, ServerInit, NewServerClient
<1>2. \A s \in Sessions : conn[s].srv = "none"
  BY DEF Init, NetInit, NoConnection
<1>3. backlog = <<>>
  BY DEF Init, NetInit
<1>4. SlotOwnsConnection /\ SlotsDisjoint /\ NoConnectionForgotten
  BY <1>1, <1>2 DEF SlotOwnsConnection, SlotsDisjoint, NoConnectionForgotten
<1>5. BacklogWaits
  BY <1>3 DEF BacklogWaits, IsInjective
<1> QED
  BY <1>2, <1>4, <1>5 DEF SlotsServeConnections, Unopened

\* A step that neither opens, accepts nor closes anything.
LEMMA Unmoved ==
    ASSUME SlotsInv,
           running' => running,
           \A i \in Slots : clients'[i].connected = clients[i].connected,
           \A i \in Slots : clients[i].connected =>
                                clients'[i].client_socket = clients[i].client_socket,
           \A s \in Sessions : conn'[s].srv = conn[s].srv,
           \A s \in Sessions : tx'[s].at = "idle" => tx[s].at = "idle",
           backlog' = backlog
    PROVE  (SlotsServeConnections /\ Unopened)'
<1>1. /\ SlotOwnsConnection /\ SlotsDisjoint /\ NoConnectionForgotten
      /\ BacklogWaits /\ Unopened /\ backlog \in Seq(Sessions)
  BY DEF SlotsInv, SlotsServeConnections, TypeInv, TypeOK, NetTypeOK
<1>2. SlotOwnsConnection'
  BY <1>1 DEF SlotOwnsConnection
<1>3. SlotsDisjoint'
  BY <1>1 DEF SlotsDisjoint, Serves
<1>4. NoConnectionForgotten'
  BY <1>1 DEF NoConnectionForgotten, Serves
<1>5. BacklogWaits'
  <2>1. \A k \in DOMAIN backlog : backlog[k] \in Sessions
    BY <1>1
  <2> QED
    BY <1>1, <2>1 DEF BacklogWaits, IsInjective
<1>6. Unopened'
  BY <1>1 DEF Unopened
<1> QED
  BY <1>2, <1>3, <1>4, <1>5, <1>6 DEF SlotsServeConnections

LEMMA LeavesServes ==
    ASSUME SlotsInv, running, Leaves, UNCHANGED tx
    PROVE  (SlotsServeConnections /\ Unopened)'
<1>1. /\ SlotOwnsConnection /\ SlotsDisjoint /\ NoConnectionForgotten
      /\ BacklogWaits /\ Unopened
      /\ backlog \in Seq(Sessions) /\ conn \in [Sessions -> Connection]
      /\ clients \in [Slots -> ServerClient] /\ slot \in Slots
  BY DEF SlotsInv, SlotsServeConnections, TypeInv, TypeOK, NetTypeOK, ServerTypeOK
<1>2. PICK cl, c : Touches(cl, c) /\ ~cl.connected /\ c.srv = "closed"
  BY DEF Leaves
<1> DEFINE k == Me.client_socket
<1>3. /\ Me.connected /\ Me = clients[slot] /\ k \in Sessions /\ conn[k].srv = "open"
  BY <1>1, <1>2 DEF Touches, SlotOwnsConnection, Me
<1>4. /\ clients' = [clients EXCEPT ![slot] = cl]
      /\ conn' = [conn EXCEPT ![k] = c]
      /\ backlog' = backlog
  BY <1>2 DEF Touches, Store
<1> HIDE DEF k
<1>5. \A i \in Slots : clients'[i].connected =>
          i # slot /\ clients'[i] = clients[i] /\ clients[i].connected
  BY <1>1, <1>2, <1>4
<1>6. \A i \in Slots \ {slot} : clients[i].connected => clients[i].client_socket # k
  BY <1>1, <1>3 DEF SlotsDisjoint, Serves, k
<1>7. \A s \in Sessions : s # k => conn'[s] = conn[s]
  BY <1>1, <1>4
<1>8. conn'[k].srv = "closed"
  BY <1>1, <1>2, <1>3, <1>4
<1>9. SlotOwnsConnection'
  BY <1>1, <1>5, <1>6, <1>7 DEF SlotOwnsConnection
<1>10. SlotsDisjoint'
  BY <1>1, <1>5 DEF SlotsDisjoint, Serves
<1>11. NoConnectionForgotten'
  <2> SUFFICES ASSUME NEW s \in Sessions, conn'[s].srv = "open"
               PROVE  \E i \in Slots : Serves(i, s)'
    BY DEF NoConnectionForgotten
  <2>1. s # k /\ conn[s].srv = "open"
    BY <1>7, <1>8
  <2>2. PICK i \in Slots : Serves(i, s)
    BY <1>1, <2>1 DEF NoConnectionForgotten
  <2>3. i # slot
    BY <1>3, <2>1, <2>2 DEF Serves, k
  <2>4. clients'[i] = clients[i]
    BY <1>1, <1>4, <2>3
  <2> QED
    BY <2>2, <2>4 DEF Serves
<1>12. BacklogWaits'
  <2>1. \A j \in DOMAIN backlog : backlog[j] \in Sessions /\ conn[backlog[j]].srv = "backlog"
    BY <1>1 DEF BacklogWaits
  <2>2. \A j \in DOMAIN backlog : backlog[j] # k
    BY <1>3, <2>1
  <2> QED
    BY <1>1, <1>4, <1>7, <2>1, <2>2 DEF BacklogWaits, IsInjective
<1>13. Unopened'
  BY <1>1, <1>3, <1>7 DEF Unopened
<1> QED
  BY <1>9, <1>10, <1>11, <1>12, <1>13 DEF SlotsServeConnections

LEMMA AcceptServes ==
    ASSUME SlotsInv, running, acceptClient, UNCHANGED tx
    PROVE  (SlotsServeConnections /\ Unopened)'
<1>1. /\ SlotOwnsConnection /\ SlotsDisjoint /\ NoConnectionForgotten
      /\ BacklogWaits /\ Unopened
      /\ backlog \in Seq(Sessions) /\ conn \in [Sessions -> Connection]
      /\ clients \in [Slots -> ServerClient] /\ slot \in Slots
  BY DEF SlotsInv, SlotsServeConnections, TypeInv, TypeOK, NetTypeOK, ServerTypeOK
<1> DEFINE k == Head(backlog)
           cl == [Me EXCEPT !.connected = TRUE, !.client_socket = k]
           c == [conn[k] EXCEPT !.srv = "open"]
<1>2. /\ ~clients[slot].connected /\ backlog # <<>> /\ backlog' = Tail(backlog)
      /\ Store(cl, c)
  BY DEF acceptClient, accept, Me
<1>3. /\ k \in Sessions /\ k = backlog[1] /\ 1 \in DOMAIN backlog
  BY <1>1, <1>2
<1>4. conn[k].srv = "backlog"
  BY <1>1, <1>3 DEF BacklogWaits
<1>5. cl.connected /\ cl.client_socket = k
  BY <1>1, <1>3 DEF ServerClient, Me
<1>6. c.srv = "open"
  BY <1>1, <1>3 DEF Connection
<1> HIDE DEF k, cl, c
<1>7. clients' = [clients EXCEPT ![slot] = cl] /\ conn' = [conn EXCEPT ![k] = c]
  BY <1>2, <1>5 DEF Store
<1>8. /\ \A i \in Slots : i # slot => clients'[i] = clients[i]
      /\ clients'[slot].connected /\ clients'[slot].client_socket = k
  BY <1>1, <1>5, <1>7
<1>9. /\ \A s \in Sessions : s # k => conn'[s] = conn[s]
      /\ conn'[k].srv = "open"
  BY <1>1, <1>3, <1>6, <1>7
<1>10. \A i \in Slots : clients[i].connected => clients[i].client_socket # k
  BY <1>1, <1>4 DEF SlotOwnsConnection
<1>11. SlotOwnsConnection'
  BY <1>1, <1>3, <1>8, <1>9, <1>10 DEF SlotOwnsConnection
<1>12. SlotsDisjoint'
  BY <1>1, <1>8, <1>10 DEF SlotsDisjoint, Serves
<1>13. NoConnectionForgotten'
  <2> SUFFICES ASSUME NEW s \in Sessions, conn'[s].srv = "open"
               PROVE  \E i \in Slots : Serves(i, s)'
    BY DEF NoConnectionForgotten
  <2>1. CASE s = k
    BY <1>1, <1>8, <2>1 DEF Serves
  <2>2. CASE s # k
    <3>1. PICK i \in Slots : Serves(i, s)
      BY <1>1, <1>9, <2>2 DEF NoConnectionForgotten
    <3>2. i # slot
      BY <1>2, <3>1 DEF Serves
    <3> QED
      BY <1>8, <3>1, <3>2 DEF Serves
  <2> QED
    BY <2>1, <2>2
<1>14. BacklogWaits'
  <2>1. /\ DOMAIN backlog' = 1 .. Len(backlog) - 1
        /\ \A j \in DOMAIN backlog' : /\ backlog'[j] = backlog[j + 1]
                                      /\ j + 1 \in DOMAIN backlog /\ j + 1 # 1
    BY <1>1, <1>2
  <2>2. IsInjective(backlog) /\ \A j \in DOMAIN backlog : conn[backlog[j]].srv = "backlog"
    BY <1>1 DEF BacklogWaits
  <2>3. \A j \in DOMAIN backlog' : backlog'[j] \in Sessions /\ backlog'[j] # k
    BY <1>1, <1>3, <2>1, <2>2 DEF IsInjective
  <2>4. IsInjective(backlog')
    <3> SUFFICES ASSUME NEW a \in DOMAIN backlog', NEW b \in DOMAIN backlog',
                        backlog'[a] = backlog'[b]
                 PROVE  a = b
      BY DEF IsInjective
    <3>1. a + 1 = b + 1
      BY <2>1, <2>2 DEF IsInjective
    <3>2. a \in Int /\ b \in Int
      BY <1>1, <2>1
    <3> QED
      BY <3>1, <3>2
  <2>5. \A j \in DOMAIN backlog' : conn'[backlog'[j]].srv = "backlog"
    BY <1>9, <2>1, <2>2, <2>3
  <2> QED
    BY <2>4, <2>5 DEF BacklogWaits, IsInjective
<1>15. Unopened'
  BY <1>1, <1>4, <1>9 DEF Unopened
<1> QED
  BY <1>11, <1>12, <1>13, <1>14, <1>15 DEF SlotsServeConnections

LEMMA ServerServes ==
    ASSUME SlotsInv, Server
    PROVE  (SlotsServeConnections /\ Unopened)'
<1>1. TypeInv /\ running /\ UNCHANGED tx /\ (Keeps \/ Leaves \/ acceptClient \/ Idles)
  BY ServerShape DEF SlotsInv, Server, ServerStep
<1>2. /\ slot \in Slots /\ SlotOK(Me) /\ Me = clients[slot]
      /\ clients \in [Slots -> ServerClient] /\ conn \in [Sessions -> Connection]
  BY <1>1, MeType DEF TypeInv, TypeOK, ServerTypeOK, NetTypeOK, Me
<1>3. CASE Keeps
  <2>1. PICK cl, c : Touches(cl, c) /\ cl.connected /\ c.srv = Line.srv
    BY <1>3 DEF Keeps
  <2> DEFINE k == Me.client_socket
  <2>2. /\ Me.connected /\ k \in Sessions /\ cl.client_socket = k /\ c.srv = conn[k].srv
        /\ clients' = [clients EXCEPT ![slot] = cl]
        /\ conn' = [conn EXCEPT ![k] = c]
        /\ backlog' = backlog
    BY <1>2, <2>1 DEF Touches, Store, SlotOK, Line
  <2> HIDE DEF k
  <2>3. /\ \A i \in Slots : clients'[i].connected = clients[i].connected
        /\ \A i \in Slots : clients[i].connected =>
                                clients'[i].client_socket = clients[i].client_socket
    BY <1>2, <2>1, <2>2 DEF k
  <2>4. \A s \in Sessions : conn'[s].srv = conn[s].srv
    BY <1>2, <2>2
  <2> QED
    BY <1>1, <2>2, <2>3, <2>4, Unmoved
<1>4. CASE Leaves
  BY <1>1, <1>4, LeavesServes
<1>5. CASE acceptClient
  BY <1>1, <1>5, AcceptServes
<1>6. CASE Idles
  <2>1. /\ \A i \in Slots : clients'[i].connected = clients[i].connected
        /\ \A i \in Slots : clients[i].connected =>
                                clients'[i].client_socket = clients[i].client_socket
    <3>1. CASE UNCHANGED clients
      BY <3>1
    <3>2. CASE ~Me.connected /\ clients' = [clients EXCEPT ![slot].client_socket = NoSession]
      BY <1>2, <3>2 DEF ServerClient
    <3> QED
      BY <1>6, <3>1, <3>2 DEF Idles
  <2>2. UNCHANGED <<conn, backlog, running>>
    BY <1>6 DEF Idles, netVars
  <2> QED
    BY <1>1, <2>1, <2>2, Unmoved
<1> QED
  BY <1>1, <1>3, <1>4, <1>5, <1>6

LEMMA ConnectServes ==
    ASSUME SlotsInv, NEW k \in Sessions, connectToServer(k), UNCHANGED serverVars
    PROVE  (SlotsServeConnections /\ Unopened)'
<1>1. /\ SlotOwnsConnection /\ SlotsDisjoint /\ NoConnectionForgotten
      /\ BacklogWaits /\ Unopened
      /\ backlog \in Seq(Sessions) /\ conn \in [Sessions -> Connection]
      /\ tx \in [Sessions -> Transfer]
  BY DEF SlotsInv, SlotsServeConnections, TypeInv, TypeOK, NetTypeOK, ClientTypeOK
<1>2. /\ running /\ running' = running /\ clients' = clients
      /\ backlog' = Append(backlog, k) /\ tx[k].at = "idle"
      /\ Move(k, [tx[k] EXCEPT !.at = "connected"],
                 [conn[k] EXCEPT !.cli = "open", !.srv = "backlog"])
  BY DEF connectToServer, serverVars
<1>3. conn[k].srv = "none"
  BY <1>1, <1>2 DEF Unopened
<1>4. /\ \A s \in Sessions : s # k => conn'[s] = conn[s] /\ tx'[s] = tx[s]
      /\ conn'[k].srv = "backlog" /\ tx'[k].at = "connected"
  BY <1>1, <1>2 DEF Move, Connection, Transfer
<1>5. SlotOwnsConnection'
  BY <1>1, <1>2, <1>3, <1>4 DEF SlotOwnsConnection
<1>6. SlotsDisjoint'
  BY <1>1, <1>2 DEF SlotsDisjoint, Serves
<1>7. NoConnectionForgotten'
  <2> SUFFICES ASSUME NEW s \in Sessions, conn'[s].srv = "open"
               PROVE  \E i \in Slots : Serves(i, s)'
    BY DEF NoConnectionForgotten
  <2>1. conn[s].srv = "open"
    BY <1>4
  <2> QED
    BY <1>1, <1>2, <2>1 DEF NoConnectionForgotten, Serves
<1>8. BacklogWaits'
  <2> DEFINE n == Len(backlog)
  <2>1. /\ n \in Nat /\ DOMAIN backlog = 1 .. n
        /\ DOMAIN backlog' = 1 .. n + 1
        /\ backlog'[n + 1] = k
        /\ \A j \in 1 .. n : backlog'[j] = backlog[j] /\ backlog[j] \in Sessions
    BY <1>1, <1>2
  <2> HIDE DEF n
  <2>2. \A j \in 1 .. n : conn[backlog[j]].srv = "backlog" /\ backlog[j] # k
    BY <1>1, <1>2, <1>3, <2>1 DEF BacklogWaits
  <2>3. IsInjective(backlog')
    <3> SUFFICES ASSUME NEW a \in 1 .. n + 1, NEW b \in 1 .. n + 1,
                        backlog'[a] = backlog'[b]
                 PROVE  a = b
      BY <2>1 DEF IsInjective
    <3>1. a \in 1 .. n \/ a = n + 1
      BY <2>1
    <3>2. b \in 1 .. n \/ b = n + 1
      BY <2>1
    <3> QED
      BY <1>1, <2>1, <2>2, <3>1, <3>2 DEF BacklogWaits, IsInjective
  <2>4. \A j \in DOMAIN backlog' : conn'[backlog'[j]].srv = "backlog"
    <3> SUFFICES ASSUME NEW j \in 1 .. n + 1
                 PROVE  conn'[backlog'[j]].srv = "backlog"
      BY <2>1
    <3>1. j \in 1 .. n \/ j = n + 1
      BY <2>1
    <3> QED
      BY <1>4, <2>1, <2>2, <3>1
  <2> QED
    BY <2>3, <2>4 DEF BacklogWaits, IsInjective
<1>9. Unopened'
  BY <1>1, <1>4 DEF Unopened
<1> QED
  BY <1>5, <1>6, <1>7, <1>8, <1>9 DEF SlotsServeConnections

LEMMA ClientServes ==
    ASSUME SlotsInv, NEW s \in Sessions, Client(s) \/ Timeout(s)
    PROVE  (SlotsServeConnections /\ Unopened)'
<1>1. /\ TypeInv /\ UNCHANGED serverVars
      /\ connectToServer(s) \/ ConnectFails(s) \/ Uses(s)
  BY ClientShape DEF SlotsInv, Client, Timeout
<1>2. conn \in [Sessions -> Connection] /\ tx \in [Sessions -> Transfer]
  BY <1>1 DEF TypeInv, TypeOK, NetTypeOK, ClientTypeOK
<1>3. CASE connectToServer(s)
  BY <1>1, <1>3, ConnectServes
<1>4. CASE ConnectFails(s)
  <2>1. /\ UNCHANGED <<conn, backlog, running, clients>>
        /\ tx' = [tx EXCEPT ![s] = [@ EXCEPT !.at = "done", !.result = "error"]]
    BY <1>1, <1>4 DEF ConnectFails, netVars, serverVars
  <2>2. \A r \in Sessions : tx'[r].at = "idle" => tx[r].at = "idle"
    BY <1>2, <2>1 DEF Transfer
  <2> QED
    BY <2>1, <2>2, Unmoved
<1>5. CASE Uses(s)
  <2>1. PICK t, c : Move(s, t, c) /\ t.at # "idle" /\ c.srv = conn[s].srv
    BY <1>5 DEF Uses
  <2>2. UNCHANGED <<backlog, running, clients>>
    BY <1>1, <1>5 DEF Uses, serverVars
  <2>3. /\ \A r \in Sessions : conn'[r].srv = conn[r].srv
        /\ \A r \in Sessions : tx'[r].at = "idle" => tx[r].at = "idle"
    BY <1>2, <2>1 DEF Move
  <2> QED
    BY <2>2, <2>3, Unmoved
<1> QED
  BY <1>1, <1>3, <1>4, <1>5

LEMMA NetworkServes ==
    ASSUME SlotsInv, NEW s \in Sessions, Network(s)
    PROVE  (SlotsServeConnections /\ Unopened)'
<1>1. /\ TypeInv /\ UNCHANGED <<backlog, running, clients, tx>>
  BY NetworkShape DEF SlotsInv, serverVars
<1>2. PICK c \in Connection :
          /\ conn' = [conn EXCEPT ![s] = c]
          /\ \/ conn[s].srv = "open" /\ c.srv = "open"
             \/ ~running /\ conn[s].srv # "none" /\ c.srv = "closed"
  BY NetworkShape DEF SlotsInv
<1>3. conn \in [Sessions -> Connection]
  BY <1>1 DEF TypeInv, TypeOK, NetTypeOK
<1>4. CASE conn[s].srv = "open" /\ c.srv = "open"
  <2>1. \A r \in Sessions : conn'[r].srv = conn[r].srv
    BY <1>2, <1>3, <1>4
  <2> QED
    BY <1>1, <2>1, Unmoved
<1>5. CASE ~running /\ conn[s].srv # "none"
  <2>1. SlotsDisjoint' /\ IsInjective(backlog')
    BY <1>1 DEF SlotsInv, SlotsServeConnections, SlotsDisjoint, Serves, BacklogWaits, IsInjective
  <2>2. Unopened'
    BY <1>1, <1>2, <1>3, <1>5 DEF SlotsInv, Unopened
  <2> QED
    BY <1>1, <1>5, <2>1, <2>2
       DEF SlotsServeConnections, SlotOwnsConnection, NoConnectionForgotten, BacklogWaits
<1> QED
  BY <1>2, <1>4, <1>5

LEMMA SlotsStep == SlotsInv /\ [Next]_vars => SlotsInv'
<1> SUFFICES ASSUME SlotsInv, [Next]_vars PROVE SlotsInv'
  OBVIOUS
<1>1. TypeInv'
  BY TypeStep DEF SlotsInv
<1>2. CASE Server
  BY <1>1, <1>2, ServerServes DEF SlotsInv
<1>3. CASE \E s \in Sessions : Client(s) \/ Timeout(s)
  BY <1>1, <1>3, ClientServes DEF SlotsInv
<1>4. CASE \E s \in Sessions : Network(s)
  BY <1>1, <1>4, NetworkServes DEF SlotsInv
<1>5. CASE UNCHANGED vars
  <2>1. UNCHANGED <<conn, backlog, running, clients, tx>>
    BY <1>5 DEF vars, netVars, serverVars
  <2> QED
    BY <1>1, <2>1, Unmoved DEF SlotsInv
<1> QED
  BY <1>2, <1>3, <1>4, <1>5 DEF Next

(***************************************************************************)
(* A slot of the server serves one open connection, a connection is served *)
(* by one slot or waits to be accepted, and none is forgotten: whatever    *)
(* the clients send, however often the slots of clients are reused, and    *)
(* for any number of both (acceptClients, disconnectClient).               *)
(***************************************************************************)
THEOREM SlotsServe == Spec => []SlotsServeConnections
<1>1. Init => SlotsInv
  BY TypeInit, SlotsInit DEF SlotsInv
<1>2. SlotsInv => SlotsServeConnections
  BY DEF SlotsInv
<1> QED
  BY <1>1, <1>2, SlotsStep, PTL DEF Spec
-----------------------------------------------------------------------------
(***************************************************************************)
(* Stored files only grow.                                                 *)
(***************************************************************************)
Grows == \A n \in stored : n \in stored' /\ IsPrefix(content[n], content'[n])

\* A sequence is a prefix of itself, and of itself followed by another one.
LEMMA PrefixOfConcat ==
    ASSUME NEW S, NEW a \in Seq(S), NEW b \in Seq(S)
    PROVE  IsPrefix(a, a) /\ IsPrefix(a, a \o b)
<1>1. /\ a \o b \in Seq(S) /\ Len(a \o b) = Len(a) + Len(b)
      /\ Len(a) \in Nat /\ Len(b) \in Nat
      /\ \A i \in 1 .. Len(a) : (a \o b)[i] = a[i]
  OBVIOUS
<1> DEFINE joined == a \o b
<1> HIDE DEF joined
<1>2. joined \in Seq(S) /\ Len(a) <= Len(joined) /\ \A i \in 1 .. Len(a) : joined[i] = a[i]
  BY <1>1 DEF joined
<1>3. SubSeq(a, 1, Len(a)) = SubSeq(joined, 1, Len(a))
  BY <1>1, <1>2
<1> QED
  BY <1>1, <1>2, <1>3 DEF IsPrefix, joined

LEMMA WriteGrows ==
    ASSUME TypeInv, Me.name \in Names, NEW r, r.pkt \in Packet,
           NEW k \in 0 .. Len(r.pkt.data), write(r.pkt.data, k)
    PROVE  Grows
<1>1. /\ content \in [Names -> Payload] /\ stored \subseteq Names
      /\ r.pkt.data \in Payload
  BY DEF TypeInv, TypeOK, ServerTypeOK, Packet
<1> SUFFICES ASSUME NEW n \in stored
             PROVE  n \in stored' /\ IsPrefix(content[n], content'[n])
  BY DEF Grows
<1>2. content[n] \in Payload
  BY <1>1
<1>3. stored' = stored
  BY DEF write, WriteBlock
<1>4. content'[n] = content[n] \/ content'[n] = content[n] \o SubSeq(r.pkt.data, 1, k)
  BY <1>1 DEF write, WriteBlock
<1>5. SubSeq(r.pkt.data, 1, k) \in Payload
  BY <1>1, PartType
<1> QED
  BY <1>1, <1>2, <1>3, <1>4, <1>5, PrefixOfConcat DEF Payload

LEMMA ServerGrows ==
    ASSUME TypeInv, ServerStep
    PROVE  Grows
<1>1. content \in [Names -> Payload] /\ stored \subseteq Names
  BY DEF TypeInv, TypeOK, ServerTypeOK
<1>2. ASSUME UNCHANGED content, stored \subseteq stored' PROVE Grows
  <2>1. \A n \in stored : content[n] \in Seq(Cell \cup {HeaderCell})
    BY <1>1 DEF Payload
  <2> QED
    BY <1>2, <2>1, PrefixOfConcat DEF Grows
<1>3. CASE filesUnchanged
  BY <1>2, <1>3 DEF filesUnchanged
<1>4. CASE \E r \in receivePacket : StartWrite(r)
  <2>1. PICK r \in receivePacket : StartWrite(r)
    BY <1>4
  <2>2. /\ r.pkt.name \notin stored
        /\ stored \subseteq stored'
        /\ content' = content \/ content' = [content EXCEPT ![r.pkt.name] = <<>>]
    BY <2>1 DEF StartWrite, CreateFile
  <2>3. \A n \in stored : content'[n] = content[n]
    BY <1>1, <2>2
  <2>4. \A n \in stored : content[n] \in Seq(Cell \cup {HeaderCell})
    BY <1>1 DEF Payload
  <2> QED
    BY <2>2, <2>3, <2>4, PrefixOfConcat DEF Grows
<1>5. CASE \E r \in receivePacket : DataExpected(r) \/ DataFinal(r)
  <2>1. PICK r \in receivePacket : DataExpected(r) \/ DataFinal(r)
    BY <1>5
  <2>2. Me.connected /\ Me.request = "WRITE"
    BY <2>1 DEF DataExpected, DataFinal, Serving
  <2>3. Me.name \in Names /\ r.pkt \in Packet
    BY <2>1, <2>2, MeType DEF SlotOK
  <2>4. PICK n \in 0 .. Len(r.pkt.data) : write(r.pkt.data, n)
    BY <2>1 DEF DataExpected, DataFinal, EndTransfer
  <2> QED
    BY <2>3, <2>4, WriteGrows
<1>6. \/ filesUnchanged
      \/ \E r \in receivePacket : StartWrite(r) \/ DataExpected(r) \/ DataFinal(r)
  BY DEF ServerStep, OnPacket, acceptClient, accept, NothingToAccept, PeerClosed,
         NothingReceived, ReadMissingFile, StartRead, WriteExistingFile,
         RequestUnexpected, AckExpected, AckFinal, AckOK, AckMismatch,
         ReadUnexpected, DataMismatch, WriteUnexpected, SendNextBlock, NothingToSend
<1> QED
  BY <1>3, <1>4, <1>5, <1>6

(***************************************************************************)
(* No step of any client, of the server or of the network empties,         *)
(* shortens or rewrites a stored file: a write request for a name that     *)
(* exists is refused, and an ofstream is only ever appended to (the test   *)
(* at the write request in acceptClients, and receiveFromClients).         *)
(***************************************************************************)
THEOREM FilesOnlyGrow == Spec => NoOverwrite
<1>1. TypeInv /\ [Next]_vars => [Grows]_vars
  <2> SUFFICES ASSUME TypeInv, [Next]_vars PROVE [Grows]_vars
    OBVIOUS
  <2>1. CASE Server
    BY <2>1, ServerGrows DEF Server
  <2>2. CASE UNCHANGED <<stored, content>>
    <3>1. \A n \in stored : content[n] \in Seq(Cell \cup {HeaderCell})
      BY DEF TypeInv, TypeOK, ServerTypeOK, Payload
    <3> QED
      BY <2>2, <3>1, PrefixOfConcat DEF Grows
  <2>3. Server \/ UNCHANGED <<stored, content>>
    BY DEF Next, Client, Timeout, Network, serverVars, vars
  <2> QED
    BY <2>1, <2>2, <2>3
<1> QED
  BY <1>1, TypeInit, TypeStep, PTL DEF Spec, NoOverwrite, Grows
-----------------------------------------------------------------------------
(***************************************************************************)
(* OneWriter is inductive: a step changes one slot, and this slot writes a *)
(* file only if it did so before, or if nobody else can: the file is new.  *)
(***************************************************************************)
StreamsTo(cl) == cl.connected /\ cl.request = "WRITE" /\ cl.good

Turns ==
    \E cl : /\ clients' = [clients EXCEPT ![slot] = cl]
            /\ StreamsTo(cl) => \/ StreamsTo(Me) /\ cl.name = Me.name
                                \/ cl.name \in stored' \ stored

LEMMA QuietTurn ==
    ASSUME NEW cl, NEW c, Store(cl, c), ~StreamsTo(cl)
    PROVE  Turns
BY DEF Store, Turns

LEMMA AnswerTurn ==
    ASSUME NEW cl, NEW c, NEW p, Answer(cl, c, p),
           StreamsTo(cl) => \/ StreamsTo(Me) /\ cl.name = Me.name
                            \/ cl.name \in stored' \ stored
    PROVE  Turns
<1>1. PICK o \in ServerSends(c, p) : Store(cl, o.conn)
  BY DEF Answer
<1> QED
  BY <1>1 DEF Store, Turns

LEMMA DisconnectTurn ==
    ASSUME NEW cl \in ServerClient, NEW c, disconnectClient(cl, c)
    PROVE  Turns
<1>1. ~Disconnected(cl).connected
  BY DEF Disconnected, Released, ServerClient
<1> QED
  BY <1>1, QuietTurn DEF disconnectClient, StreamsTo

LEMMA RefuseTurn ==
    ASSUME NEW cl \in ServerClient, NEW c, NEW code, Refuse(cl, c, code)
    PROVE  Turns
<1>1. PICK o \in ServerSends(c, createError(code)) : disconnectClient(cl, o.conn)
  BY DEF Refuse
<1> QED
  BY <1>1, DisconnectTurn

LEMMA SendDataTurn ==
    ASSUME TypeInv, NEW cl \in ServerClient, cl.name \in Names, cl.request = "READ",
           NEW c, sendPacketData(cl, c)
    PROVE  Turns
<1> DEFINE nb == NextBlock(cl)
<1>1. nb \in ServerClient /\ nb.request = "READ"
  BY NextBlockType DEF TypeInv, TypeOK, ServerTypeOK
<1>2. PICK o \in ServerSends(c, nb.last_sent_packet) :
          Store([nb EXCEPT !.acknowledged = IF o.ok THEN "WAITING" ELSE @], o.conn)
  BY DEF sendPacketData
<1> HIDE DEF nb
<1>3. [nb EXCEPT !.acknowledged = IF o.ok THEN "WAITING" ELSE @].request = "READ"
  BY <1>1 DEF ServerClient
<1> QED
  BY <1>2, <1>3, QuietTurn DEF StreamsTo

LEMMA RequestTurn ==
    ASSUME TypeInv, NEW r \in receivePacket,
           \/ ReadMissingFile(r) \/ StartRead(r)
           \/ WriteExistingFile(r) \/ StartWrite(r) \/ RequestUnexpected(r)
    PROVE  Turns
<1>1. Me \in ServerClient /\ r.pkt \in Packet
  BY MeType DEF SlotOK, receivePacket, Receiving
<1>2. CASE ReadMissingFile(r)
  <2>1. [Me EXCEPT !.request = "READ", !.file_rrq = "live"] \in ServerClient
    BY <1>1 DEF ServerClient, Pointer
  <2> QED
    BY <1>2, <2>1, RefuseTurn DEF ReadMissingFile
<1>3. CASE StartRead(r)
  <2> DEFINE cl == [Me EXCEPT !.request = "READ", !.file_rrq = "live",
                              !.name = r.pkt.name]
  <2>1. r.pkt.name \in Names
    BY <1>1, <1>3 DEF StartRead, isRRQ, Packet
  <2>2. cl \in ServerClient /\ cl.name \in Names /\ cl.request = "READ"
    BY <1>1, <2>1 DEF ServerClient, Pointer
  <2>3. sendPacketData(cl, After(r))
    BY <1>3 DEF StartRead
  <2> HIDE DEF cl
  <2> QED
    BY <2>2, <2>3, SendDataTurn
<1>4. CASE WriteExistingFile(r)
  <2>1. [Me EXCEPT !.request = "WRITE", !.file_rrq = "live"] \in ServerClient
    BY <1>1 DEF ServerClient, Pointer
  <2> QED
    BY <1>4, <2>1, RefuseTurn DEF WriteExistingFile
<1>5. CASE StartWrite(r)
  <2>1. r.pkt.name \in Names /\ r.pkt.name \notin stored
    BY <1>1, <1>5 DEF StartWrite, CreateFile, isWRQ, Packet
  <2>2. PICK opened \in BOOLEAN :
           /\ stored' = IF opened THEN stored \cup {r.pkt.name} ELSE stored
           /\ Answer([Me EXCEPT !.request = "WRITE", !.file_rrq = "freed",
                                !.file_wrq = "live", !.name = r.pkt.name,
                                !.good = opened],
                     After(r), createACK(0))
    BY <1>5 DEF StartWrite, CreateFile
  <2> DEFINE cl == [Me EXCEPT !.request = "WRITE", !.file_rrq = "freed",
                              !.file_wrq = "live", !.name = r.pkt.name,
                              !.good = opened]
  <2>3. cl.name = r.pkt.name /\ cl.good = opened
    BY <1>1 DEF ServerClient
  <2>4. Answer(cl, After(r), createACK(0))
    BY <2>2
  <2> HIDE DEF cl
  <2>5. StreamsTo(cl) => cl.name \in stored' \ stored
    BY <2>1, <2>2, <2>3 DEF StreamsTo
  <2> QED
    BY <2>4, <2>5, AnswerTurn
<1>6. CASE RequestUnexpected(r)
  BY <1>1, <1>6, RefuseTurn DEF RequestUnexpected
<1> QED
  BY <1>2, <1>3, <1>4, <1>5, <1>6

LEMMA TransferTurn ==
    ASSUME TypeInv, NEW r \in receivePacket,
           \/ AckExpected(r) \/ AckFinal(r) \/ AckMismatch(r) \/ ReadUnexpected(r)
           \/ DataExpected(r) \/ DataFinal(r) \/ DataMismatch(r) \/ WriteUnexpected(r)
    PROVE  Turns
<1>1. Me \in ServerClient
  BY MeType DEF SlotOK
<1>2. CASE AckExpected(r)
  <2>1. Store([Me EXCEPT !.acknowledged = "OK"], After(r)) /\ Me.request = "READ"
    BY <1>2 DEF AckExpected, AckFor, AckOK, Serving
  <2>2. [Me EXCEPT !.acknowledged = "OK"].request = "READ"
    BY <1>1, <2>1 DEF ServerClient
  <2> QED
    BY <2>1, <2>2, QuietTurn DEF StreamsTo
<1>3. CASE AckFinal(r)
  <2>1. [Me EXCEPT !.acknowledged = "OK"] \in ServerClient
    BY <1>1 DEF ServerClient
  <2> QED
    BY <1>3, <2>1, DisconnectTurn DEF AckFinal
<1>4. CASE AckMismatch(r)
  BY <1>4, AnswerTurn DEF AckMismatch
<1>5. CASE ReadUnexpected(r) \/ WriteUnexpected(r)
  BY <1>1, <1>5, RefuseTurn DEF ReadUnexpected, WriteUnexpected
<1>6. CASE DataExpected(r)
  <2>1. PICK n \in 0 .. Len(r.pkt.data) :
           Answer([Me EXCEPT !.block = @ + 1, !.good = @ /\ n = Len(r.pkt.data)],
                  After(r), createACK(Me.block + 1))
    BY <1>6 DEF DataExpected
  <2> DEFINE cl == [Me EXCEPT !.block = @ + 1, !.good = @ /\ n = Len(r.pkt.data)]
  <2>2. StreamsTo(cl) => StreamsTo(Me) /\ cl.name = Me.name
    <3>1. /\ cl.connected = Me.connected /\ cl.request = Me.request
          /\ cl.name = Me.name /\ cl.good = (Me.good /\ n = Len(r.pkt.data))
      BY <1>1 DEF ServerClient
    <3> HIDE DEF cl
    <3> QED
      BY <3>1 DEF StreamsTo
  <2> QED
    BY <2>1, <2>2, AnswerTurn
<1>7. CASE DataFinal(r)
  <2>1. PICK n \in 0 .. Len(r.pkt.data) :
           \E o \in ServerSends(After(r), createACK(Me.block + 1)) :
               disconnectClient(Me, o.conn)
    BY <1>7 DEF DataFinal, EndTransfer
  <2> QED
    BY <1>1, <2>1, DisconnectTurn
<1>8. CASE DataMismatch(r)
  <2> DEFINE cl == [Me EXCEPT !.block = @ + 1]
  <2>1. Store(cl, After(r))
    BY <1>8 DEF DataMismatch
  <2>2. StreamsTo(cl) => StreamsTo(Me) /\ cl.name = Me.name
    BY <1>1 DEF ServerClient, StreamsTo
  <2> QED
    BY <2>1, <2>2 DEF Store, Turns
<1> QED
  BY <1>2, <1>3, <1>4, <1>5, <1>6, <1>7, <1>8

LEMMA ServerTurn ==
    ASSUME TypeInv, ServerStep
    PROVE  Turns
<1>1. slot \in Slots /\ SlotOK(Me) /\ Me \in ServerClient /\ Me = clients[slot]
  BY MeType DEF SlotOK, Me
<1>2. clients \in [Slots -> ServerClient]
  BY DEF TypeInv, TypeOK, ServerTypeOK
<1>3. CASE UNCHANGED clients
  <2>1. clients' = [clients EXCEPT ![slot] = Me]
    BY <1>1, <1>2, <1>3
  <2> QED
    BY <2>1 DEF Turns
<1>4. CASE acceptClient
  <2> DEFINE cl == [Me EXCEPT !.connected = TRUE, !.client_socket = Head(backlog)]
  <2>1. cl.request = Me.request /\ Me.request = "UNDEFINED"
    BY <1>1, <1>4 DEF acceptClient, SlotOK, ServerClient
  <2>2. \E c : Store(cl, c)
    BY <1>4 DEF acceptClient, accept
  <2> HIDE DEF cl
  <2> QED
    BY <2>1, <2>2, QuietTurn DEF StreamsTo
<1>5. CASE NothingToAccept
  <2> DEFINE cl == [Me EXCEPT !.client_socket = NoSession]
  <2>1. CASE Me.connected
    <3>1. clients' = [clients EXCEPT ![slot] = Me]
      BY <1>1, <1>2, <1>5, <2>1 DEF NothingToAccept, ServerClient
    <3> QED
      BY <3>1 DEF Turns
  <2>2. CASE ~Me.connected
    <3>1. clients' = [clients EXCEPT ![slot] = cl]
      BY <1>1, <1>2, <1>5, <2>2 DEF NothingToAccept
    <3>2. ~cl.connected
      BY <1>1, <2>2 DEF ServerClient
    <3> QED
      BY <3>1, <3>2 DEF Turns, StreamsTo
  <2> QED
    BY <2>1, <2>2
<1>6. CASE PeerClosed
  BY <1>1, <1>6, DisconnectTurn DEF PeerClosed
<1>7. CASE \E r \in receivePacket : OnPacket(r)
  BY <1>7, RequestTurn, TransferTurn DEF OnPacket
<1>8. CASE SendNextBlock
  <2>1. sendPacketData(Me, Line) /\ Me.request = "READ" /\ Me.connected
    BY <1>8 DEF SendNextBlock, MaySend, Serving
  <2>2. Me.name \in Names
    BY <1>1, <2>1 DEF SlotOK
  <2> QED
    BY <1>1, <2>1, <2>2, SendDataTurn
<1> QED
  BY <1>3, <1>4, <1>5, <1>6, <1>7, <1>8 DEF ServerStep, NothingReceived, NothingToSend

LEMMA TurnKeepsOneWriter ==
    ASSUME TypeInv, OneWriter, Turns, stored \subseteq stored'
    PROVE  OneWriter'
<1>1. PICK cl :
          /\ clients' = [clients EXCEPT ![slot] = cl]
          /\ StreamsTo(cl) => \/ StreamsTo(Me) /\ cl.name = Me.name
                              \/ cl.name \in stored' \ stored
  BY DEF Turns
<1>2. slot \in Slots /\ clients \in [Slots -> ServerClient] /\ Me = clients[slot]
  BY MeType DEF TypeInv, TypeOK, ServerTypeOK, Me
<1>3. /\ clients'[slot] = cl
      /\ \A i \in Slots : i # slot => clients'[i] = clients[i]
  BY <1>1, <1>2
<1>4. /\ \A i \in Slots : Streams(i) <=> StreamsTo(clients[i])
      /\ \A i \in Slots : Streams(i)' <=> StreamsTo(clients'[i])
  BY DEF Streams, Writing, StreamsTo
<1>5. ASSUME NEW i \in Slots, StreamsTo(clients'[i])
      PROVE  /\ clients'[i].name \in stored'
             /\ \/ StreamsTo(clients[i]) /\ clients'[i].name = clients[i].name
                \/ i = slot /\ clients'[i].name \notin stored
  <2>1. CASE i = slot
    BY <1>1, <1>2, <1>3, <1>4, <1>5, <2>1 DEF OneWriter
  <2>2. CASE i # slot
    BY <1>3, <1>4, <1>5, <2>2 DEF OneWriter
  <2> QED
    BY <2>1, <2>2
<1>6. ASSUME NEW i \in Slots, NEW j \in Slots,
             StreamsTo(clients'[i]), StreamsTo(clients'[j]),
             clients'[i].name = clients'[j].name
      PROVE  i = j
  <2>1. \A k \in Slots : StreamsTo(clients[k]) => clients[k].name \in stored
    BY <1>4 DEF OneWriter
  <2>2. CASE StreamsTo(clients[i]) /\ clients'[i].name = clients[i].name
    BY <1>4, <1>5, <1>6, <2>1, <2>2 DEF OneWriter
  <2>3. CASE i = slot /\ clients'[i].name \notin stored
    BY <1>5, <1>6, <2>1, <2>3
  <2> QED
    BY <1>5, <1>6, <2>2, <2>3
<1> QED
  BY <1>4, <1>5, <1>6 DEF OneWriter

LEMMA OneWriterStep == TypeInv /\ OneWriter /\ [Next]_vars => OneWriter'
<1> SUFFICES ASSUME TypeInv, OneWriter, [Next]_vars PROVE OneWriter'
  OBVIOUS
<1>1. CASE Server
  <2>1. stored \subseteq stored'
    BY <1>1, ServerGrows DEF Server, Grows
  <2>2. Turns
    BY <1>1, ServerTurn DEF Server
  <2> QED
    BY <2>1, <2>2, TurnKeepsOneWriter
<1>2. CASE UNCHANGED serverVars
  BY <1>2 DEF serverVars, OneWriter, Streams, Writing
<1> QED
  BY <1>1, <1>2 DEF Next, Client, Timeout, Network, vars

(***************************************************************************)
(* However many masters send the same new name at once, and whatever the   *)
(* disk does, no two slots write one file: the test for an existing file   *)
(* and its creation are one visit of one thread (acceptClients).           *)
(***************************************************************************)
THEOREM WritersExclude == Spec => []OneWriter
<1>1. Init => OneWriter
  BY DEF Init, ServerInit, NewServerClient, OneWriter, Streams, Writing
<1> QED
  BY <1>1, TypeInit, TypeStep, OneWriterStep, PTL DEF Spec
=============================================================================

---------------------------- MODULE TftpProperties ----------------------------
(***************************************************************************)
(* What the transfer of files between masters and server should guarantee. *)
(***************************************************************************)
EXTENDS TftpSystem, SequencesExt

Writing(i) == clients[i].connected /\ clients[i].request = "WRITE"
Serves(i, s) == clients[i].connected /\ clients[i].client_socket = s
Finished(s) == tx[s].at = "done"
Succeeded(s) == tx[s].result = "ok"

(***************************************************************************)
(* Slots and connections match: a connected slot has an open connection of *)
(* its own, and no connection is open without a slot, or is both open and  *)
(* still to be accepted (acceptClient, disconnectClient and the reuse of   *)
(* the elements of clients).                                               *)
(***************************************************************************)
SlotOwnsConnection ==
    running => \A i \in Slots : clients[i].connected =>
                   /\ clients[i].client_socket \in Sessions
                   /\ conn[clients[i].client_socket].srv = "open"

SlotsDisjoint ==
    \A i, j \in Slots :
        clients[i].connected /\ Serves(j, clients[i].client_socket) => i = j

NoConnectionForgotten ==
    running => \A s \in Sessions :
                   conn[s].srv = "open" => \E i \in Slots : Serves(i, s)

BacklogWaits ==
    /\ IsInjective(backlog)
    /\ running => \A k \in DOMAIN backlog : conn[backlog[k]].srv = "backlog"

SlotsServeConnections ==
    /\ SlotOwnsConnection /\ SlotsDisjoint
    /\ NoConnectionForgotten /\ BacklogWaits

(***************************************************************************)
(* Two masters that send the same name at the same time never both write   *)
(* the file: whether it exists is checked before it is created, and both   *)
(* happen in the thread's one visit of the slot.                           *)
(***************************************************************************)
Streams(i) == Writing(i) /\ clients[i].good

OneWriter ==
    /\ \A i, j \in Slots :
           Streams(i) /\ Streams(j) /\ clients[i].name = clients[j].name => i = j
    /\ \A i \in Slots : Streams(i) => clients[i].name \in stored

(***************************************************************************)
(* Whatever is late, sent twice, cut off or not written to disk, a file    *)
(* the server has received is the beginning of what one master had under   *)
(* that name: blocks are never stored twice, out of order or from two      *)
(* masters (the block counters of sendFile and receiveFromClients).        *)
(***************************************************************************)
StoredIsPrefix ==
    \A n \in stored \ InitStored :
        \E s \in Putters : NameOf[s] = n /\ IsPrefix(content[n], SourceOf[s])

(***************************************************************************)
(* getFile has written the beginning of the file the server has, and when  *)
(* it reports success, all of it (if the file was whole when it started).  *)
(***************************************************************************)
GetFaithful ==
    \A s \in Getters :
        /\ IsPrefix(tx[s].file, content[NameOf[s]])
        /\ Succeeded(s) /\ NameOf[s] \in InitStored =>
               tx[s].file = content[NameOf[s]]

(***************************************************************************)
(* "The sender has to keep just one packet on hand for retransmission,     *)
(* since the lock step acknowledgment guarantees that all older packets    *)
(* have been received" (last_sent_packet, tftp_server.h): before the       *)
(* server moves to block b of a file, getFile has written all up to b - 1. *)
(***************************************************************************)
OlderReceived ==
    \A i \in Slots, s \in Getters :
        Serves(i, s) /\ clients[i].request = "READ" /\ conn[s].cli = "open" =>
            tx[s].last_packet_no >= clients[i].block

(***************************************************************************)
(* While nothing is late, a transfer proceeds in lock step: at most one of *)
(* its packets is under way, and the counters of sendFile or getFile and   *)
(* of the server's slot are at most one apart, from the moment the slot    *)
(* accepts it: nothing is left in a slot of the transfer before.           *)
(***************************************************************************)
InFlight(s) == Len(conn[s].up) + Len(conn[s].down)

LockStep ==
    \A i \in Slots, s \in Sessions :
        Serves(i, s) /\ conn[s].cli = "open" =>
            /\ InFlight(s) <= 1
            /\ tx[s].last_packet_no - clients[i].block \in {0, 1}

(***************************************************************************)
(* "Taip negali nutikti, nes pas mus naudojamas ACK Lock`as" (this cannot  *)
(* happen, since we use an ACK lock): no packet getFile can read has       *)
(* another number than the one it expects.                                 *)
(***************************************************************************)
CannotHappen ==
    \A s \in Getters : GetWaits(s) =>
        \A r \in Reads(conn[s].down) :
            isError(r.pkt) \/ getNumber(r.pkt) = tx[s].last_packet_no

-----------------------------------------------------------------------------
(***************************************************************************)
(* A stored file is never emptied, shortened or rewritten, whoever asks:   *)
(* "PUT failed. File already exists on server".                            *)
(***************************************************************************)
NoOverwrite ==
    [][\A n \in stored : n \in stored' /\ IsPrefix(content[n], content'[n])]_vars

(***************************************************************************)
(* The server implements WriteOnceStore.                                   *)
(***************************************************************************)
Archive == INSTANCE WriteOnceStore WITH Authors <- Putters
WriteOnce == Archive!StoreSpec

(***************************************************************************)
(* "Client successfully transfered a file": when the server ends a         *)
(* transfer on the packet it takes for the last one, it has the whole      *)
(* file.                                                                   *)
(***************************************************************************)
EndsTransfer(i) ==
    /\ Writing(i) /\ ~clients'[i].connected
    /\ ~ClientGone(conn[clients[i].client_socket])
    /\ isData(Head(conn[clients[i].client_socket].up))

SuccessfullyTransferred ==
    [][\A i \in Slots : EndsTransfer(i) =>
           content'[clients[i].name] = SourceOf[clients[i].client_socket]]_vars
-----------------------------------------------------------------------------
(***************************************************************************)
(* sendFile ends whatever happens to the server and the connection: it     *)
(* waits for an answer at most two seconds per block, and a server that    *)
(* has accepted it keeps reading, or dies.  Only a connection that is      *)
(* never accepted can keep it in send for ever.                            *)
(***************************************************************************)
NeverServed(s) == conn[s].srv = "backlog" /\ ~SendReturned(conn[s])

PutEndsOnceServed ==
    \A s \in Putters : <>Finished(s) \/ <>[]NeverServed(s)

(***************************************************************************)
(* "File sent successfully": if sendFile returned true, the server ends up *)
(* with the whole file under the name that was asked for.                  *)
(***************************************************************************)
PutCompletes ==
    \A s \in Putters : Succeeded(s) ~> (NameOf[s] \in stored
                                        /\ content[NameOf[s]] = SourceOf[s])

(***************************************************************************)
(* Of the masters that send one new name, one succeeds; those that come    *)
(* late are told so (error 6) instead of being served or forgotten.        *)
(***************************************************************************)
Rivals(s) == {r \in Putters : NameOf[r] = NameOf[s]}

OnePutWins ==
    \A s \in Putters :
        NameOf[s] \notin InitStored =>
            <>[](\E r \in Rivals(s) :
                    /\ Succeeded(r)
                    /\ \A t \in Rivals(s) \ {r} : tx[t].result = "error")

(***************************************************************************)
(* getFile of a file the server has ends with success, of any other file   *)
(* that nobody sends with an error.                                        *)
(***************************************************************************)
GetCompletes ==
    \A s \in Getters :
        <>(Finished(s) /\ (Succeeded(s) <=> NameOf[s] \in InitStored))

(***************************************************************************)
(* A slot is given back once its client is gone, so that ten transfers     *)
(* never use up the server (TFTP_SERVER_MAX_CLIENTS).                      *)
(***************************************************************************)
SlotsDrain ==
    \A i \in Slots :
        (clients[i].connected /\ conn[clients[i].client_socket].cli \in {"closed", "aborted"})
            ~> ~clients[i].connected
=============================================================================

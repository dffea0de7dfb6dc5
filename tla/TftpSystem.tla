------------------------------ MODULE TftpSystem ------------------------------
(***************************************************************************)
(* The masters' TFTP clients and one TFTP server, joined by their          *)
(* connections.  The server thread, each client and the network take steps *)
(* of their own, in any order.                                             *)
(***************************************************************************)
EXTENDS TftpServer, TftpClient

CONSTANT Impatient  \* sessions whose wait may end before an answer that is due

ASSUME ImpatientAssumption == Impatient \subseteq Sessions

vars == <<netVars, serverVars, tx>>

TypeOK == NetTypeOK /\ ServerTypeOK /\ ClientTypeOK

Init == NetInit /\ ServerInit /\ ClientInit
-----------------------------------------------------------------------------
(***************************************************************************)
(* TFTP_CLIENT_SERVER_TIMEOUT is two seconds.  A session outside Impatient *)
(* gives the server the time it needs: it times out only when nothing is   *)
(* due.  An answer the client has not got in time counts as one the server *)
(* has not sent yet: neither end can tell the difference.                  *)
(***************************************************************************)
Owes(i, s) ==
    /\ clients[i].connected
    /\ clients[i].client_socket = s
    /\ clients[i].request = "READ"
    /\ clients[i].acknowledged = "OK"

NothingDue(s) ==
    \/ /\ conn[s].srv = "backlog"
       /\ \A i \in Slots : clients[i].connected
    \/ /\ conn[s].srv = "open"
       /\ conn[s].up = <<>>
       /\ \A i \in Slots : ~Owes(i, s)

MayTimeOut(s) == s \in Impatient \/ NothingDue(s)
-----------------------------------------------------------------------------
Server == ServerStep /\ UNCHANGED tx
Client(s) == ClientStep(s) /\ UNCHANGED serverVars
Timeout(s) == MayTimeOut(s) /\ TimesOut(s) /\ UNCHANGED serverVars
Network(s) == (ResetArrives(s) \/ OsReclaims(s)) /\ UNCHANGED <<serverVars, tx>>

Next == Server \/ \E s \in Sessions : Client(s) \/ Timeout(s) \/ Network(s)

Spec == Init /\ [][Next]_vars

(***************************************************************************)
(* The server's loop never blocks, a client's select returns when there is *)
(* something to read and after two seconds at the latest, and the network  *)
(* delivers a reset.                                                       *)
(***************************************************************************)
Fairness ==
    /\ WF_vars(Server)
    /\ \A s \in Sessions :
         WF_vars(Client(s)) /\ WF_vars(Timeout(s)) /\ WF_vars(Network(s))

FairSpec == Spec /\ Fairness
=============================================================================

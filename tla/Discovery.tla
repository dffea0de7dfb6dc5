------------------------------ MODULE Discovery ------------------------------
(***************************************************************************)
(* UDPReseauMaster's search for machines: envoyer, ecouter and the list    *)
(* config, with the network between (external) and the count Winsock keeps *)
(* of WSAStartup and WSACleanup calls, on which its sockets depend.        *)
(***************************************************************************)
EXTENDS ConfigFile, FiniteSets

CONSTANTS
    Asked,        \* those a question sent to receiverAdress reaches
    Incomplete,   \* those whose answer has an empty nbvideo
    NoAnswer,     \* RecvBuf before the first answer
    MaxQuestions, \* bound: questions sent, in all
    MaxAnswers,   \* bound: answers to them
    MaxFound      \* bound: length of the list of users

ASSUME DiscoveryAssumption ==
    /\ IsFiniteSet(Machines)
    /\ Asked \subseteq Machines
    /\ Incomplete \subseteq Machines
    /\ NoAnswer \notin Machines
    /\ MaxQuestions \in Nat
    /\ MaxAnswers \in Nat
    /\ MaxFound \in Nat

VARIABLES
    questions,  \* how many were sent
    answers,    \* how many answers they have got
    coming,     \* answers of each machine still on the network
    inbox,      \* answers in the buffer of RecvSocket
    RecvBuf,    \* the answer received last
    config,     \* users found since effacerConfigPresente
    nb_User,    \* 1 once a user was ever found (the code's counter is never reset)
    winsock,    \* WSAStartup calls not yet undone by WSACleanup
    open        \* SendSocket and RecvSocket still work

discoveryVars ==
    <<questions, answers, coming, inbox, RecvBuf, config, nb_User, winsock, open>>
networkVars == <<questions, answers, coming, inbox>>

DiscoveryTypeOK ==
    /\ questions \in 0 .. MaxQuestions
    /\ answers \in 0 .. MaxAnswers
    /\ coming \in [Machines -> Nat]
    /\ inbox \in Seq(Machines)
    /\ RecvBuf \in Machines \cup {NoAnswer}
    /\ config \in Seq(Machines)
    /\ nb_User \in 0 .. 1
    /\ winsock \in Nat
    /\ open \in BOOLEAN

\* The process has started: its members client and admin have each called WSAStartup.
AdminStarts ==
    /\ inbox' = <<>>
    /\ RecvBuf' = NoAnswer
    /\ config' = <<>>
    /\ nb_User' = 0
    /\ winsock' = 2
    /\ open' = TRUE

DiscoveryInit ==
    /\ questions = 0
    /\ answers = 0
    /\ coming = [m \in Machines |-> 0]
    /\ inbox = <<>>
    /\ RecvBuf = NoAnswer
    /\ config = <<>>
    /\ nb_User = 0
    /\ winsock = 2
    /\ open = TRUE
-----------------------------------------------------------------------------
\* sendto on a socket that works: the question and its answers may be lost.
envoyer(reached) ==
    /\ questions < MaxQuestions
    /\ questions' = questions + 1
    /\ reached \subseteq (IF open THEN Asked ELSE {})
    /\ answers + Cardinality(reached) <= MaxAnswers
    /\ answers' = answers + Cardinality(reached)
    /\ coming' = [m \in Machines |-> IF m \in reached THEN coming[m] + 1 ELSE coming[m]]

AnswerArrives(m) ==
    /\ coming[m] > 0
    /\ coming' = [coming EXCEPT ![m] = @ - 1]

Deliver(m, listening) ==
    /\ AnswerArrives(m)
    /\ inbox' = IF listening /\ open THEN Append(inbox, m) ELSE inbox
    /\ UNCHANGED <<questions, answers, RecvBuf, config, nb_User, winsock, open>>
-----------------------------------------------------------------------------
\* What RecvBuf holds becomes the last user of the list.
push_back(m) ==
    /\ config' = IF Len(config) < MaxFound THEN Append(config, m) ELSE config
    /\ nb_User' = 1

\* select says that there is something to read.
recvfrom ==
    /\ open
    /\ inbox # <<>>
    /\ RecvBuf' = Head(inbox)
    /\ inbox' = Tail(inbox)
    /\ push_back(Head(inbox))
    /\ UNCHANGED <<questions, answers, coming, winsock, open>>

(***************************************************************************)
(* Once Winsock is shut down select and recvfrom return SOCKET_ERROR, which*)
(* is neither 0 nor looked at: what RecvBuf still holds is read again.     *)
(* Before the first answer it is not initialised, and may read like anyone.*)
(***************************************************************************)
recvfromFails ==
    /\ ~open
    /\ \E m \in IF RecvBuf = NoAnswer THEN Machines ELSE {RecvBuf} : push_back(m)
    /\ UNCHANGED <<questions, answers, coming, inbox, RecvBuf, winsock, open>>

\* select returns 0: nothing has come for TIMEOUT seconds, ecouter returns.
ListeningEnds ==
    /\ open
    /\ inbox = <<>>

effacerConfigPresente == config' = <<>>

\* What getConfigPresente shows, and recuperer_AdrIP copies.
NothingFound == config = <<>>

\* Mutant: the check of each user's ip and nbvideo stops after the first.
MissingInformationOfFirst == config # <<>> /\ Head(config) \in Incomplete

MissingInformation == \E k \in DOMAIN config : config[k] \in Incomplete
-----------------------------------------------------------------------------
(***************************************************************************)
(* A TFTPClient in this process: its constructor calls WSAStartup, then    *)
(* WSACleanup is called n times.  The last one closes every socket.        *)
(***************************************************************************)
WinsockAround(n) ==
    /\ winsock' = IF winsock + 1 > n THEN winsock + 1 - n ELSE 0
    /\ open' = (open /\ winsock + 1 > n)
=============================================================================

---------------------------- MODULE MasterWindows ----------------------------
(***************************************************************************)
(* The master program: Fenetre_Master and FenetreConfigReseau over         *)
(* ConfigFile and Discovery.  One thread handles the events of both        *)
(* windows; phase says which handler it is in, between the points where    *)
(* that handler waits for the network or the user, or saves the file       *)
(* again.  Handlers that do not wait are one step.                         *)
(***************************************************************************)
EXTENDS Discovery

CONSTANTS
    Videos,       \* the destination names the user may give
    NoChoice,     \* config_choisie = ""
    PresentList,  \* config_choisie = "list"
    MaxRefused    \* bound: transfers a server refuses, in all

Choice == Dates \cup {NoChoice, PresentList}

ASSUME WindowsAssumption ==
    /\ {NoChoice, PresentList} \cap Dates = {}
    /\ MaxRefused \in Nat

VARIABLES
    phase,           \* where the thread is
    shown,           \* FenetreConfigReseau is shown
    str,             \* the dates in its list box
    config_choisie,  \* the configuration to send to
    derniere_date,   \* the date recorded last (0: none)
    next,            \* the user to be recorded next
    told,            \* the message OnSend shows
    addresses,       \* the addresses of the send it is about
    served,          \* those whose server has taken the whole video
    holds,           \* names that are taken on each machine's server
    refused,         \* how many transfers were refused
    clock,           \* the last date used, in this run of the program or before
    noted,           \* what was found when each date was recorded
    agreed,          \* the machines the user agreed to send to
    died             \* the process has ended by undefined behaviour

masterVars == <<phase, shown, str, config_choisie, derniere_date, next>>
sendVars == <<told, addresses, served, holds, refused>>
ghostVars == <<clock, noted, agreed, died>>
vars == <<fileVars, discoveryVars, masterVars, sendVars, ghostVars>>

(***************************************************************************)
(* down: not running;  idle: waiting for a click;  first, second: in one of*)
(* the two calls of ecouter;  save: asked whether to save;  dating: about  *)
(* to call creerConfig;  recording: in the loop of                         *)
(* enregistrerConfigPresente;  use: asked whether to use what was found;   *)
(* told: OnSend's message is shown.                                        *)
(***************************************************************************)
Phases == {"down", "idle", "first", "second", "save", "dating", "recording", "use", "told"}
Messages == {"none", "asked", "Envoie Terminer !", "Envoie interrompue"}

WindowsTypeOK ==
    /\ phase \in Phases
    /\ shown \in BOOLEAN
    /\ str \in Seq(Dates)
    /\ config_choisie \in Choice
    /\ derniere_date \in 0 .. MaxDate
    /\ next \in Nat
    /\ told \in Messages
    /\ addresses \in Seq(Machines)
    /\ served \in SUBSET Machines
    /\ holds \in [Machines -> SUBSET Videos]
    /\ refused \in 0 .. MaxRefused
    /\ clock \in 0 .. MaxDate
    /\ noted \in [Dates -> Seq(Machines)]
    /\ agreed \in Seq(Machines)
    /\ died \in BOOLEAN

TypeOK == FileTypeOK /\ DiscoveryTypeOK /\ WindowsTypeOK

DatesOf(d) == [k \in DOMAIN d.configs |-> d.configs[k].date]

Init ==
    /\ FileInit
    /\ DiscoveryInit
    /\ phase = "idle"
    /\ shown = FALSE
    /\ str = DatesOf(InitDocument)
    /\ config_choisie = NoChoice
    /\ derniere_date = 0
    /\ next = 1
    /\ told = "none"
    /\ addresses = <<>>
    /\ served = {}
    /\ holds = [m \in Machines |-> {}]
    /\ refused = 0
    /\ clock = Len(InitDocument.configs)
    /\ noted = [d \in Dates |-> AddressesOf(InitDocument, d)]
    /\ agreed = <<>>
    /\ died = FALSE

Running == phase # "down"
-----------------------------------------------------------------------------
\* The process ends: what it had in memory is forgotten by the next one.
Ends(badly) ==
    /\ died' = badly
    /\ phase' = "down"
    /\ shown' = FALSE
    /\ str' = <<>>
    /\ config_choisie' = NoChoice
    /\ derniere_date' = 0
    /\ next' = 1
    /\ told' = "none"
    /\ addresses' = <<>>
    /\ served' = {}
    /\ agreed' = <<>>
    /\ AdminStarts
    /\ UNCHANGED <<questions, answers, coming, holds, refused, clock, noted>>

(***************************************************************************)
(* A call of a method that loads the file, decides with Op what to save,   *)
(* saves it and returns to the handler, which goes on with Return; or the  *)
(* process ends in it.                                                     *)
(***************************************************************************)
Call(Op(_), Return(_)) ==
    \E l \in Loads :
        \/ SaveFile(Op(l.doc), l.cost) /\ Return(l.doc)
        \/ InterruptedSave(Op(l.doc), l.cost) /\ Ends(FALSE)
        \/ NullDereference(Op(l.doc), l.cost) /\ Ends(TRUE)

\* The user quits, or the process is killed, not while it saves the file.
Quit ==
    /\ Running
    /\ Ends(FALSE)
    /\ \/ phase = "idle" /\ UNCHANGED fileVars
       \/ Spend(1) /\ file' = file

\* Mutant: the missing attribute is taken for a date.
StartUnchecked ==
    /\ phase = "down"
    /\ \E l \in Loads : Spend(l.cost) /\ file' = file /\ str' = DatesOf(l.doc)
    /\ phase' = "idle"
    /\ died' = FALSE
    /\ UNCHANGED <<discoveryVars, sendVars, clock, noted, agreed, shown, config_choisie, derniere_date, next>>

\* Fenetre_Master and FenetreConfigReseau are constructed; the list box gets
\* the dates, and a Config without a date ends the process at once.
Start ==
    /\ phase = "down"
    /\ \E l \in Loads :
           /\ Spend(l.cost)
           /\ file' = file
           /\ IF At(l.doc, NoDate) # {}
              THEN died' = TRUE /\ UNCHANGED <<phase, str>>
              ELSE died' = FALSE /\ phase' = "idle" /\ str' = DatesOf(l.doc)
    /\ UNCHANGED <<discoveryVars, sendVars, clock, noted, agreed, shown, config_choisie, derniere_date, next>>
-----------------------------------------------------------------------------
OnConfigReseau ==
    /\ phase = "idle"
    /\ shown' = TRUE
    /\ UNCHANGED <<fileVars, discoveryVars, sendVars, ghostVars,
                   phase, str, config_choisie, derniere_date, next>>

OnClose ==
    /\ phase = "idle" /\ shown
    /\ shown' = FALSE
    /\ UNCHANGED <<fileVars, discoveryVars, sendVars, ghostVars,
                   phase, str, config_choisie, derniere_date, next>>

Selects(date) == phase = "idle" /\ shown /\ \E k \in DOMAIN str : str[k] = date

Choose(choice, machines) ==
    /\ config_choisie' = choice
    /\ agreed' = machines
    /\ shown' = FALSE

\* The user is shown the configuration and then takes it, or does not.
OnBtnOKClicked(date) ==
    /\ Selects(date)
    /\ LET Op(d) == getUneConfigEnregistree(d, date)
           Return(d) ==
               /\ \/ Choose(date, noted[date])
                  \/ UNCHANGED <<config_choisie, agreed, shown>>
               /\ UNCHANGED <<discoveryVars, sendVars, clock, noted, died,
                              phase, str, derniere_date, next>>
       IN Call(Op, Return)

\* A configuration with users is read twice: the second time is this step again.
OnBtnConsulterClicked(date) ==
    /\ Selects(date)
    /\ LET Op(d) == getUneConfigEnregistree(d, date)
           Return(d) == UNCHANGED <<discoveryVars, masterVars, sendVars, ghostVars>>
       IN Call(Op, Return)

\* Mutant: the last entry is removed.
RemovedLast(s, date) == SubSeq(s, 1, Len(s) - 1)

\* str.Remove takes the first entry with that text.
Removed(s, date) ==
    LET k == First({j \in DOMAIN s : s[j] = date})
    IN  SubSeq(s, 1, k - 1) \o SubSeq(s, k + 1, Len(s))

OnBtnEffacerClicked(date) ==
    /\ Selects(date)
    /\ LET Op(d) == effacerUneConfigEnregistree(d, date)
           Return(d) ==
               /\ str' = Removed(str, date)
               /\ UNCHANGED <<discoveryVars, sendVars, ghostVars,
                              phase, shown, config_choisie, derniere_date, next>>
       IN Call(Op, Return)

OnBtnEffacerToutClicked ==
    /\ phase = "idle" /\ shown
    /\ LET Return(d) ==
               /\ str' = <<>>
               /\ UNCHANGED <<discoveryVars, sendVars, ghostVars,
                              phase, shown, config_choisie, derniere_date, next>>
       IN Call(effacerToutesLesConfig, Return)
-----------------------------------------------------------------------------
\* OnBtnRechercherClicked: the list is emptied and the question sent.
OnBtnRechercherClicked(reached) ==
    /\ phase = "idle" /\ shown
    /\ effacerConfigPresente
    /\ questions + 1 < MaxQuestions
    /\ envoyer(reached)
    /\ phase' = "first"
    /\ UNCHANGED <<fileVars, sendVars, ghostVars, inbox, RecvBuf, nb_User, winsock, open,
                   shown, str, config_choisie, derniere_date, next>>

ecouter ==
    /\ phase \in {"first", "second"}
    /\ recvfrom \/ recvfromFails
    /\ UNCHANGED <<fileVars, masterVars, sendVars, ghostVars>>

\* RecvBuf was never written: the scan for ';' leaves it and the process ends.
ScanLeavesBuffer ==
    /\ phase \in {"first", "second"}
    /\ ~open /\ RecvBuf = NoAnswer
    /\ UNCHANGED fileVars
    /\ Ends(TRUE)

AskAgain(reached) ==
    /\ phase = "first"
    /\ ListeningEnds
    /\ envoyer(reached)
    /\ phase' = "second"
    /\ UNCHANGED <<fileVars, sendVars, ghostVars, inbox, RecvBuf, config, nb_User, winsock,
                   open, shown, str, config_choisie, derniere_date, next>>

\* Mutant: it listens until somebody has answered.
ShowFoundOnly ==
    /\ phase = "second"
    /\ ListeningEnds
    /\ phase' = IF NothingFound THEN phase ELSE "save"
    /\ UNCHANGED <<fileVars, discoveryVars, sendVars, ghostVars,
                   shown, str, config_choisie, derniere_date, next>>

ShowFound ==
    /\ phase = "second"
    /\ ListeningEnds
    /\ phase' = IF NothingFound THEN "idle" ELSE "save"
    /\ UNCHANGED <<fileVars, discoveryVars, sendVars, ghostVars,
                   shown, str, config_choisie, derniere_date, next>>

Unrecorded ==
    /\ phase' = "use"
    /\ UNCHANGED <<fileVars, discoveryVars, sendVars, ghostVars,
                   shown, str, config_choisie, derniere_date, next>>

DoNotSave == phase = "save" /\ Unrecorded

\* enregistrerConfigPresente returns 1 or 2.
CannotSave ==
    /\ phase = "save"
    /\ nb_User = 0 \/ MissingInformation
    /\ Unrecorded

\* ... or takes the date, which is a new one: two searches take seconds.
TakeDate ==
    /\ phase = "save"
    /\ nb_User # 0 /\ ~MissingInformation
    /\ clock < MaxDate
    /\ clock' = clock + 1
    /\ noted' = [noted EXCEPT ![clock'] = config]
    /\ derniere_date' = clock'
    /\ phase' = "dating"
    /\ UNCHANGED <<fileVars, discoveryVars, sendVars, agreed, died,
                   shown, str, config_choisie, next>>

CreateConfig ==
    /\ phase = "dating"
    /\ LET Op(d) == creerConfig(d, derniere_date)
           Return(d) ==
               /\ next' = 1
               /\ phase' = "recording"
               /\ UNCHANGED <<discoveryVars, sendVars, ghostVars,
                              shown, str, config_choisie, derniere_date>>
       IN Call(Op, Return)

\* One iteration of its loop: a load that fails breaks it.
RecordUser ==
    /\ phase = "recording"
    /\ next <= Len(config)
    /\ LET Op(d) == ajouterUser(d, derniere_date, config[next])
           Return(d) ==
               /\ next' = IF ~d.whole THEN Len(config) + 1 ELSE next + 1
               /\ UNCHANGED <<discoveryVars, sendVars, ghostVars,
                              phase, shown, str, config_choisie, derniere_date>>
       IN Call(Op, Return)

\* It returns 0, and the list box gets the date.
Recorded ==
    /\ phase = "recording"
    /\ next > Len(config)
    /\ phase' = "use"
    /\ str' = Append(str, derniere_date)
    /\ next' = 1
    /\ UNCHANGED <<fileVars, discoveryVars, sendVars, ghostVars,
                   shown, config_choisie, derniere_date>>

UseFound ==
    /\ phase = "use"
    /\ phase' = "idle"
    /\ Choose(PresentList, config)
    /\ UNCHANGED <<fileVars, discoveryVars, sendVars, clock, noted, died,
                   str, derniere_date, next>>

\* Mutant: what was found stays.
DoNotUseKeeps ==
    /\ phase = "use"
    /\ phase' = "idle"
    /\ UNCHANGED <<fileVars, discoveryVars, sendVars, ghostVars,
                   shown, str, config_choisie, derniere_date, next>>

DoNotUse ==
    /\ phase = "use"
    /\ phase' = "idle"
    /\ effacerConfigPresente
    /\ UNCHANGED <<fileVars, networkVars, RecvBuf, nb_User, winsock, open, sendVars, ghostVars,
                   shown, str, config_choisie, derniere_date, next>>
-----------------------------------------------------------------------------
(***************************************************************************)
(* tftpSend: the body of its loop returns, so only the first address is    *)
(* ever tried.  Its client calls WSAStartup, its destructor WSACleanup;    *)
(* errorReceived calls the destructor once more.  Of what TftpSystem says  *)
(* of the transfer only this is kept: a new name is taken, a name the      *)
(* server has is refused.                                                  *)
(***************************************************************************)
\* Mutant: this way out calls the destructor, too.
NotSentDestroyed ==
    /\ told' = "Envoie interrompue"
    /\ served' = {}
    /\ WinsockAround(2)
    /\ UNCHANGED <<holds, refused>>

\* connectToServer fails, or the source cannot be opened.
NotSent ==
    /\ told' = "Envoie interrompue"
    /\ served' = {}
    /\ WinsockAround(1)
    /\ UNCHANGED <<holds, refused>>

Sent(m, v) ==
    /\ v \notin holds[m]
    /\ told' = "Envoie Terminer !"
    /\ served' = {m}
    /\ holds' = [holds EXCEPT ![m] = @ \cup {v}]
    /\ WinsockAround(1)
    /\ UNCHANGED refused

\* The server has the name already, complete or not.
Refused(m, v) ==
    /\ v \in holds[m]
    /\ refused < MaxRefused
    /\ refused' = refused + 1
    /\ told' = "Envoie interrompue"
    /\ served' = {}
    /\ WinsockAround(2)
    /\ UNCHANGED holds

\* The list is empty: tftpSend ends without a return statement.
NoReturnValue ==
    /\ told' \in {"Envoie Terminer !", "Envoie interrompue"}
    /\ served' = {}
    /\ UNCHANGED <<holds, refused, winsock, open>>

tftpSend(ips, v) ==
    /\ phase' = "told"
    /\ addresses' = ips
    /\ IF ips = <<>>
       THEN NoReturnValue
       ELSE NotSent \/ Sent(Head(ips), v) \/ Refused(Head(ips), v)
    /\ UNCHANGED <<networkVars, RecvBuf, config, nb_User>>

\* OnSend: the name, the file and the choice are looked at in this order.
NothingToSend(named, picked) ==
    /\ phase = "idle"
    /\ ~(named /\ picked /\ config_choisie # NoChoice)
    /\ phase' = "told"
    /\ told' = "asked"
    /\ UNCHANGED <<fileVars, discoveryVars, ghostVars, addresses, served, holds, refused,
                   shown, str, config_choisie, derniere_date, next>>

SendToFound(v) ==
    /\ phase = "idle"
    /\ config_choisie = PresentList
    /\ tftpSend(config, v)
    /\ UNCHANGED <<fileVars, ghostVars, shown, str, config_choisie, derniere_date, next>>

SendToStored(v) ==
    /\ phase = "idle"
    /\ config_choisie \in Dates
    /\ LET Op(d) == recuperer_AdrIPXML(d, config_choisie)
           Return(d) ==
               /\ tftpSend(AddressesOf(d, config_choisie), v)
               /\ UNCHANGED <<ghostVars, shown, str, config_choisie, derniere_date, next>>
       IN Call(Op, Return)

MessageRead ==
    /\ phase = "told"
    /\ phase' = "idle"
    /\ told' = "none"
    /\ addresses' = <<>>
    /\ served' = {}
    /\ UNCHANGED <<fileVars, discoveryVars, ghostVars, holds, refused,
                   shown, str, config_choisie, derniere_date, next>>

OnSend ==
    \/ \E named, picked \in BOOLEAN : NothingToSend(named, picked)
    \/ \E v \in Videos : SendToFound(v) \/ SendToStored(v)
-----------------------------------------------------------------------------
Network ==
    /\ \E m \in Machines : Deliver(m, Running)
    /\ UNCHANGED <<fileVars, masterVars, sendVars, ghostVars>>

OnBtnClicked ==
    \/ \E date \in Dates :
           OnBtnOKClicked(date) \/ OnBtnConsulterClicked(date) \/ OnBtnEffacerClicked(date)
    \/ OnBtnEffacerToutClicked
    \/ \E reached \in SUBSET Asked : OnBtnRechercherClicked(reached)

Answer == DoNotSave \/ CannotSave \/ TakeDate \/ UseFound \/ DoNotUse \/ MessageRead

\* What goes on without the user.
Search ==
    \/ ecouter
    \/ ScanLeavesBuffer
    \/ \E reached \in SUBSET Asked : AskAgain(reached)
    \/ ShowFound

Record == CreateConfig \/ RecordUser \/ Recorded

Next ==
    \/ Start \/ Quit
    \/ OnConfigReseau \/ OnClose \/ OnBtnClicked \/ OnSend
    \/ Search \/ Answer \/ Record
    \/ Network

Spec == Init /\ [][Next]_vars

(***************************************************************************)
(* The thread is never blocked in a handler: select returns after TIMEOUT  *)
(* at the latest, and saving waits for nobody.  Nothing is assumed of the  *)
(* user or of the network.                                                 *)
(***************************************************************************)
Fairness == WF_vars(Search) /\ WF_vars(Record)

FairSpec == Spec /\ Fairness
=============================================================================

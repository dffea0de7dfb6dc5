------------------------------ MODULE ConfigFile ------------------------------
(***************************************************************************)
(* ConfigReseau.xml and the methods of UDPReseauMaster and                 *)
(* FenetreConfigReseau that load it, look into it and save it.  The file   *)
(* is the document TinyXML makes of it (XmlFile says why that is enough);  *)
(* the four attributes of a user that no decision depends on one by one    *)
(* (hostname, username, os, nbvideo) are one.                              *)
(***************************************************************************)
EXTENDS Naturals, Sequences

CONSTANTS
    Machines,     \* the addresses machines may have
    MaxDate,      \* bound: how many configurations may be recorded
    NoDate,       \* a Config element without its attribute date
    NoAddress,    \* a user element without its attribute ip
    MaxFaults,    \* bound: calls of fopen that fail, and crashes
    InitDocument  \* the file when the program starts for the first time

Dates == 1 .. MaxDate

User == [ip : Machines \cup {NoAddress}, rest : BOOLEAN]
Config == [date : Dates \cup {NoDate}, users : Seq(User)]
Document == [root : BOOLEAN, configs : Seq(Config), whole : BOOLEAN]

\* whole: there is a root element, and LoadFile finds no error.
EmptyDocument == [root |-> FALSE, configs |-> <<>>, whole |-> FALSE]
BlankDocument == [root |-> TRUE, configs |-> <<>>, whole |-> TRUE]
FullUser(m) == [ip |-> m, rest |-> TRUE]

ASSUME FileAssumption ==
    /\ MaxDate \in Nat
    /\ MaxFaults \in Nat
    /\ NoDate \notin Dates
    /\ NoAddress \notin Machines
    /\ InitDocument \in Document
    /\ InitDocument.configs # <<>> => InitDocument.root
    /\ InitDocument.whole = InitDocument.root
    /\ Len(InitDocument.configs) <= MaxDate
    /\ \A k \in DOMAIN InitDocument.configs :
           /\ InitDocument.configs[k].date = k
           /\ InitDocument.configs[k].users \in Seq([ip : Machines, rest : {TRUE}])

VARIABLES
    file,    \* the document in ConfigReseau.xml
    faults   \* how often the disk or the process has failed

fileVars == <<file, faults>>

FileTypeOK == file \in Document /\ faults \in 0 .. MaxFaults
FileInit == file = InitDocument /\ faults = 0
-----------------------------------------------------------------------------
(***************************************************************************)
(* What loading gives when only a beginning of document d was written: in  *)
(* the order of the text, elements and attributes up to some point.  An    *)
(* element whose tag is cut is there without the attributes that follow.   *)
(***************************************************************************)
CutUser(u) == {[ip |-> NoAddress, rest |-> FALSE], [u EXCEPT !.rest = FALSE], u}

CutUsers(us) ==
    {us} \cup UNION {{SubSeq(us, 1, k - 1)} \cup
                     {Append(SubSeq(us, 1, k - 1), u) : u \in CutUser(us[k])} : k \in DOMAIN us}

CutConfig(c) ==
    {[date |-> NoDate, users |-> <<>>]} \cup
        {[c EXCEPT !.users = us] : us \in CutUsers(c.users)}

CutConfigs(cs) ==
    {<<>>} \cup
        UNION {{Append(SubSeq(cs, 1, k - 1), c) : c \in CutConfig(cs[k])} : k \in DOMAIN cs}

Cuts(d) ==
    {EmptyDocument, d} \cup
        {[root |-> TRUE, configs |-> cs, whole |-> FALSE] :
             cs \in IF d.root THEN CutConfigs(d.configs) ELSE {}}
-----------------------------------------------------------------------------
(***************************************************************************)
(* The loop over the Config elements that all methods share.  It compares  *)
(* std::string(elem->Attribute("date")): for an element without a date     *)
(* that is a string made of NULL, and the process ends.                    *)
(***************************************************************************)
At(d, date) == {k \in DOMAIN d.configs : d.configs[k].date = date}
First(K) == CHOOSE k \in K : \A j \in K : k <= j
Holds(d, date) == At(d, date) # {}
MeetsNull(d, date) ==
    \E k \in At(d, NoDate) : \A j \in At(d, date) : k < j
UsersOf(d, date) ==
    IF Holds(d, date) THEN d.configs[First(At(d, date))].users ELSE <<>>
AddressesOf(d, date) ==
    [k \in DOMAIN UsersOf(d, date) |-> UsersOf(d, date)[k].ip]

(***************************************************************************)
(* What a method does with the document d that LoadFile left it: end the   *)
(* process, save nothing, or save a document.  No method but               *)
(* enregistrerConfigPresente asks whether LoadFile has worked.             *)
(***************************************************************************)
Fatal == [ends |-> "dies", doc |-> EmptyDocument]
Unsaved == [ends |-> "unsaved", doc |-> EmptyDocument]
Saved(d) == [ends |-> "saved", doc |-> [d EXCEPT !.whole = d.root]]

effacerUneConfigEnregistree(d, date) ==
    CASE MeetsNull(d, date) -> Fatal
      [] ~MeetsNull(d, date) /\ ~Holds(d, date) -> Unsaved
      [] OTHER -> LET k == First(At(d, date)) IN
             Saved([d EXCEPT !.configs = SubSeq(@, 1, k - 1) \o SubSeq(@, k + 1, Len(@))])

\* Mutant: the new root is forgotten.
toutesEffacees(d) == Saved(EmptyDocument)

\* RemoveChild(NULL), when there is no root, does nothing.
effacerToutesLesConfig(d) == Saved(BlankDocument)

getUneConfigEnregistree(d, date) ==
    IF \/ MeetsNull(d, date)
       \/ \E k \in DOMAIN UsersOf(d, date) : ~UsersOf(d, date)[k].rest
    THEN Fatal ELSE Saved(d)

recuperer_AdrIPXML(d, date) ==
    IF \/ MeetsNull(d, date)
       \/ \E k \in DOMAIN UsersOf(d, date) : UsersOf(d, date)[k].ip = NoAddress
    THEN Fatal ELSE Saved(d)

\* Mutant: the new configuration is inserted before the others.
creerConfigFirst(d, date) ==
    IF d.root
    THEN Saved([d EXCEPT !.configs = <<[date |-> date, users |-> <<>>]>> \o @])
    ELSE Fatal

\* f->InsertEndChild with f the root, or NULL.
creerConfig(d, date) ==
    IF d.root
    THEN Saved([d EXCEPT !.configs = Append(@, [date |-> date, users |-> <<>>])])
    ELSE Fatal

\* Mutant: the user goes to the first configuration.
ajouterUserFirst(d, date, m) ==
    IF d.configs = <<>> THEN Unsaved
    ELSE Saved([d EXCEPT !.configs[1].users = Append(@, FullUser(m))])

\* One iteration of enregistrerConfigPresente: it breaks when the load has failed.
ajouterUser(d, date, m) ==
    CASE d.whole /\ MeetsNull(d, date) -> Fatal
      [] ~d.whole \/ (~MeetsNull(d, date) /\ ~Holds(d, date)) -> Unsaved
      [] OTHER -> LET k == First(At(d, date)) IN
             Saved([d EXCEPT !.configs[k].users = Append(@, FullUser(m))])
-----------------------------------------------------------------------------
(***************************************************************************)
(* LoadFile gives the document, or an empty one when fopen fails.          *)
(* SaveFile writes its own, or nothing when fopen fails; the process may   *)
(* end while it writes.                                                    *)
(***************************************************************************)
Loads == {[doc |-> file, cost |-> 0], [doc |-> EmptyDocument, cost |-> 1]}

Spend(n) == faults + n <= MaxFaults /\ faults' = faults + n

SaveFile(r, cost) ==
    \/ r.ends = "unsaved" /\ file' = file /\ Spend(cost)
    \/ r.ends = "saved" /\ file' = r.doc /\ Spend(cost)
    \/ r.ends = "saved" /\ file' = file /\ Spend(cost + 1)

InterruptedSave(r, cost) ==
    /\ r.ends = "saved"
    /\ file' \in Cuts(r.doc)
    /\ Spend(cost + 1)

NullDereference(r, cost) ==
    /\ r.ends = "dies"
    /\ file' = file
    /\ Spend(cost)
=============================================================================

---------------------------- MODULE MasterProofs ----------------------------
(***************************************************************************)
(* Theorems about the master program, for any number of machines, dates,   *)
(* questions, faults and refusals. Every handler that touches              *)
(* ConfigReseau.xml loads it, does one thing and saves it, so the proof    *)
(* first shows each of these methods Harmless, then each handler once.     *)
(***************************************************************************)
EXTENDS MasterProperties, WellFoundedInduction, SequenceTheorems, FiniteSetTheorems, TLAPS

(* A set of places that is not empty has a first one. *)
LEMMA FirstIs ==
    ASSUME NEW K, K \subseteq Nat, K # {}
    PROVE  First(K) \in K
<1>1. PICK k \in K : \A j \in K : ~(<<j, k>> \in OpToRel(<, Nat))
  BY WFMin, NatLessThanWellFounded, Zenon
<1>2. \A j \in K : ~(j < k)
  BY <1>1, Zenon DEF OpToRel
<1>3. \A j \in K : k <= j
  BY <1>2
<1> QED BY <1>3 DEF First

(* What the methods do to a sequence at one of its places gives a sequence. *)
LEMMA Cutting ==
    ASSUME NEW S, NEW s \in Seq(S), NEW k \in DOMAIN s
    PROVE  /\ s[k] \in S
           /\ SubSeq(s, 1, k - 1) \in Seq(S)
           /\ \A e \in S : Append(SubSeq(s, 1, k - 1), e) \in Seq(S) /\ [s EXCEPT ![k] = e] \in Seq(S)
           /\ SubSeq(s, 1, k - 1) \o SubSeq(s, k + 1, Len(s)) \in Seq(S)
<1>0. k \in 1 .. Len(s) /\ Len(s) \in Nat
  OBVIOUS
<1>1. SubSeq(s, 1, k - 1) \in Seq(S) /\ SubSeq(s, k + 1, Len(s)) \in Seq(S)
  BY <1>0
<1>2. \A e \in S : [s EXCEPT ![k] = e] \in Seq(S)
  BY <1>0
<1> QED BY <1>0, <1>1, <1>2

(* A beginning of a list of users is one. *)
LEMMA UsersCut ==
    ASSUME NEW us \in Seq(User)
    PROVE  CutUsers(us) \in SUBSET Seq(User)
<1>1. ASSUME NEW k \in DOMAIN us, NEW u \in CutUser(us[k])
      PROVE  Append(SubSeq(us, 1, k - 1), u) \in Seq(User) /\ SubSeq(us, 1, k - 1) \in Seq(User)
  <2>1. us[k] \in User
    BY Cutting
  <2>2. /\ [ip |-> NoAddress, rest |-> FALSE] \in User
        /\ [us[k] EXCEPT !.rest = FALSE] \in User
    BY <2>1 DEF User
  <2>3. u \in User
    BY <1>1, <2>1, <2>2 DEF CutUser
  <2> QED BY <2>3, Cutting
<1>2. ASSUME NEW v \in CutUsers(us)
      PROVE  v \in Seq(User)
  <2>1. \/ v = us
        \/ \E k \in DOMAIN us : \/ v = SubSeq(us, 1, k - 1)
                              \/ \E u \in CutUser(us[k]) : v = Append(SubSeq(us, 1, k - 1), u)
    BY <1>2 DEF CutUsers
  <2>2. \A k \in DOMAIN us : SubSeq(us, 1, k - 1) \in Seq(User)
    BY Cutting
  <2> QED BY <1>1, <2>1, <2>2
<1> QED BY <1>2

(* A beginning of a list of configurations is one. *)
LEMMA ConfigsCut ==
    ASSUME NEW cs \in Seq(Config)
    PROVE  CutConfigs(cs) \in SUBSET Seq(Config)
<1>1. ASSUME NEW k \in DOMAIN cs, NEW c \in CutConfig(cs[k])
      PROVE  Append(SubSeq(cs, 1, k - 1), c) \in Seq(Config)
  <2>1. cs[k] \in Config 
    BY Cutting
  <2>2. cs[k].users \in Seq(User) /\ <<>> \in Seq(User)
    BY <2>1 DEF Config
  <2>3. \A us \in CutUsers(cs[k].users) : [cs[k] EXCEPT !.users = us] \in Config
    BY <2>1, <2>2, UsersCut DEF Config
  <2>4. [date |-> NoDate, users |-> <<>>] \in Config
    BY <2>2 DEF Config
  <2>5. c \in Config
    BY <1>1, <2>3, <2>4 DEF CutConfig
  <2> QED BY <2>5, Cutting
<1>2. ASSUME NEW v \in CutConfigs(cs)
      PROVE  v \in Seq(Config)
  <2>1. \/ v = <<>>
        \/ \E k \in DOMAIN cs : \E c \in CutConfig(cs[k]) : v = Append(SubSeq(cs, 1, k - 1), c)
    BY <1>2 DEF CutConfigs
  <2>2. <<>> \in Seq(Config)
    OBVIOUS
  <2> QED BY <1>1, <2>1, <2>2
<1> QED BY <1>2

(* A crash in SaveFile leaves a document. *)
LEMMA DocumentCut ==
    ASSUME NEW d \in Document
    PROVE  Cuts(d) \in SUBSET Document
<1>1. d.configs \in Seq(Config) /\ <<>> \in Seq(Config)
  BY DEF Document
<1>2. CutConfigs(d.configs) \in SUBSET Seq(Config)
  BY <1>1, ConfigsCut
<1>3. EmptyDocument \in Document
  BY <1>1 DEF EmptyDocument, Document
<1>4. \A cs \in Seq(Config) : [root |-> TRUE, configs |-> cs, whole |-> FALSE] \in Document
  BY DEF Document
<1> QED BY <1>2, <1>3, <1>4 DEF Cuts
-----------------------------------------------------------------------------
(* What every user, configuration and document is as long as nothing fails. *)
WholeUser == [ip : Machines, rest : {TRUE}]
Undamaged == [date : Dates, users : Seq(WholeUser)]
Intact(d) == d.root /\ d.whole /\ d.configs \in Seq(Undamaged)

(* r, done with the loaded document d, saves a document; without damage it does not end the
   process, and does no damage. *)
Harmless(d, r) ==
    /\ r.ends = "saved" => r.doc \in Document
    /\ Intact(d) => r.ends # "dies" /\ (r.ends = "saved" => Intact(r.doc))

(* Saving changes nothing but whole. *)
LEMMA SavedIs ==
    ASSUME NEW d \in Document
    PROVE  /\ Saved(d).ends = "saved" /\ Saved(d).doc \in Document
           /\ Saved(d).doc.root = d.root /\ Saved(d).doc.configs = d.configs
           /\ Saved(d).doc.whole = d.root
    BY DEF Saved, Document

(* The loop over the Config elements finds one with the date. *)
LEMMA PlaceOf ==
    ASSUME NEW d \in Document, NEW date, Holds(d, date)
    PROVE  /\ First(At(d, date)) \in DOMAIN d.configs
           /\ d.configs[First(At(d, date))].date = date
<1>1. At(d, date) \subseteq DOMAIN d.configs /\ At(d, date) # {}
  BY DEF At, Holds
<1>2. DOMAIN d.configs \subseteq Nat
  BY DEF Document
<1>3. First(At(d, date)) \in At(d, date)
  BY <1>1, <1>2, FirstIs
<1> QED BY <1>1, <1>3 DEF At

(* ... and meets no missing attribute in an undamaged document. *)
LEMMA UndamagedDates ==
    ASSUME NEW d, Intact(d)
    PROVE  At(d, NoDate) = {} /\ \A date : ~MeetsNull(d, date)
<1>1. ASSUME NEW k \in At(d, NoDate)
      PROVE  FALSE
  <2>1. k \in DOMAIN d.configs /\ d.configs[k].date = NoDate
    BY DEF At
  <2>2. d.configs[k] \in Undamaged
    BY <2>1, Cutting DEF Intact
  <2> QED BY <2>1, <2>2, FileAssumption DEF Undamaged
<1> QED BY <1>1 DEF MeetsNull

(* A configuration with one more user is one. *)
LEMMA OneMore ==
    ASSUME NEW c, NEW m \in Machines
    PROVE  LET more == [c EXCEPT !.users = Append(@, FullUser(m))]
           IN  (c \in Config => more \in Config) /\ (c \in Undamaged => more \in Undamaged)
<1>1. FullUser(m) \in WholeUser /\ FullUser(m) \in User
  BY DEF FullUser, User, WholeUser
<1> DEFINE more == [c EXCEPT !.users = Append(@, FullUser(m))]
<1>2. ASSUME c \in Config
      PROVE  more \in Config
  <2>1. c.users \in Seq(User) /\ c.date \in Dates \cup {NoDate}
    BY <1>2 DEF Config
  <2>2. Append(c.users, FullUser(m)) \in Seq(User)
    BY <1>1, <2>1
  <2> QED BY <1>2, <2>2 DEF Config
<1>3. ASSUME c \in Undamaged
      PROVE  more \in Undamaged
  <2>1. c.users \in Seq(WholeUser)
    BY <1>3 DEF Undamaged
  <2>2. Append(c.users, FullUser(m)) \in Seq(WholeUser)
    BY <1>1, <2>1
  <2> QED BY <1>3, <2>2 DEF Undamaged
<1> QED BY <1>2, <1>3

(* What the loop over the users goes through. *)
LEMMA UsersTypes ==
    ASSUME NEW d \in Document, NEW date
    PROVE  /\ UsersOf(d, date) \in Seq(User)
           /\ Intact(d) => UsersOf(d, date) \in Seq(WholeUser)
<1>1. CASE Holds(d, date)
  <2> DEFINE k == First(At(d, date))
  <2>1. k \in DOMAIN d.configs
    BY <1>1, PlaceOf
  <2> HIDE DEF k
  <2>2. d.configs \in Seq(Config)
    BY DEF Document
  <2>3. d.configs[k] \in Config
    BY <2>1, <2>2, Cutting
  <2>4. Intact(d) => d.configs[k] \in Undamaged
    BY <2>1, Cutting DEF Intact
  <2> QED BY <1>1, <2>3, <2>4 DEF UsersOf, Config, Undamaged, k
<1>2. CASE ~Holds(d, date)
  BY <1>2 DEF UsersOf
<1> QED BY <1>1, <1>2

(* getUneConfigEnregistree and recuperer_AdrIPXML. *)
LEMMA Reading ==
    ASSUME NEW d \in Document, NEW date
    PROVE  Harmless(d, getUneConfigEnregistree(d, date)) /\ Harmless(d, recuperer_AdrIPXML(d, date))
<1> DEFINE us == UsersOf(d, date)
<1>1. Harmless(d, Saved(d))
  BY SavedIs DEF Harmless, Intact
<1>2. Fatal.ends = "dies"
  BY DEF Fatal
<1>3. Intact(d) => ~MeetsNull(d, date) /\ \A k \in DOMAIN us : us[k].rest /\ us[k].ip # NoAddress
  <2> SUFFICES ASSUME Intact(d), NEW k \in DOMAIN us
               PROVE  us[k].rest /\ us[k].ip # NoAddress
    BY UndamagedDates
  <2>1. us \in Seq(WholeUser)
    BY UsersTypes
  <2>2. us[k] \in WholeUser
    BY <2>1, Cutting
  <2> QED BY <2>2, FileAssumption DEF WholeUser
<1> HIDE DEF us
<1>4. \/ getUneConfigEnregistree(d, date) = Saved(d)
      \/ getUneConfigEnregistree(d, date) = Fatal /\ ~Intact(d)
  BY <1>3 DEF getUneConfigEnregistree, us
<1>5. \/ recuperer_AdrIPXML(d, date) = Saved(d)
      \/ recuperer_AdrIPXML(d, date) = Fatal /\ ~Intact(d)
  BY <1>3 DEF recuperer_AdrIPXML, us
<1> QED BY <1>1, <1>2, <1>4, <1>5 DEF Harmless

(* effacerUneConfigEnregistree and effacerToutesLesConfig. *)
LEMMA Erasing ==
    ASSUME NEW d \in Document, NEW date
    PROVE  Harmless(d, effacerUneConfigEnregistree(d, date)) /\ Harmless(d, effacerToutesLesConfig(d))
<1> DEFINE k == First(At(d, date))
           e == [d EXCEPT !.configs = SubSeq(@, 1, k - 1) \o SubSeq(@, k + 1, Len(@))]
<1>1. BlankDocument \in Document /\ Intact(BlankDocument)
  BY DEF BlankDocument, Document, Intact
<1>2. Harmless(d, effacerToutesLesConfig(d))
  BY <1>1, SavedIs DEF effacerToutesLesConfig, Harmless, Intact
<1>3. ASSUME Holds(d, date)
      PROVE  e \in Document /\ (Intact(d) => Intact(e))
  <2>1. k \in DOMAIN d.configs
    BY <1>3, PlaceOf
  <2> HIDE DEF k
  <2>2. d.configs \in Seq(Config)
    BY DEF Document
  <2>3. SubSeq(d.configs, 1, k - 1) \o SubSeq(d.configs, k + 1, Len(d.configs)) \in Seq(Config)
    BY <2>1, <2>2, Cutting
  <2>4. Intact(d) =>
          SubSeq(d.configs, 1, k - 1) \o SubSeq(d.configs, k + 1, Len(d.configs)) \in Seq(Undamaged)
    BY <2>1, Cutting DEF Intact
  <2> QED BY <2>3, <2>4 DEF Document, Intact
<1>4. \/ effacerUneConfigEnregistree(d, date) = Fatal /\ MeetsNull(d, date)
      \/ effacerUneConfigEnregistree(d, date) = Unsaved
      \/ effacerUneConfigEnregistree(d, date) = Saved(e) /\ Holds(d, date)
  BY DEF effacerUneConfigEnregistree
<1> HIDE DEF e
<1>5. Holds(d, date) => Harmless(d, Saved(e))
  BY <1>3, SavedIs DEF Harmless, Intact
<1> QED BY <1>2, <1>4, <1>5, UndamagedDates DEF Harmless, Fatal, Unsaved

(* creerConfig. *)
LEMMA Creating ==
    ASSUME NEW d \in Document, NEW date \in Dates
    PROVE  Harmless(d, creerConfig(d, date))
<1> DEFINE c == [date |-> date, users |-> <<>>]
           e == [d EXCEPT !.configs = Append(@, c)]
<1>1. c \in Config /\ c \in Undamaged
  BY DEF Config, Undamaged
<1> HIDE DEF c
<1>2. e \in Document /\ (Intact(d) => Intact(e))
  BY <1>1 DEF Document, Intact
<1>3. Harmless(d, Saved(e))
  BY <1>2, SavedIs DEF Harmless, Intact
<1>4. Harmless(d, Fatal) \/ d.root
  BY DEF Harmless, Fatal, Intact
<1> QED BY <1>3, <1>4 DEF creerConfig, c

(* An iteration of enregistrerConfigPresente. *)
LEMMA Adding ==
    ASSUME NEW d \in Document, NEW date, NEW m \in Machines
    PROVE  Harmless(d, ajouterUser(d, date, m))
<1> DEFINE k == First(At(d, date))
           e == [d EXCEPT !.configs[k].users = Append(@, FullUser(m))]
<1>1. ASSUME Holds(d, date)
      PROVE  e \in Document /\ (Intact(d) => Intact(e))
  <2>1. k \in DOMAIN d.configs
    BY <1>1, PlaceOf
  <2> HIDE DEF k
  <2> DEFINE c == [d.configs[k] EXCEPT !.users = Append(@, FullUser(m))]
  <2>2. d.configs \in Seq(Config)
    BY DEF Document
  <2>3. d.configs[k] \in Config /\ (Intact(d) => d.configs[k] \in Undamaged)
    BY <2>1, <2>2, Cutting DEF Intact
  <2>5. c \in Config /\ (Intact(d) => c \in Undamaged)
    BY <2>3, OneMore
  <2>7. e = [d EXCEPT !.configs = [d.configs EXCEPT ![k] = c]]
    BY <2>1 DEF Document
  <2> HIDE DEF c, e
  <2>8. [d.configs EXCEPT ![k] = c] \in Seq(Config)
    BY <2>1, <2>2, <2>5, Cutting
  <2>9. Intact(d) => [d.configs EXCEPT ![k] = c] \in Seq(Undamaged)
    BY <2>1, <2>5, Cutting DEF Intact
  <2> QED BY <2>7, <2>8, <2>9 DEF Document, Intact
<1>2. \/ ajouterUser(d, date, m) = Fatal /\ MeetsNull(d, date)
      \/ ajouterUser(d, date, m) = Unsaved
      \/ ajouterUser(d, date, m) = Saved(e) /\ Holds(d, date)
  BY DEF ajouterUser
<1> HIDE DEF e
<1>3. Holds(d, date) => Harmless(d, Saved(e))
  BY <1>1, SavedIs DEF Harmless, Intact
<1> QED BY <1>2, <1>3, UndamagedDates DEF Harmless, Fatal, Unsaved
-----------------------------------------------------------------------------
(* The parts of the inductive invariant.  Without a fault the file is undamaged, if it had a
   root element in the beginning. *)
FileInv == FileTypeOK /\ (InitDocument.root /\ faults = 0 => Intact(file))
(* Two WSAStartup calls are the windows' own; each refused transfer undoes one. *)
Sockets == refused < 2 => open /\ winsock + refused >= 2
(* recording needs the date, and the users are counted from 1. *)
Recording == next # 0 /\ (phase \in {"dating", "recording"} => derniere_date \in Dates)
Rest == DiscoveryTypeOK /\ WindowsTypeOK /\ Sockets /\ Recording
(* A file without a root ends the process when the first configuration is saved. *)
Living == InitDocument.root => DiesOnlyDamaged
Inv == FileInv /\ Rest /\ Living

(* LoadFile gives the file's document, or in a fault an empty one. *)
LEMMA LoadsTypes ==
    ASSUME FileInv, NEW l \in Loads
    PROVE  /\ l.doc \in Document
           /\ (l.doc = file /\ l.cost = 0) \/ l.cost = 1
<1>1. EmptyDocument \in Document
  BY DEF EmptyDocument, Document
<1> QED BY <1>1 DEF Loads, FileInv, FileTypeOK

(* The three ways a method that is Harmless ends. *)
LEMMA Saving ==
    ASSUME FileInv, NEW l \in Loads, NEW r, Harmless(l.doc, r)
    PROVE  /\ SaveFile(r, l.cost) => FileInv' /\ faults' >= faults
           /\ InterruptedSave(r, l.cost) => FileInv' /\ faults' >= faults
           /\ NullDereference(r, l.cost) => FileInv' /\ (InitDocument.root => faults' > 0)
<1>1. /\ file \in Document /\ faults \in Nat /\ faults <= MaxFaults /\ MaxFaults \in Nat
      /\ InitDocument.root /\ faults = 0 => Intact(file)
  BY FileAssumption DEF FileInv, FileTypeOK
<1>2. (l.doc = file /\ l.cost = 0) \/ l.cost = 1
  BY LoadsTypes
<1>3. ASSUME NEW n \in 0 .. 2, Spend(n)
      PROVE  /\ faults' \in 0 .. MaxFaults /\ faults' >= faults /\ (n > 0 => faults' > 0)
             /\ faults' = 0 => faults = 0 /\ n = 0
  BY <1>1, <1>3 DEF Spend
<1>4. ASSUME SaveFile(r, l.cost)
      PROVE  FileInv' /\ faults' >= faults
  <2>1. CASE file' = file
    <3>1. PICK n \in 0 .. 2 : Spend(n)
      BY <1>2, <1>4 DEF SaveFile
    <3> QED BY <1>1, <1>3, <2>1, <3>1 DEF FileInv, FileTypeOK
  <2>2. CASE r.ends = "saved" /\ file' = r.doc /\ Spend(l.cost)
    <3>1. l.cost \in 0 .. 2 /\ file' \in Document
      BY <1>2, <2>2 DEF Harmless
    <3>2. InitDocument.root /\ faults' = 0 => Intact(file')
      BY <1>1, <1>2, <1>3, <2>2, <3>1 DEF Harmless
    <3> QED BY <1>3, <2>2, <3>1, <3>2 DEF FileInv, FileTypeOK
  <2> QED BY <1>4, <2>1, <2>2 DEF SaveFile
<1>5. ASSUME InterruptedSave(r, l.cost)
      PROVE  FileInv' /\ faults' >= faults
  <2>1. file' \in Document /\ Spend(l.cost + 1) /\ l.cost + 1 \in 0 .. 2 /\ l.cost + 1 > 0
    BY <1>2, <1>5, DocumentCut DEF InterruptedSave, Harmless
  <2> QED BY <1>3, <2>1 DEF FileInv, FileTypeOK
<1>6. ASSUME NullDereference(r, l.cost)
      PROVE  FileInv' /\ (InitDocument.root => faults' > 0)
  <2>1. file' = file /\ Spend(l.cost) /\ l.cost \in 0 .. 2 /\ ~Intact(l.doc)
    BY <1>2, <1>6 DEF NullDereference, Harmless
  <2> QED BY <1>1, <1>2, <1>3, <2>1 DEF FileInv, FileTypeOK
<1> QED BY <1>4, <1>5, <1>6

(* The process ends: its Winsock calls are forgotten with it. *)
LEMMA Ending ==
    ASSUME Rest, NEW b \in BOOLEAN, Ends(b)
    PROVE  Rest' /\ died' = b /\ refused' = refused
<1>1. DiscoveryTypeOK'
  BY DEF Rest, DiscoveryTypeOK, Ends, AdminStarts
<1>2. WindowsTypeOK'
  <2>1. /\ phase' \in Phases /\ shown' \in BOOLEAN /\ config_choisie' \in Choice
        /\ next' \in Nat /\ told' \in Messages /\ served' \in SUBSET Machines
    BY DEF Ends, Phases, Messages, Choice
  <2>4. str' \in Seq(Dates) /\ addresses' \in Seq(Machines) /\ agreed' \in Seq(Machines)
    BY DEF Ends
  <2>5. died' \in BOOLEAN
    BY DEF Ends
  <2>2. derniere_date' \in 0 .. MaxDate
    BY FileAssumption DEF Ends
  <2>3. /\ holds' \in [Machines -> SUBSET Videos] /\ refused' \in 0 .. MaxRefused
        /\ clock' \in 0 .. MaxDate /\ noted' \in [Dates -> Seq(Machines)]
    BY DEF Rest, WindowsTypeOK, Ends
  <2> QED BY <2>1, <2>2, <2>3, <2>4, <2>5 DEF WindowsTypeOK
<1>3. Sockets'
  BY DEF Rest, WindowsTypeOK, Sockets, Ends, AdminStarts
<1>4. Recording'
  BY DEF Recording, Ends
<1> QED BY <1>1, <1>2, <1>3, <1>4 DEF Rest, Ends

(* Every handler that calls a method on the file keeps Inv if the way it returns does. *)
LEMMA Calling ==
    ASSUME Inv, NEW l \in Loads, NEW r, Harmless(l.doc, r),
           \/ SaveFile(r, l.cost) /\ Rest' /\ died' = died /\ refused' >= refused
           \/ InterruptedSave(r, l.cost) /\ Ends(FALSE)
           \/ NullDereference(r, l.cost) /\ Ends(TRUE)
    PROVE  Inv'
<1>0. /\ FileInv /\ Rest /\ Living /\ faults \in Nat /\ refused \in Nat
      /\ MaxRefused \in Nat
  BY WindowsAssumption, FileAssumption DEF Inv, FileInv, FileTypeOK, Rest, WindowsTypeOK
<1>1. CASE SaveFile(r, l.cost) /\ Rest' /\ died' = died /\ refused' >= refused
  <2>1. FileInv' /\ faults' >= faults
    BY <1>0, <1>1, Saving
  <2>2. faults' \in Nat /\ refused' \in Nat
    BY <1>1, <2>1, WindowsAssumption, FileAssumption DEF FileInv, FileTypeOK, Rest, WindowsTypeOK
  <2> QED BY <1>0, <1>1, <2>1, <2>2 DEF Inv, Living, DiesOnlyDamaged
<1>2. CASE InterruptedSave(r, l.cost) /\ Ends(FALSE)
  BY <1>0, <1>2, Saving, Ending DEF Inv, Living, DiesOnlyDamaged
<1>3. CASE NullDereference(r, l.cost) /\ Ends(TRUE)
  BY <1>0, <1>3, Saving, Ending DEF Inv, Living, DiesOnlyDamaged
<1> QED BY <1>1, <1>2, <1>3
-----------------------------------------------------------------------------
(* The other handlers. *)
LEMMA Quiet ==
    ASSUME Inv, UNCHANGED fileVars, Rest', died' => died, refused' >= refused
    PROVE  Inv'
<1>1. FileInv'
  BY DEF Inv, FileInv, FileTypeOK, fileVars
<1>2. refused \in Nat /\ refused' \in Nat /\ faults' = faults
  BY WindowsAssumption DEF Inv, Rest, WindowsTypeOK, fileVars
<1> QED BY <1>1, <1>2 DEF Inv, Living, DiesOnlyDamaged

(* Steps that leave the search alone, *)
LEMMA SameDiscovery ==
    ASSUME DiscoveryTypeOK, Sockets, UNCHANGED <<discoveryVars, refused>>
    PROVE  DiscoveryTypeOK' /\ Sockets'
  BY DEF DiscoveryTypeOK, Sockets, discoveryVars

(* or the windows, *)
LEMMA SameWindows ==
    ASSUME WindowsTypeOK, Recording, UNCHANGED <<masterVars, sendVars, ghostVars>>
    PROVE  WindowsTypeOK' /\ Recording'
  BY DEF WindowsTypeOK, Recording, masterVars, sendVars, ghostVars

(* or everything. *)
LEMMA Stuttering ==
    ASSUME Inv, UNCHANGED vars
    PROVE  Inv'
  BY SameDiscovery, SameWindows, Quiet DEF Inv, Rest, WindowsTypeOK, vars, sendVars, ghostVars

(* One lemma per handler. *)
LEMMA QuitKeeps ==
    ASSUME Inv, Quit
    PROVE  Inv'
<1>1. Rest' /\ died' = FALSE /\ refused' = refused
  BY Ending DEF Inv, Quit
<1>2. FileInv'
  BY FileAssumption DEF Inv, Quit, FileInv, FileTypeOK, Spend, fileVars
<1> QED BY <1>1, <1>2 DEF Inv, Living, DiesOnlyDamaged

(* The list box only ever gets dates: a missing one ends the process. *)
LEMMA DatesTypes ==
    ASSUME NEW d \in Document, At(d, NoDate) = {}
    PROVE  DatesOf(d) \in Seq(Dates)
<1>1. d.configs \in Seq(Config)
  BY DEF Document
<1>2. \A k \in DOMAIN d.configs : d.configs[k].date \in Dates
  <2> TAKE k \in DOMAIN d.configs
  <2>1. d.configs[k] \in Config
    BY <1>1, Cutting
  <2> QED BY <2>1 DEF Config, At
<1>3. DOMAIN d.configs = 1 .. Len(d.configs) /\ Len(d.configs) \in Nat
  BY <1>1
<1> QED BY <1>2, <1>3 DEF DatesOf

(* Start. *)
LEMMA StartKeeps ==
    ASSUME Inv, Start
    PROVE  Inv'
<1>1. PICK l \in Loads :
          /\ Spend(l.cost)
          /\ file' = file
          /\ IF At(l.doc, NoDate) # {}
             THEN died' = TRUE /\ UNCHANGED <<phase, str>>
             ELSE died' = FALSE /\ phase' = "idle" /\ str' = DatesOf(l.doc)
  BY DEF Start
<1>2. l.doc \in Document /\ ((l.doc = file /\ l.cost = 0) \/ l.cost = 1)
  BY LoadsTypes DEF Inv
<1>3. UNCHANGED <<discoveryVars, sendVars, clock, noted, agreed, shown, config_choisie,
                  derniere_date, next>>
  BY DEF Start
<1>4. FileInv'
  BY <1>1, <1>2, FileAssumption DEF Inv, FileInv, FileTypeOK, Spend
<1>5. InitDocument.root /\ At(l.doc, NoDate) # {} => faults' > 0
  <2>1. CASE l.cost = 1
    BY <1>1, <2>1, FileAssumption DEF Inv, FileInv, FileTypeOK, Spend
  <2>2. CASE l.doc = file /\ l.cost = 0 /\ At(l.doc, NoDate) # {}
    <3>1. ~Intact(file)
      BY <2>2, UndamagedDates
    <3> QED BY <1>1, <2>2, <3>1, FileAssumption DEF Inv, FileInv, FileTypeOK, Spend
  <2> QED BY <1>2, <2>1, <2>2
<1>6. DiscoveryTypeOK' /\ Sockets'
  BY <1>3, SameDiscovery DEF Inv, Rest, sendVars
<1>7. phase' \in Phases /\ str' \in Seq(Dates) /\ died' \in BOOLEAN /\ Recording'
  BY <1>1, <1>2, <1>3, DatesTypes DEF Inv, Rest, WindowsTypeOK, Recording, Phases
<1>8. WindowsTypeOK'
  BY <1>3, <1>7 DEF Inv, Rest, WindowsTypeOK, sendVars
<1> QED BY <1>1, <1>3, <1>4, <1>5, <1>6, <1>7, <1>8 DEF Inv, Rest, Living, DiesOnlyDamaged

(* OnConfigReseau, OnClose. *)
LEMMA ShowKeeps ==
    ASSUME Inv, OnConfigReseau \/ OnClose
    PROVE  Inv'
<1>1. DiscoveryTypeOK' /\ Sockets'
  BY SameDiscovery DEF Inv, Rest, OnConfigReseau, OnClose, sendVars
<1>2. WindowsTypeOK' /\ Recording'
  BY DEF Inv, Rest, WindowsTypeOK, Recording, OnConfigReseau, OnClose, sendVars, ghostVars
<1> QED BY <1>1, <1>2, Quiet DEF Inv, Rest, WindowsTypeOK, OnConfigReseau, OnClose, sendVars, ghostVars

(* OnBtnOKClicked. *)
LEMMA OKKeeps ==
    ASSUME Inv, NEW date \in Dates, OnBtnOKClicked(date)
    PROVE  Inv'
<1>1. PICK l \in Loads :
          \/ /\ SaveFile(getUneConfigEnregistree(l.doc, date), l.cost)
             /\ \/ Choose(date, noted[date])
                \/ UNCHANGED <<config_choisie, agreed, shown>>
             /\ UNCHANGED <<discoveryVars, sendVars, clock, noted, died,
                            phase, str, derniere_date, next>>
          \/ InterruptedSave(getUneConfigEnregistree(l.doc, date), l.cost) /\ Ends(FALSE)
          \/ NullDereference(getUneConfigEnregistree(l.doc, date), l.cost) /\ Ends(TRUE)
  BY DEF OnBtnOKClicked, Call
<1>2. Harmless(l.doc, getUneConfigEnregistree(l.doc, date))
  BY LoadsTypes, Reading DEF Inv
<1>3. ASSUME /\ \/ Choose(date, noted[date])
                \/ UNCHANGED <<config_choisie, agreed, shown>>
             /\ UNCHANGED <<discoveryVars, sendVars, clock, noted, died,
                            phase, str, derniere_date, next>>
      PROVE  Rest' /\ died' = died /\ refused' >= refused
  <2>1. DiscoveryTypeOK' /\ Sockets'
    BY <1>3, SameDiscovery DEF Inv, Rest, sendVars
  <2>2. WindowsTypeOK' /\ Recording'
    BY <1>3 DEF Inv, Rest, WindowsTypeOK, Recording, Choose, Choice, sendVars
  <2> QED BY <1>3, <2>1, <2>2 DEF Inv, Rest, WindowsTypeOK, sendVars
<1> QED BY <1>1, <1>2, <1>3, Calling

(* OnBtnConsulterClicked. *)
LEMMA ConsulterKeeps ==
    ASSUME Inv, NEW date \in Dates, OnBtnConsulterClicked(date)
    PROVE  Inv'
<1>1. PICK l \in Loads :
          \/ /\ SaveFile(getUneConfigEnregistree(l.doc, date), l.cost)
             /\ UNCHANGED <<discoveryVars, masterVars, sendVars, ghostVars>>
          \/ InterruptedSave(getUneConfigEnregistree(l.doc, date), l.cost) /\ Ends(FALSE)
          \/ NullDereference(getUneConfigEnregistree(l.doc, date), l.cost) /\ Ends(TRUE)
  BY DEF OnBtnConsulterClicked, Call
<1>2. Harmless(l.doc, getUneConfigEnregistree(l.doc, date))
  BY LoadsTypes, Reading DEF Inv
<1>3. ASSUME UNCHANGED <<discoveryVars, masterVars, sendVars, ghostVars>>
      PROVE  Rest' /\ died' = died /\ refused' >= refused
  BY <1>3, SameDiscovery, SameWindows DEF Inv, Rest, WindowsTypeOK, sendVars, ghostVars
<1> QED BY <1>1, <1>2, <1>3, Calling

(* OnBtnEffacerClicked. *)
LEMMA EffacerKeeps ==
    ASSUME Inv, NEW date \in Dates, OnBtnEffacerClicked(date)
    PROVE  Inv'
<1>1. PICK l \in Loads :
          \/ /\ SaveFile(effacerUneConfigEnregistree(l.doc, date), l.cost)
             /\ str' = Removed(str, date)
             /\ UNCHANGED <<discoveryVars, sendVars, ghostVars,
                            phase, shown, config_choisie, derniere_date, next>>
          \/ InterruptedSave(effacerUneConfigEnregistree(l.doc, date), l.cost) /\ Ends(FALSE)
          \/ NullDereference(effacerUneConfigEnregistree(l.doc, date), l.cost) /\ Ends(TRUE)
  BY DEF OnBtnEffacerClicked, Call
<1>2. Harmless(l.doc, effacerUneConfigEnregistree(l.doc, date))
  BY LoadsTypes, Erasing DEF Inv
<1>3. Removed(str, date) \in Seq(Dates)
  <2> DEFINE K == {j \in DOMAIN str : str[j] = date}
  <2>1. str \in Seq(Dates) /\ K # {}
    BY DEF Inv, Rest, WindowsTypeOK, OnBtnEffacerClicked, Selects
  <2>2. K \subseteq Nat
    BY <2>1
  <2>3. First(K) \in DOMAIN str
    BY <2>1, <2>2, FirstIs
  <2> HIDE DEF K
  <2>4. SubSeq(str, 1, First(K) - 1) \o SubSeq(str, First(K) + 1, Len(str)) \in Seq(Dates)
    BY <2>1, <2>3, Cutting
  <2> QED BY <2>4 DEF Removed, K
<1>4. ASSUME /\ str' = Removed(str, date)
             /\ UNCHANGED <<discoveryVars, sendVars, ghostVars,
                            phase, shown, config_choisie, derniere_date, next>>
      PROVE  Rest' /\ died' = died /\ refused' >= refused
  <2>1. DiscoveryTypeOK' /\ Sockets'
    BY <1>4, SameDiscovery DEF Inv, Rest, sendVars
  <2>2. WindowsTypeOK' /\ Recording'
    BY <1>3, <1>4 DEF Inv, Rest, WindowsTypeOK, Recording, sendVars, ghostVars
  <2> QED BY <1>4, <2>1, <2>2 DEF Inv, Rest, WindowsTypeOK, sendVars, ghostVars
<1> QED BY <1>1, <1>2, <1>4, Calling

(* OnBtnEffacerToutClicked. *)
LEMMA EffacerToutKeeps ==
    ASSUME Inv, OnBtnEffacerToutClicked
    PROVE  Inv'
<1>1. PICK l \in Loads :
          \/ /\ SaveFile(effacerToutesLesConfig(l.doc), l.cost)
             /\ str' = <<>>
             /\ UNCHANGED <<discoveryVars, sendVars, ghostVars,
                            phase, shown, config_choisie, derniere_date, next>>
          \/ InterruptedSave(effacerToutesLesConfig(l.doc), l.cost) /\ Ends(FALSE)
          \/ NullDereference(effacerToutesLesConfig(l.doc), l.cost) /\ Ends(TRUE)
  BY DEF OnBtnEffacerToutClicked, Call
<1>2. Harmless(l.doc, effacerToutesLesConfig(l.doc))
  BY LoadsTypes, Erasing DEF Inv
<1>3. ASSUME /\ str' = <<>>
             /\ UNCHANGED <<discoveryVars, sendVars, ghostVars,
                            phase, shown, config_choisie, derniere_date, next>>
      PROVE  Rest' /\ died' = died /\ refused' >= refused
  <2>1. DiscoveryTypeOK' /\ Sockets'
    BY <1>3, SameDiscovery DEF Inv, Rest, sendVars
  <2>2. WindowsTypeOK' /\ Recording'
    BY <1>3 DEF Inv, Rest, WindowsTypeOK, Recording, sendVars, ghostVars
  <2> QED BY <1>3, <2>1, <2>2 DEF Inv, Rest, WindowsTypeOK, sendVars, ghostVars
<1> QED BY <1>1, <1>2, <1>3, Calling

(* envoyer. *)
LEMMA AskingTypes ==
    ASSUME DiscoveryTypeOK, NEW reached \in SUBSET Asked, envoyer(reached)
    PROVE  /\ questions' \in 0 .. MaxQuestions /\ answers' \in 0 .. MaxAnswers
           /\ coming' \in [Machines -> Nat]
<1>1. Cardinality(reached) \in Nat
  BY DiscoveryAssumption, FS_Subset, FS_CardinalityType
<1> QED BY <1>1, DiscoveryAssumption DEF DiscoveryTypeOK, envoyer

(* OnBtnRechercherClicked. *)
LEMMA RechercherKeeps ==
    ASSUME Inv, NEW reached \in SUBSET Asked, OnBtnRechercherClicked(reached)
    PROVE  Inv'
<1>1. /\ envoyer(reached) /\ config' = <<>> /\ phase' = "first"
      /\ UNCHANGED <<fileVars, sendVars, ghostVars, inbox, RecvBuf, nb_User, winsock, open,
                     shown, str, config_choisie, derniere_date, next>>
  BY DEF OnBtnRechercherClicked, effacerConfigPresente
<1>2. DiscoveryTypeOK' /\ Sockets'
  BY <1>1, AskingTypes DEF Inv, Rest, DiscoveryTypeOK, Sockets, sendVars
<1>3. WindowsTypeOK' /\ Recording'
  BY <1>1 DEF Inv, Rest, WindowsTypeOK, Recording, Phases, sendVars, ghostVars
<1> QED BY <1>1, <1>2, <1>3, Quiet DEF Inv, Rest, WindowsTypeOK, sendVars, ghostVars

(* The second question. *)
LEMMA AskAgainKeeps ==
    ASSUME Inv, NEW reached \in SUBSET Asked, AskAgain(reached)
    PROVE  Inv'
<1>1. /\ envoyer(reached) /\ phase' = "second"
      /\ UNCHANGED <<fileVars, sendVars, ghostVars, inbox, RecvBuf, config, nb_User, winsock,
                     open, shown, str, config_choisie, derniere_date, next>>
  BY DEF AskAgain
<1>2. DiscoveryTypeOK' /\ Sockets'
  BY <1>1, AskingTypes DEF Inv, Rest, DiscoveryTypeOK, Sockets, sendVars
<1>3. WindowsTypeOK' /\ Recording'
  BY <1>1 DEF Inv, Rest, WindowsTypeOK, Recording, Phases, sendVars, ghostVars
<1> QED BY <1>1, <1>2, <1>3, Quiet DEF Inv, Rest, WindowsTypeOK, sendVars, ghostVars

(* push_back. *)
LEMMA FoundTypes ==
    ASSUME config \in Seq(Machines), NEW m \in Machines, push_back(m)
    PROVE  config' \in Seq(Machines) /\ nb_User' \in 0 .. 1
  BY DEF push_back

(* ecouter. *)
LEMMA ListeningKeeps ==
    ASSUME Inv, ecouter
    PROVE  Inv'
<1>1. UNCHANGED <<fileVars, masterVars, sendVars, ghostVars, winsock, open>>
  BY DEF ecouter, recvfrom, recvfromFails
<1>2. DiscoveryTypeOK'
  <2>1. CASE recvfrom
    <3>1. Head(inbox) \in Machines /\ Tail(inbox) \in Seq(Machines)
      BY <2>1 DEF Inv, Rest, DiscoveryTypeOK, recvfrom
    <3>2. config' \in Seq(Machines) /\ nb_User' \in 0 .. 1
      BY <2>1, <3>1, FoundTypes DEF Inv, Rest, DiscoveryTypeOK, recvfrom
    <3> QED BY <2>1, <3>1, <3>2 DEF Inv, Rest, DiscoveryTypeOK, recvfrom
  <2>2. CASE recvfromFails
    <3>1. PICK m \in Machines : push_back(m)
      BY <2>2 DEF Inv, Rest, DiscoveryTypeOK, recvfromFails
    <3>2. config' \in Seq(Machines) /\ nb_User' \in 0 .. 1
      BY <3>1, FoundTypes DEF Inv, Rest, DiscoveryTypeOK
    <3> QED BY <2>2, <3>2 DEF Inv, Rest, DiscoveryTypeOK, recvfromFails
  <2> QED BY <2>1, <2>2 DEF ecouter
<1>3. Sockets'
  BY <1>1 DEF Inv, Rest, Sockets, sendVars
<1>4. WindowsTypeOK' /\ Recording'
  BY <1>1, SameWindows DEF Inv, Rest
<1> QED BY <1>1, <1>2, <1>3, <1>4, Quiet DEF Inv, Rest, WindowsTypeOK, sendVars, ghostVars

(* The scan of a buffer never written: the sockets were lost, so two transfers were refused. *)
LEMMA ScanKeeps ==
    ASSUME Inv, ScanLeavesBuffer
    PROVE  Inv'
<1>1. Rest' /\ died' = TRUE /\ refused' = refused
  BY Ending DEF Inv, ScanLeavesBuffer
<1>2. refused >= 2
  BY WindowsAssumption DEF Inv, Rest, Sockets, WindowsTypeOK, ScanLeavesBuffer
<1>3. FileInv'
  BY DEF Inv, FileInv, FileTypeOK, ScanLeavesBuffer, fileVars
<1> QED BY <1>1, <1>2, <1>3 DEF Inv, Living, DiesOnlyDamaged

(* The end of the search, and not saving what it found. *)
LEMMA ShowFoundKeeps ==
    ASSUME Inv, ShowFound \/ DoNotSave \/ CannotSave
    PROVE  Inv'
<1>1. /\ phase' \in {"idle", "save", "use"}
      /\ UNCHANGED <<fileVars, discoveryVars, sendVars, ghostVars,
                     shown, str, config_choisie, derniere_date, next>>
  BY DEF ShowFound, DoNotSave, CannotSave, Unrecorded
<1>2. DiscoveryTypeOK' /\ Sockets'
  BY <1>1, SameDiscovery DEF Inv, Rest, sendVars
<1>3. WindowsTypeOK' /\ Recording'
  BY <1>1 DEF Inv, Rest, WindowsTypeOK, Recording, Phases, sendVars, ghostVars
<1> QED BY <1>1, <1>2, <1>3, Quiet DEF Inv, Rest, WindowsTypeOK, sendVars, ghostVars

(* A date is taken. *)
LEMMA TakeDateKeeps ==
    ASSUME Inv, TakeDate
    PROVE  Inv'
<1>1. /\ clock < MaxDate /\ clock' = clock + 1
      /\ noted' = [noted EXCEPT ![clock'] = config] /\ derniere_date' = clock'
      /\ phase' = "dating"
      /\ UNCHANGED <<fileVars, discoveryVars, sendVars, agreed, died,
                     shown, str, config_choisie, next>>
  BY DEF TakeDate
<1>2. clock' \in Dates /\ clock' \in 0 .. MaxDate
  BY <1>1, FileAssumption DEF Inv, Rest, WindowsTypeOK, Dates
<1>3. noted' \in [Dates -> Seq(Machines)]
  BY <1>1, <1>2 DEF Inv, Rest, WindowsTypeOK, DiscoveryTypeOK
<1>4. DiscoveryTypeOK' /\ Sockets'
  BY <1>1, SameDiscovery DEF Inv, Rest, sendVars
<1>5. WindowsTypeOK' /\ Recording'
  BY <1>1, <1>2, <1>3 DEF Inv, Rest, WindowsTypeOK, Recording, Phases, sendVars
<1> QED BY <1>1, <1>4, <1>5, Quiet DEF Inv, Rest, WindowsTypeOK, sendVars

(* CreateConfig. *)
LEMMA CreateKeeps ==
    ASSUME Inv, CreateConfig
    PROVE  Inv'
<1>1. PICK l \in Loads :
          \/ /\ SaveFile(creerConfig(l.doc, derniere_date), l.cost)
             /\ next' = 1 /\ phase' = "recording"
             /\ UNCHANGED <<discoveryVars, sendVars, ghostVars,
                            shown, str, config_choisie, derniere_date>>
          \/ InterruptedSave(creerConfig(l.doc, derniere_date), l.cost) /\ Ends(FALSE)
          \/ NullDereference(creerConfig(l.doc, derniere_date), l.cost) /\ Ends(TRUE)
  BY DEF CreateConfig, Call
<1>2. derniere_date \in Dates
  BY DEF Inv, Rest, Recording, CreateConfig
<1>3. Harmless(l.doc, creerConfig(l.doc, derniere_date))
  BY <1>2, LoadsTypes, Creating DEF Inv
<1>4. ASSUME /\ next' = 1 /\ phase' = "recording"
             /\ UNCHANGED <<discoveryVars, sendVars, ghostVars,
                            shown, str, config_choisie, derniere_date>>
      PROVE  Rest' /\ died' = died /\ refused' >= refused
  <2>1. DiscoveryTypeOK' /\ Sockets'
    BY <1>4, SameDiscovery DEF Inv, Rest, sendVars
  <2>2. WindowsTypeOK' /\ Recording'
    BY <1>2, <1>4 DEF Inv, Rest, WindowsTypeOK, Recording, Phases, sendVars, ghostVars
  <2> QED BY <1>4, <2>1, <2>2 DEF Inv, Rest, WindowsTypeOK, sendVars, ghostVars
<1> QED BY <1>1, <1>3, <1>4, Calling

(* RecordUser. *)
LEMMA RecordKeeps ==
    ASSUME Inv, RecordUser
    PROVE  Inv'
<1> DEFINE r(l) == ajouterUser(l.doc, derniere_date, config[next])
<1>1. PICK l \in Loads :
          \/ /\ SaveFile(r(l), l.cost)
             /\ next' = IF ~l.doc.whole THEN Len(config) + 1 ELSE next + 1
             /\ UNCHANGED <<discoveryVars, sendVars, ghostVars,
                            phase, shown, str, config_choisie, derniere_date>>
          \/ InterruptedSave(r(l), l.cost) /\ Ends(FALSE)
          \/ NullDereference(r(l), l.cost) /\ Ends(TRUE)
  BY DEF RecordUser, Call
<1>2. config \in Seq(Machines) /\ next \in DOMAIN config /\ config[next] \in Machines
  BY DEF Inv, Rest, WindowsTypeOK, DiscoveryTypeOK, Recording, RecordUser
<1>3. Harmless(l.doc, r(l))
  BY <1>2, LoadsTypes, Adding DEF Inv
<1>4. ASSUME /\ next' = IF ~l.doc.whole THEN Len(config) + 1 ELSE next + 1
             /\ UNCHANGED <<discoveryVars, sendVars, ghostVars,
                            phase, shown, str, config_choisie, derniere_date>>
      PROVE  Rest' /\ died' = died /\ refused' >= refused
  <2>1. DiscoveryTypeOK' /\ Sockets'
    BY <1>4, SameDiscovery DEF Inv, Rest, sendVars
  <2>2. next' \in Nat /\ next' # 0
    BY <1>2, <1>4
  <2>3. WindowsTypeOK' /\ Recording'
    BY <1>4, <2>2 DEF Inv, Rest, WindowsTypeOK, Recording, sendVars, ghostVars
  <2> QED BY <1>4, <2>1, <2>3 DEF Inv, Rest, WindowsTypeOK, sendVars, ghostVars
<1> HIDE DEF r
<1> QED BY <1>1, <1>3, <1>4, Calling

(* Recorded. *)
LEMMA RecordedKeeps ==
    ASSUME Inv, Recorded
    PROVE  Inv'
<1>1. /\ phase = "recording" /\ phase' = "use" /\ str' = Append(str, derniere_date) /\ next' = 1
      /\ UNCHANGED <<fileVars, discoveryVars, sendVars, ghostVars,
                     shown, config_choisie, derniere_date>>
  BY DEF Recorded
<1>2. str' \in Seq(Dates)
  BY <1>1 DEF Inv, Rest, WindowsTypeOK, Recording
<1>3. DiscoveryTypeOK' /\ Sockets'
  BY <1>1, SameDiscovery DEF Inv, Rest, sendVars
<1>4. WindowsTypeOK' /\ Recording'
  BY <1>1, <1>2 DEF Inv, Rest, WindowsTypeOK, Recording, Phases, sendVars, ghostVars
<1> QED BY <1>1, <1>3, <1>4, Quiet DEF Inv, Rest, WindowsTypeOK, sendVars, ghostVars

(* UseFound, DoNotUse. *)
LEMMA UseKeeps ==
    ASSUME Inv, UseFound \/ DoNotUse
    PROVE  Inv'
<1>1. CASE UseFound
  <2>1. /\ phase' = "idle" /\ Choose(PresentList, config)
        /\ UNCHANGED <<fileVars, discoveryVars, sendVars, clock, noted, died,
                       str, derniere_date, next>>
    BY <1>1 DEF UseFound
  <2>2. DiscoveryTypeOK' /\ Sockets'
    BY <2>1, SameDiscovery DEF Inv, Rest, sendVars
  <2>3. WindowsTypeOK' /\ Recording'
    BY <2>1 DEF Inv, Rest, WindowsTypeOK, DiscoveryTypeOK, Recording, Phases, Choose, Choice,
                sendVars
  <2> QED BY <2>1, <2>2, <2>3, Quiet DEF Inv, Rest, WindowsTypeOK, sendVars
<1>2. CASE DoNotUse
  <2>1. /\ phase' = "idle" /\ config' = <<>>
        /\ UNCHANGED <<fileVars, networkVars, RecvBuf, nb_User, winsock, open, sendVars, ghostVars,
                       shown, str, config_choisie, derniere_date, next>>
    BY <1>2 DEF DoNotUse, effacerConfigPresente
  <2>2. DiscoveryTypeOK' /\ Sockets'
    BY <2>1 DEF Inv, Rest, DiscoveryTypeOK, Sockets, networkVars, sendVars
  <2>3. WindowsTypeOK' /\ Recording'
    BY <2>1 DEF Inv, Rest, WindowsTypeOK, Recording, Phases, sendVars, ghostVars
  <2> QED BY <2>1, <2>2, <2>3, Quiet DEF Inv, Rest, WindowsTypeOK, sendVars, ghostVars
<1> QED BY <1>1, <1>2
-----------------------------------------------------------------------------
(* The count of WSAStartup calls stays a number. *)
LEMMA WinsockTypes ==
    ASSUME winsock \in Nat, NEW n \in 1 .. 2, WinsockAround(n)
    PROVE  winsock' \in Nat /\ open' \in BOOLEAN
  BY DEF WinsockAround

(* The one WSACleanup too many of a refused transfer is paid by refused. *)
LEMMA SocketsAround ==
    ASSUME winsock \in Nat, open \in BOOLEAN, refused \in Nat, refused' \in Nat, Sockets,
           \/ refused' = refused /\ WinsockAround(1)
           \/ refused' = refused + 1 /\ WinsockAround(2)
    PROVE  Sockets'
<1> SUFFICES ASSUME refused' < 2
             PROVE  open' /\ winsock' + refused' >= 2
  BY DEF Sockets
<1>1. refused < 2 /\ open /\ winsock + refused >= 2
  BY DEF Sockets
<1>2. CASE refused' = refused /\ WinsockAround(1)
  <2>1. winsock + 1 > 1
    BY <1>1, <1>2
  <2>2. winsock' = winsock + 1 - 1
    BY <1>2, <2>1 DEF WinsockAround
  <2>3. open'
    BY <1>1, <1>2, <2>1, Zenon DEF WinsockAround
  <2> QED BY <1>1, <1>2, <2>2, <2>3
<1>3. CASE refused' = refused + 1 /\ WinsockAround(2)
  <2>1. winsock + 1 > 2
    BY <1>1, <1>3
  <2>2. winsock' = winsock + 1 - 2
    BY <1>3, <2>1 DEF WinsockAround
  <2>3. open'
    BY <1>1, <1>3, <2>1, Zenon DEF WinsockAround
  <2> QED BY <1>1, <1>3, <2>2, <2>3
<1> QED BY <1>2, <1>3

(* The three ends of a transfer. *)
LEMMA TransferTypes ==
    ASSUME Rest, NEW m \in Machines, NEW v \in Videos, NotSent \/ Sent(m, v) \/ Refused(m, v)
    PROVE  /\ told' \in Messages /\ served' \in SUBSET Machines
           /\ holds' \in [Machines -> SUBSET Videos]
           /\ refused' \in 0 .. MaxRefused /\ refused' >= refused
           /\ winsock' \in Nat /\ open' \in BOOLEAN /\ Sockets'
<1>0. /\ holds \in [Machines -> SUBSET Videos] /\ refused \in 0 .. MaxRefused
      /\ winsock \in Nat /\ open \in BOOLEAN /\ Sockets /\ MaxRefused \in Nat
  BY WindowsAssumption DEF Rest, WindowsTypeOK, DiscoveryTypeOK
<1>1. CASE NotSent
  <2>1. told' \in Messages /\ served' \in SUBSET Machines
    BY <1>1 DEF NotSent, Messages
  <2>2. UNCHANGED <<holds, refused>> /\ WinsockAround(1)
    BY <1>1 DEF NotSent
  <2>3. Sockets'
    BY <1>0, <2>2, SocketsAround
  <2> QED BY <1>0, <2>1, <2>2, <2>3, WinsockTypes
<1>2. CASE Sent(m, v)
  <2>1. told' \in Messages /\ served' \in SUBSET Machines
    BY <1>2 DEF Sent, Messages
  <2>2. UNCHANGED refused /\ WinsockAround(1) /\ holds' = [holds EXCEPT ![m] = @ \cup {v}]
    BY <1>2 DEF Sent
  <2>3. Sockets'
    BY <1>0, <2>2, SocketsAround
  <2>4. holds' \in [Machines -> SUBSET Videos]
    BY <1>0, <2>2
  <2> QED BY <1>0, <2>1, <2>2, <2>3, <2>4, WinsockTypes
<1>3. CASE Refused(m, v)
  <2>1. told' \in Messages /\ served' \in SUBSET Machines
    BY <1>3 DEF Refused, Messages
  <2>2. UNCHANGED holds /\ WinsockAround(2) /\ refused < MaxRefused /\ refused' = refused + 1
    BY <1>3 DEF Refused
  <2>3. Sockets'
    BY <1>0, <2>2, SocketsAround
  <2> QED BY <1>0, <2>1, <2>2, <2>3, WinsockTypes
<1> QED BY <1>1, <1>2, <1>3

(* tftpSend. *)
LEMMA SendingTypes ==
    ASSUME Rest, NEW ips \in Seq(Machines), NEW v \in Videos, tftpSend(ips, v),
           UNCHANGED <<ghostVars, shown, str, config_choisie, derniere_date, next>>
    PROVE  Rest' /\ died' = died /\ refused' >= refused
<1>1. /\ told' \in Messages /\ served' \in SUBSET Machines
      /\ holds' \in [Machines -> SUBSET Videos]
      /\ refused' \in 0 .. MaxRefused /\ refused' >= refused
      /\ winsock' \in Nat /\ open' \in BOOLEAN /\ Sockets'
  <2>1. CASE ips = <<>> /\ NoReturnValue
    <3>1. /\ told' \in Messages /\ served' \in SUBSET Machines
          /\ UNCHANGED <<holds, refused, winsock, open>>
      BY <2>1 DEF NoReturnValue, Messages
    <3> QED BY <3>1, WindowsAssumption DEF Rest, WindowsTypeOK, DiscoveryTypeOK, Sockets
  <2>2. CASE ips # <<>> /\ (NotSent \/ Sent(Head(ips), v) \/ Refused(Head(ips), v))
    <3>1. Head(ips) \in Machines
      BY <2>2
    <3> QED BY <2>2, <3>1, TransferTypes
  <2> QED BY <2>1, <2>2 DEF tftpSend
<1>2. /\ phase' = "told" /\ addresses' = ips /\ UNCHANGED <<networkVars, RecvBuf, config, nb_User>>
  BY DEF tftpSend
<1>3. DiscoveryTypeOK'
  BY <1>1, <1>2 DEF Rest, DiscoveryTypeOK, networkVars
<1>4. WindowsTypeOK' /\ Recording'
  BY <1>1, <1>2 DEF Rest, WindowsTypeOK, Recording, Phases, ghostVars
<1> QED BY <1>1, <1>3, <1>4 DEF Rest, ghostVars

(* Messages shown and read. *)
LEMMA MessageKeeps ==
    ASSUME Inv,
           MessageRead \/ \E named, picked \in BOOLEAN : NothingToSend(named, picked)
    PROVE  Inv'
<1>1. /\ phase' \in {"idle", "told"} /\ told' \in {"none", "asked"}
      /\ addresses' \in {<<>>, addresses} /\ served' \in {{}, served}
      /\ UNCHANGED <<fileVars, discoveryVars, ghostVars, holds, refused,
                     shown, str, config_choisie, derniere_date, next>>
  BY DEF MessageRead, NothingToSend
<1>2. DiscoveryTypeOK' /\ Sockets'
  BY <1>1, SameDiscovery DEF Inv, Rest
<1>3. /\ phase' \in Phases /\ told' \in Messages /\ addresses' \in Seq(Machines)
      /\ served' \in SUBSET Machines /\ phase' \notin {"dating", "recording"}
  <2>1. /\ addresses \in Seq(Machines) /\ served \in SUBSET Machines
        /\ <<>> \in Seq(Machines) /\ {} \in SUBSET Machines
    BY DEF Inv, Rest, WindowsTypeOK
  <2> QED BY <1>1, <2>1 DEF Phases, Messages
<1>4. WindowsTypeOK' /\ Recording'
  BY <1>1, <1>3 DEF Inv, Rest, WindowsTypeOK, Recording, ghostVars
<1> QED BY <1>1, <1>2, <1>4, Quiet DEF Inv, Rest, WindowsTypeOK, ghostVars

(* OnSend to what the search found. *)
LEMMA SendToFoundKeeps ==
    ASSUME Inv, NEW v \in Videos, SendToFound(v)
    PROVE  Inv'
<1>1. /\ tftpSend(config, v)
      /\ UNCHANGED <<fileVars, ghostVars, shown, str, config_choisie, derniere_date, next>>
  BY DEF SendToFound
<1>2. config \in Seq(Machines)
  BY DEF Inv, Rest, DiscoveryTypeOK
<1>3. Rest' /\ died' = died /\ refused' >= refused
  BY <1>1, <1>2, SendingTypes DEF Inv
<1> QED BY <1>1, <1>3, Quiet

(* recuperer_AdrIPXML returns addresses, or not at all. *)
LEMMA AddressesTypes ==
    ASSUME NEW d \in Document, NEW date, recuperer_AdrIPXML(d, date) # Fatal
    PROVE  AddressesOf(d, date) \in Seq(Machines)
<1> DEFINE us == UsersOf(d, date)
<1>1. us \in Seq(User) /\ \A k \in DOMAIN us : us[k].ip # NoAddress
  BY UsersTypes DEF recuperer_AdrIPXML
<1>2. AddressesOf(d, date) = [k \in DOMAIN us |-> us[k].ip]
  BY DEF AddressesOf
<1> HIDE DEF us
<1>3. \A k \in DOMAIN us : us[k].ip \in Machines
  <2> TAKE k \in DOMAIN us
  <2>1. us[k] \in User
    BY <1>1, Cutting
  <2> QED BY <1>1, <2>1 DEF User
<1>4. DOMAIN us = 1 .. Len(us) /\ Len(us) \in Nat
  BY <1>1
<1> QED BY <1>2, <1>3, <1>4

(* OnSend to a configuration of the file. *)
LEMMA SendToStoredKeeps ==
    ASSUME Inv, NEW v \in Videos, SendToStored(v)
    PROVE  Inv'
<1> DEFINE r(l) == recuperer_AdrIPXML(l.doc, config_choisie)
<1>1. PICK l \in Loads :
          \/ /\ SaveFile(r(l), l.cost)
             /\ tftpSend(AddressesOf(l.doc, config_choisie), v)
             /\ UNCHANGED <<ghostVars, shown, str, config_choisie, derniere_date, next>>
          \/ InterruptedSave(r(l), l.cost) /\ Ends(FALSE)
          \/ NullDereference(r(l), l.cost) /\ Ends(TRUE)
  BY DEF SendToStored, Call
<1>2. l.doc \in Document /\ Harmless(l.doc, r(l))
  BY LoadsTypes, Reading DEF Inv
<1>3. SaveFile(r(l), l.cost) => r(l) # Fatal
  BY DEF SaveFile, Fatal
<1>4. ASSUME SaveFile(r(l), l.cost), tftpSend(AddressesOf(l.doc, config_choisie), v),
             UNCHANGED <<ghostVars, shown, str, config_choisie, derniere_date, next>>
      PROVE  Rest' /\ died' = died /\ refused' >= refused
  <2>1. AddressesOf(l.doc, config_choisie) \in Seq(Machines)
    BY <1>2, <1>3, <1>4, AddressesTypes
  <2> QED BY <1>4, <2>1, SendingTypes DEF Inv
<1> HIDE DEF r
<1> QED BY <1>1, <1>2, <1>4, Calling

(* An answer arrives. *)
LEMMA NetworkKeeps ==
    ASSUME Inv, Network
    PROVE  Inv'
<1>1. PICK m \in Machines : Deliver(m, Running)
  BY DEF Network
<1>2. UNCHANGED <<fileVars, masterVars, sendVars, ghostVars>>
  BY DEF Network
<1>3. DiscoveryTypeOK' /\ Sockets'
  BY <1>1, <1>2 DEF Inv, Rest, DiscoveryTypeOK, Sockets, Deliver, AnswerArrives, sendVars
<1>4. WindowsTypeOK' /\ Recording'
  BY <1>2, SameWindows DEF Inv, Rest
<1> QED BY <1>2, <1>3, <1>4, Quiet DEF Inv, Rest, WindowsTypeOK, sendVars, ghostVars
-----------------------------------------------------------------------------
(* The first file is undamaged if it has a root. *)
LEMMA StartsIntact ==
    ASSUME InitDocument.root
    PROVE  Intact(InitDocument)
<1> DEFINE cs == InitDocument.configs
<1>1. cs \in Seq(Config)
  BY FileAssumption DEF Document
<1>2. \A k \in DOMAIN cs : cs[k] \in Undamaged
  <2> TAKE k \in DOMAIN cs
  <2>1. cs[k] \in Config
    BY <1>1, Cutting
  <2>2. cs[k].date = k /\ cs[k].date # NoDate /\ cs[k].users \in Seq(WholeUser)
    <3>1. k \in Dates
      BY <1>1, FileAssumption DEF Dates
    <3> QED BY <3>1, FileAssumption DEF WholeUser
  <2> QED BY <2>1, <2>2 DEF Config, Undamaged
<1>3. cs \in Seq(Undamaged)
  <2> HIDE DEF cs
  <2> QED BY <1>1, <1>2
<1> QED BY <1>3, FileAssumption DEF Intact

(* Its configurations, and what is noted of them. *)
LEMMA FirstNotes ==
    /\ At(InitDocument, NoDate) = {}
    /\ \A d \in Dates : AddressesOf(InitDocument, d) \in Seq(Machines)
<1>0. InitDocument \in Document
  BY FileAssumption
<1>1. CASE InitDocument.root
  <2>1. Intact(InitDocument)
    BY <1>1, StartsIntact
  <2>2. \A d \in Dates : recuperer_AdrIPXML(InitDocument, d) # Fatal
    BY <1>0, <2>1, Reading DEF Harmless, Fatal
  <2> QED BY <1>0, <2>1, <2>2, UndamagedDates, AddressesTypes
<1>2. CASE ~InitDocument.root
  <2>1. InitDocument.configs = <<>>
    BY <1>2, FileAssumption
  <2>2. \A d \in Dates \cup {NoDate} : At(InitDocument, d) = {}
    BY <2>1 DEF At
  <2>3. ASSUME NEW d \in Dates
        PROVE  recuperer_AdrIPXML(InitDocument, d) # Fatal
    <3>1. UsersOf(InitDocument, d) = <<>> /\ ~MeetsNull(InitDocument, d)
      BY <2>2 DEF UsersOf, Holds, MeetsNull
    <3>2. recuperer_AdrIPXML(InitDocument, d) = Saved(InitDocument)
      BY <3>1 DEF recuperer_AdrIPXML
    <3> QED BY <1>0, <3>2, SavedIs DEF Fatal
  <2> QED BY <1>0, <2>2, <2>3, AddressesTypes
<1> QED BY <1>1, <1>2

(* Inv holds in the beginning, *)
LEMMA Begins ==
    ASSUME Init
    PROVE  Inv
<1>1. FileInv
  BY StartsIntact, FileAssumption DEF Init, FileInit, FileInv, FileTypeOK
<1>2. DiscoveryTypeOK /\ Sockets
  BY DiscoveryAssumption, WindowsAssumption
     DEF Init, DiscoveryInit, DiscoveryTypeOK, Sockets
<1>3. WindowsTypeOK
  <2>1. str \in Seq(Dates)
    <3>1. InitDocument \in Document /\ At(InitDocument, NoDate) = {}
      BY FirstNotes, FileAssumption
    <3> QED BY <3>1, DatesTypes DEF Init
  <2>2. noted \in [Dates -> Seq(Machines)]
    BY FirstNotes DEF Init
  <2>3. clock \in 0 .. MaxDate
    <3>1. Len(InitDocument.configs) \in Nat
      BY FileAssumption DEF Document
    <3> QED BY <3>1, FileAssumption DEF Init
  <2>4. /\ phase \in Phases /\ shown \in BOOLEAN /\ config_choisie \in Choice
        /\ next \in Nat /\ told \in Messages /\ served \in SUBSET Machines
    BY DEF Init, Phases, Messages, Choice
  <2>5. derniere_date \in 0 .. MaxDate /\ refused \in 0 .. MaxRefused
    BY FileAssumption, WindowsAssumption DEF Init
  <2>6. addresses \in Seq(Machines) /\ agreed \in Seq(Machines) /\ died \in BOOLEAN
    <3>1. addresses = <<>> /\ agreed = <<>> /\ died \in BOOLEAN
      BY DEF Init
    <3>2. <<>> \in Seq(Machines)
      OBVIOUS
    <3> QED BY <3>1, <3>2
  <2>7. holds \in [Machines -> SUBSET Videos]
    BY DEF Init
  <2> QED BY <2>1, <2>2, <2>3, <2>4, <2>5, <2>6, <2>7 DEF WindowsTypeOK
<1>4. Recording /\ Living
  BY DEF Init, Recording, Living, DiesOnlyDamaged
<1> QED BY <1>1, <1>2, <1>3, <1>4 DEF Inv, Rest

(* every step keeps it, *)
LEMMA StepKeeps ==
    ASSUME Inv, [Next]_vars
    PROVE  Inv'
<1>1. CASE UNCHANGED vars
  BY <1>1, Stuttering
<1>2. CASE Start \/ Quit \/ OnConfigReseau \/ OnClose
  BY <1>2, StartKeeps, QuitKeeps, ShowKeeps
<1>3. CASE OnBtnClicked
  BY <1>3, OKKeeps, ConsulterKeeps, EffacerKeeps, EffacerToutKeeps, RechercherKeeps
     DEF OnBtnClicked
<1>4. CASE OnSend
  BY <1>4, MessageKeeps, SendToFoundKeeps, SendToStoredKeeps DEF OnSend
<1>5. CASE Search
  BY <1>5, ListeningKeeps, ScanKeeps, AskAgainKeeps, ShowFoundKeeps DEF Search
<1>6. CASE Answer
  BY <1>6, ShowFoundKeeps, TakeDateKeeps, UseKeeps, MessageKeeps DEF Answer
<1>7. CASE Record
  BY <1>7, CreateKeeps, RecordKeeps, RecordedKeeps DEF Record
<1>8. CASE Network
  BY <1>8, NetworkKeeps
<1> QED BY <1>1, <1>2, <1>3, <1>4, <1>5, <1>6, <1>7, <1>8 DEF Next

(* so it always holds. *)
LEMMA Invariance == Spec => []Inv
<1>1. Init => Inv
  BY Begins
<1>2. Inv /\ [Next]_vars => Inv'
  BY StepKeeps
<1> QED BY <1>1, <1>2, PTL DEF Spec

(***************************************************************************)
(* Type correctness. The addresses tftpSend is given, the dates in the     *)
(* list box and those a configuration is saved under are always such,      *)
(* although they come from a file that a crash may have cut anywhere.      *)
(***************************************************************************)
THEOREM MasterTypeCorrect == Spec => []TypeOK
<1>1. Inv => TypeOK
  BY DEF Inv, FileInv, Rest, TypeOK
<1> QED BY <1>1, Invariance, PTL

(***************************************************************************)
(* The sockets of UDPReseauMaster outlive the first transfer that a server *)
(* refuses, although errorReceived calls the destructor (and with it       *)
(* WSACleanup) once too often.                                             *)
(***************************************************************************)
THEOREM SocketsLast == Spec => []SocketsSurvive
<1>1. Inv => SocketsSurvive
  BY WindowsAssumption
     DEF Inv, Rest, Sockets, SocketsSurvive, DiscoveryTypeOK, WindowsTypeOK
<1> QED BY <1>1, Invariance, PTL

(***************************************************************************)
(* As long as no call of fopen has failed, no crash has happened and fewer *)
(* than two transfers were refused, no sequence of clicks and answers ends *)
(* the process by a NULL pointer, if the file had a root element in the    *)
(* beginning.                                                              *)
(***************************************************************************)
THEOREM DiesOfDamageOnly == InitDocument.root => (Spec => []DiesOnlyDamaged)
<1> SUFFICES ASSUME InitDocument.root
             PROVE  Spec => []DiesOnlyDamaged
  OBVIOUS
<1>1. Inv => DiesOnlyDamaged
  BY DEF Inv, Living
<1> QED BY <1>1, Invariance, PTL
-----------------------------------------------------------------------------
(***************************************************************************)
(* The list box of FenetreConfigReseau and ConfigReseau.xml are changed by *)
(* different code, each in its own order; as long as nothing fails they    *)
(* agree.                                                                  *)
(***************************************************************************)

(* What the attribute date of the Config elements is, in their order. *)
AnyDate == Dates \cup {NoDate}
DatesIn(cs) == [k \in DOMAIN cs |-> cs[k].date]

(* It is a sequence, element by element, *)
LEMMA DatesInIs ==
    ASSUME NEW cs \in Seq(Config)
    PROVE  /\ DatesIn(cs) \in Seq(AnyDate)
           /\ Len(DatesIn(cs)) = Len(cs)
           /\ DOMAIN DatesIn(cs) = DOMAIN cs
           /\ \A k \in DOMAIN cs : DatesIn(cs)[k] = cs[k].date
<1>1. \A k \in DOMAIN cs : cs[k].date \in AnyDate
  <2> TAKE k \in DOMAIN cs
  <2>1. cs[k] \in Config
    BY Cutting
  <2> QED BY <2>1 DEF Config, AnyDate
<1>2. DOMAIN cs = 1 .. Len(cs) /\ Len(cs) \in Nat
  OBVIOUS
<1> QED BY <1>1, <1>2 DEF DatesIn

(* and any sequence with these elements is it. *)
LEMMA DatesInSame ==
    ASSUME NEW cs \in Seq(Config), NEW ds \in Seq(AnyDate), Len(ds) = Len(cs),
           \A k \in 1 .. Len(cs) : ds[k] = cs[k].date
    PROVE  DatesIn(cs) = ds
<1>1. /\ DatesIn(cs) \in Seq(AnyDate) /\ Len(DatesIn(cs)) = Len(cs)
      /\ \A k \in 1 .. Len(cs) : DatesIn(cs)[k] = cs[k].date
  BY DatesInIs
<1> QED BY <1>1, SeqEqual

(* InsertEndChild. *)
LEMMA DatesAppended ==
    ASSUME NEW cs \in Seq(Config), NEW c \in Config
    PROVE  DatesIn(Append(cs, c)) = Append(DatesIn(cs), c.date)
<1> DEFINE ds == Append(DatesIn(cs), c.date)
<1>1. /\ DatesIn(cs) \in Seq(AnyDate) /\ Len(DatesIn(cs)) = Len(cs)
      /\ \A k \in 1 .. Len(cs) : DatesIn(cs)[k] = cs[k].date
  BY DatesInIs
<1>2. c.date \in AnyDate
  BY DEF Config, AnyDate
<1>3. Append(cs, c) \in Seq(Config) /\ ds \in Seq(AnyDate) /\ Len(ds) = Len(Append(cs, c))
  BY <1>1, <1>2
<1>4. \A k \in 1 .. Len(Append(cs, c)) : ds[k] = Append(cs, c)[k].date
  BY <1>1, <1>2
<1> HIDE DEF ds
<1>5. DatesIn(Append(cs, c)) = ds
  BY <1>3, <1>4, DatesInSame
<1> QED BY <1>5 DEF ds

(* RemoveChild. *)
LEMMA DatesWithout ==
    ASSUME NEW cs \in Seq(Config), NEW k \in DOMAIN cs
    PROVE  DatesIn(SubSeq(cs, 1, k - 1) \o SubSeq(cs, k + 1, Len(cs)))
             = SubSeq(DatesIn(cs), 1, k - 1) \o SubSeq(DatesIn(cs), k + 1, Len(DatesIn(cs)))
<1> DEFINE ds == DatesIn(cs)
           c1 == SubSeq(cs, 1, k - 1)
           c2 == SubSeq(cs, k + 1, Len(cs))
           d1 == SubSeq(ds, 1, k - 1)
           d2 == SubSeq(ds, k + 1, Len(ds))
<1>0. k \in 1 .. Len(cs) /\ Len(cs) \in Nat
  OBVIOUS
<1>1. /\ ds \in Seq(AnyDate) /\ Len(ds) = Len(cs)
      /\ \A j \in 1 .. Len(cs) : ds[j] = cs[j].date
  BY DatesInIs
<1> HIDE DEF ds
<1>2. /\ c1 \in Seq(Config) /\ Len(c1) = k - 1
      /\ \A j \in 1 .. k - 1 : c1[j] = cs[j]
      /\ c2 \in Seq(Config) /\ Len(c2) = Len(cs) - k
      /\ \A j \in 1 .. Len(cs) - k : c2[j] = cs[j + k]
  BY <1>0
<1>3. /\ d1 \in Seq(AnyDate) /\ Len(d1) = k - 1
      /\ \A j \in 1 .. k - 1 : d1[j] = ds[j]
      /\ d2 \in Seq(AnyDate) /\ Len(d2) = Len(cs) - k
      /\ \A j \in 1 .. Len(cs) - k : d2[j] = ds[j + k]
  BY <1>0, <1>1
<1> HIDE DEF c1, c2, d1, d2
<1>4. c1 \o c2 \in Seq(Config) /\ d1 \o d2 \in Seq(AnyDate) /\ Len(d1 \o d2) = Len(c1 \o c2)
  <2>1. c1 \o c2 \in Seq(Config) /\ Len(c1 \o c2) = Len(c1) + Len(c2)
    BY <1>2, ConcatProperties
  <2>2. d1 \o d2 \in Seq(AnyDate) /\ Len(d1 \o d2) = Len(d1) + Len(d2)
    BY <1>3, ConcatProperties
  <2> QED BY <1>2, <1>3, <2>1, <2>2
<1>5. ASSUME NEW j \in 1 .. Len(c1 \o c2)
      PROVE  (d1 \o d2)[j] = (c1 \o c2)[j].date
  <2>1. j \in 1 .. Len(cs) - 1 /\ Len(c1 \o c2) = Len(cs) - 1
    BY <1>0, <1>2
  <2>2. CASE j <= k - 1
    <3>1. (c1 \o c2)[j] = cs[j] /\ (d1 \o d2)[j] = ds[j]
      BY <1>0, <1>2, <1>3, <2>1, <2>2
    <3> QED BY <1>0, <1>1, <2>1, <3>1
  <2>3. CASE j > k - 1
    <3> DEFINE i == j - (k - 1)
    <3>1. i \in 1 .. Len(cs) - k /\ i + k = j + 1 /\ j + 1 \in 1 .. Len(cs)
      BY <1>0, <2>1, <2>3
    <3>2. (c1 \o c2)[j] = c2[i] /\ (d1 \o d2)[j] = d2[i]
      BY <1>0, <1>2, <1>3, <2>1, <2>3
    <3> HIDE DEF i
    <3>3. c2[i] = cs[i + k] /\ d2[i] = ds[i + k]
      BY <1>2, <1>3, <3>1
    <3>4. ds[i + k] = cs[i + k].date
      BY <1>1, <3>1
    <3> QED BY <3>2, <3>3, <3>4
  <2>4. j <= k - 1 \/ j > k - 1
    BY <1>0, <2>1
  <2> QED BY <2>2, <2>3, <2>4
<1>6. DatesIn(c1 \o c2) = d1 \o d2
  BY <1>4, <1>5, DatesInSame
<1> QED BY <1>6 DEF c1, c2, d1, d2, ds

(* A change of the users. *)
LEMMA DatesKept ==
    ASSUME NEW cs \in Seq(Config), NEW k \in DOMAIN cs, NEW c \in Config, c.date = cs[k].date
    PROVE  DatesIn([cs EXCEPT ![k] = c]) = DatesIn(cs)
<1> DEFINE e == [cs EXCEPT ![k] = c]
<1>1. /\ e \in Seq(Config) /\ Len(e) = Len(cs)
      /\ \A j \in 1 .. Len(cs) : e[j] = IF j = k THEN c ELSE cs[j]
  BY ExceptSeq
<1>2. /\ DatesIn(cs) \in Seq(AnyDate) /\ Len(DatesIn(cs)) = Len(cs)
      /\ \A j \in 1 .. Len(cs) : DatesIn(cs)[j] = cs[j].date
  BY DatesInIs
<1> HIDE DEF e
<1>3. \A j \in 1 .. Len(e) : DatesIn(cs)[j] = e[j].date
  BY <1>1, <1>2
<1>4. DatesIn(e) = DatesIn(cs)
  BY <1>1, <1>2, <1>3, DatesInSame
<1> QED BY <1>4 DEF e
-----------------------------------------------------------------------------
(* ListMatchesFile, strengthened: while a configuration is being recorded the file is one
   date ahead of the list box. *)
Listed ==
    faults = 0 /\ phase # "down" =>
        IF phase = "recording" THEN DatesOf(file) = Append(str, derniere_date)
                               ELSE str = DatesOf(file)

(* The list box of a document. *)
LEMMA DatesOfIs == \A d : DatesOf(d) = DatesIn(d.configs)
  BY DEF DatesOf, DatesIn

(* Saving keeps the dates. *)
LEMMA SavedDates ==
    ASSUME NEW d \in Document
    PROVE  DatesOf(Saved(d).doc) = DatesOf(d)
  BY SavedIs, DatesOfIs

(* A load and a save that do not fail: the method worked on the file, and wrote it. *)
LEMMA Unfailing ==
    ASSUME FileInv, NEW l \in Loads, NEW r, SaveFile(r, l.cost), faults' = 0
    PROVE  /\ faults = 0 /\ l.doc = file
           /\ \/ r.ends = "unsaved" /\ file' = file
              \/ r.ends = "saved" /\ file' = r.doc
<1>1. faults \in Nat /\ ((l.doc = file /\ l.cost = 0) \/ l.cost = 1)
  BY LoadsTypes, FileAssumption DEF FileInv, FileTypeOK
<1> QED BY <1>1 DEF SaveFile, Spend

(* A handler that calls a method on the file, or in which the process ends. *)
LEMMA ListedCalling ==
    ASSUME FileInv, NEW l \in Loads, NEW r,
           \/ SaveFile(r, l.cost) /\ (faults' = 0 => Listed')
           \/ InterruptedSave(r, l.cost) /\ Ends(FALSE)
           \/ NullDereference(r, l.cost) /\ Ends(TRUE)
    PROVE  Listed'
<1>1. CASE SaveFile(r, l.cost) /\ (faults' = 0 => Listed')
  BY <1>1 DEF Listed
<1>2. CASE Ends(FALSE) \/ Ends(TRUE)
  BY <1>2 DEF Listed, Ends
<1> QED BY <1>1, <1>2

(* Handlers that touch neither the file nor the list box. *)
LEMMA ListedSame ==
    ASSUME Listed, UNCHANGED <<file, faults, str>>,
           phase = "down" => phase' = "down",
           phase = "recording" <=> phase' = "recording",
           phase = "recording" => derniere_date' = derniere_date
    PROVE  Listed'
  BY DEF Listed, DatesOf

(* Handlers whose method keeps the dates. *)
LEMMA ListedReading ==
    ASSUME Listed, FileInv, NEW l \in Loads, NEW r,
           str' = str, derniere_date' = derniere_date, phase # "down",
           phase = "recording" <=> phase' = "recording",
           SaveFile(r, l.cost),
           r.ends = "saved" => DatesOf(r.doc) = DatesOf(l.doc)
    PROVE  faults' = 0 => Listed'
<1> SUFFICES ASSUME faults' = 0
             PROVE  Listed'
  OBVIOUS
<1>1. faults = 0 /\ DatesOf(file') = DatesOf(file)
  BY Unfailing
<1> QED BY <1>1 DEF Listed, DatesOf
-----------------------------------------------------------------------------
(* Reading a configuration writes the file, with the same dates. *)
LEMMA ReadingDates ==
    ASSUME NEW d \in Document, NEW date, NEW r,
           r = getUneConfigEnregistree(d, date) \/ r = recuperer_AdrIPXML(d, date),
           r.ends = "saved"
    PROVE  DatesOf(r.doc) = DatesOf(d)
<1>1. r = Saved(d) \/ r = Fatal
  BY DEF getUneConfigEnregistree, recuperer_AdrIPXML
<1>2. Fatal.ends # "saved"
  BY DEF Fatal
<1> QED BY <1>1, <1>2, SavedDates

(* The list box is filled from the file. *)
LEMMA ListedStart ==
    ASSUME Inv, Listed, Start
    PROVE  Listed'
<1>1. PICK l \in Loads :
          /\ Spend(l.cost)
          /\ file' = file
          /\ IF At(l.doc, NoDate) # {}
             THEN died' = TRUE /\ UNCHANGED <<phase, str>>
             ELSE died' = FALSE /\ phase' = "idle" /\ str' = DatesOf(l.doc)
  BY DEF Start
<1>2. phase = "down" /\ faults \in Nat /\ ((l.doc = file /\ l.cost = 0) \/ l.cost = 1)
  BY LoadsTypes, FileAssumption DEF Start, Inv, FileInv, FileTypeOK
<1>3. CASE phase' = "idle" /\ str' = DatesOf(l.doc)
  <2>1. faults' = 0 => l.doc = file
    BY <1>1, <1>2 DEF Spend
  <2> QED BY <1>1, <1>3, <2>1 DEF Listed, DatesOf
<1>4. CASE phase' = phase
  BY <1>2, <1>4 DEF Listed
<1> QED BY <1>1, <1>3, <1>4

(* OnBtnOKClicked, OnBtnConsulterClicked. *)
LEMMA ListedReads ==
    ASSUME Inv, Listed, NEW date \in Dates, OnBtnOKClicked(date) \/ OnBtnConsulterClicked(date)
    PROVE  Listed'
<1> DEFINE r(l) == getUneConfigEnregistree(l.doc, date)
<1>1. PICK l \in Loads :
          \/ SaveFile(r(l), l.cost) /\ UNCHANGED <<phase, str, derniere_date>>
          \/ InterruptedSave(r(l), l.cost) /\ Ends(FALSE)
          \/ NullDereference(r(l), l.cost) /\ Ends(TRUE)
  BY DEF OnBtnOKClicked, OnBtnConsulterClicked, Call, masterVars
<1>2. phase = "idle" /\ l.doc \in Document /\ FileInv
  BY LoadsTypes DEF OnBtnOKClicked, OnBtnConsulterClicked, Selects, Inv
<1>3. r(l).ends = "saved" => DatesOf(r(l).doc) = DatesOf(l.doc)
  BY <1>2, ReadingDates
<1> HIDE DEF r
<1>4. SaveFile(r(l), l.cost) /\ UNCHANGED <<phase, str, derniere_date>> => (faults' = 0 => Listed')
  BY <1>2, <1>3, ListedReading
<1> QED BY <1>1, <1>2, <1>4, ListedCalling

(* OnSend to a configuration of the file. *)
LEMMA ListedSends ==
    ASSUME Inv, Listed, NEW v \in Videos, SendToStored(v)
    PROVE  Listed'
<1> DEFINE r(l) == recuperer_AdrIPXML(l.doc, config_choisie)
<1>1. PICK l \in Loads :
          \/ SaveFile(r(l), l.cost) /\ phase' = "told" /\ UNCHANGED <<str, derniere_date>>
          \/ InterruptedSave(r(l), l.cost) /\ Ends(FALSE)
          \/ NullDereference(r(l), l.cost) /\ Ends(TRUE)
  BY DEF SendToStored, Call, tftpSend
<1>2. phase = "idle" /\ l.doc \in Document /\ FileInv
  BY LoadsTypes DEF SendToStored, Inv
<1>3. r(l).ends = "saved" => DatesOf(r(l).doc) = DatesOf(l.doc)
  BY <1>2, ReadingDates
<1> HIDE DEF r
<1>4. SaveFile(r(l), l.cost) /\ phase' = "told" /\ UNCHANGED <<str, derniere_date>>
        => (faults' = 0 => Listed')
  BY <1>2, <1>3, ListedReading
<1> QED BY <1>1, <1>2, <1>4, ListedCalling

(* effacerUneConfigEnregistree and str.Remove take the same place: both the first with the
   date. *)
LEMMA ErasedDates ==
    ASSUME NEW d \in Document, NEW date, Holds(d, date),
           NEW r, r = effacerUneConfigEnregistree(d, date), r.ends = "saved"
    PROVE  DatesOf(r.doc) = Removed(DatesOf(d), date)
<1> DEFINE cs == d.configs
           k == First(At(d, date))
           left == SubSeq(cs, 1, k - 1) \o SubSeq(cs, k + 1, Len(cs))
           e == [d EXCEPT !.configs = SubSeq(@, 1, k - 1) \o SubSeq(@, k + 1, Len(@))]
<1>1. k \in DOMAIN cs /\ cs \in Seq(Config)
  BY PlaceOf DEF Document
<1>2. r = Saved(e)
  BY DEF effacerUneConfigEnregistree, Fatal
<1>3. e \in Document /\ e.configs = left
  <2>1. left \in Seq(Config)
    BY <1>1, Cutting
  <2> HIDE DEF k
  <2> QED BY <2>1 DEF Document
<1>4. DatesOf(r.doc) = DatesIn(left)
  <2> HIDE DEF e, left
  <2> QED BY <1>2, <1>3, SavedDates, DatesOfIs
<1>5. DatesOf(d) = DatesIn(cs)
  BY DatesOfIs
<1>6. At(d, date) = {j \in DOMAIN DatesIn(cs) : DatesIn(cs)[j] = date}
  BY <1>1, DatesInIs DEF At
<1>7. Removed(DatesIn(cs), date)
        = SubSeq(DatesIn(cs), 1, k - 1) \o SubSeq(DatesIn(cs), k + 1, Len(DatesIn(cs)))
  BY <1>6 DEF Removed
<1> HIDE DEF k
<1>8. DatesIn(left) = Removed(DatesIn(cs), date)
  BY <1>1, <1>7, DatesWithout
<1> QED BY <1>4, <1>5, <1>8

(* OnBtnEffacerClicked: what is in the list box is in the file, so the method does find it. *)
LEMMA ListedErases ==
    ASSUME Inv, Listed, NEW date \in Dates, OnBtnEffacerClicked(date)
    PROVE  Listed'
<1> DEFINE r(l) == effacerUneConfigEnregistree(l.doc, date)
<1>1. PICK l \in Loads :
          \/ SaveFile(r(l), l.cost) /\ str' = Removed(str, date) /\ phase' = phase
          \/ InterruptedSave(r(l), l.cost) /\ Ends(FALSE)
          \/ NullDereference(r(l), l.cost) /\ Ends(TRUE)
  BY DEF OnBtnEffacerClicked, Call
<1>2. phase = "idle" /\ FileInv /\ file \in Document /\ \E k \in DOMAIN str : str[k] = date
  BY DEF OnBtnEffacerClicked, Selects, Inv, FileInv, FileTypeOK
<1>3. ASSUME SaveFile(r(l), l.cost), str' = Removed(str, date), phase' = phase, faults' = 0
      PROVE  Listed'
  <2>1. faults = 0 /\ l.doc = file
    BY <1>2, <1>3, Unfailing
  <2>2. \/ r(l).ends = "unsaved" /\ file' = file
        \/ r(l).ends = "saved" /\ file' = r(l).doc
    <3> HIDE DEF r
    <3> QED BY <1>2, <1>3, Unfailing
  <2>3. str = DatesOf(file)
    BY <1>2, <2>1 DEF Listed
  <2>4. Holds(file, date)
    BY <1>2, <2>3 DEF DatesOf, At, Holds
  <2>5. r(l).ends # "unsaved"
    BY <2>1, <2>4 DEF effacerUneConfigEnregistree, Fatal, Saved
  <2>6. DatesOf(file') = Removed(str, date)
    BY <1>2, <2>1, <2>2, <2>3, <2>4, <2>5, ErasedDates
  <2> QED BY <1>2, <1>3, <2>6 DEF Listed, DatesOf
<1> HIDE DEF r
<1> QED BY <1>1, <1>2, <1>3, ListedCalling

(* OnBtnEffacerToutClicked. *)
LEMMA ListedErasesAll ==
    ASSUME Inv, Listed, OnBtnEffacerToutClicked
    PROVE  Listed'
<1> DEFINE r(l) == effacerToutesLesConfig(l.doc)
<1>1. PICK l \in Loads :
          \/ SaveFile(r(l), l.cost) /\ str' = <<>> /\ phase' = phase
          \/ InterruptedSave(r(l), l.cost) /\ Ends(FALSE)
          \/ NullDereference(r(l), l.cost) /\ Ends(TRUE)
  BY DEF OnBtnEffacerToutClicked, Call
<1>2. phase = "idle" /\ FileInv
  BY DEF OnBtnEffacerToutClicked, Inv
<1>3. ASSUME SaveFile(r(l), l.cost), str' = <<>>, phase' = phase, faults' = 0
      PROVE  Listed'
  <2>1. BlankDocument \in Document /\ BlankDocument.configs = <<>>
    BY DEF BlankDocument, Document
  <2>2. r(l).ends = "saved" /\ r(l).doc.configs = <<>>
    BY <2>1, SavedIs DEF effacerToutesLesConfig
  <2> HIDE DEF r
  <2>3. file' = r(l).doc
    BY <1>2, <1>3, <2>2, Unfailing
  <2>4. DatesOf(file') = <<>>
    BY <2>2, <2>3 DEF DatesOf
  <2> QED BY <1>2, <1>3, <2>4 DEF Listed, DatesOf
<1> HIDE DEF r
<1> QED BY <1>1, <1>2, <1>3, ListedCalling

(* creerConfig puts the date at the end. *)
LEMMA CreatedDates ==
    ASSUME NEW d \in Document, NEW date \in Dates,
           NEW r, r = creerConfig(d, date), r.ends # "dies"
    PROVE  r.ends = "saved" /\ DatesOf(r.doc) = Append(DatesOf(d), date)
<1> DEFINE c == [date |-> date, users |-> <<>>]
           e == [d EXCEPT !.configs = Append(@, c)]
<1>1. c \in Config /\ c.date = date
  BY DEF Config
<1>2. r = Saved(e)
  BY DEF creerConfig, Fatal
<1> HIDE DEF c
<1>3. e \in Document /\ e.configs = Append(d.configs, c) /\ d.configs \in Seq(Config)
  BY <1>1 DEF Document
<1> HIDE DEF e
<1>4. r.ends = "saved" /\ DatesOf(r.doc) = DatesIn(Append(d.configs, c))
  BY <1>2, <1>3, SavedIs, SavedDates, DatesOfIs
<1> QED BY <1>1, <1>3, <1>4, DatesAppended, DatesOfIs

(* CreateConfig: the list box comes later, in Recorded. *)
LEMMA ListedCreates ==
    ASSUME Inv, Listed, CreateConfig
    PROVE  Listed'
<1> DEFINE r(l) == creerConfig(l.doc, derniere_date)
<1>1. PICK l \in Loads :
          \/ SaveFile(r(l), l.cost) /\ phase' = "recording" /\ UNCHANGED <<str, derniere_date>>
          \/ InterruptedSave(r(l), l.cost) /\ Ends(FALSE)
          \/ NullDereference(r(l), l.cost) /\ Ends(TRUE)
  BY DEF CreateConfig, Call
<1>2. phase = "dating" /\ FileInv /\ file \in Document /\ derniere_date \in Dates
  BY DEF CreateConfig, Inv, FileInv, FileTypeOK, Rest, Recording
<1>3. ASSUME SaveFile(r(l), l.cost), phase' = "recording", UNCHANGED <<str, derniere_date>>,
             faults' = 0
      PROVE  Listed'
  <2>1. faults = 0 /\ l.doc = file
    BY <1>2, <1>3, Unfailing
  <2>2. r(l).ends \in {"saved", "unsaved"} /\ (r(l).ends = "saved" => file' = r(l).doc)
    <3> HIDE DEF r
    <3> QED BY <1>2, <1>3, Unfailing
  <2>3. r(l).ends = "saved" /\ DatesOf(r(l).doc) = Append(DatesOf(file), derniere_date)
    BY <1>2, <2>1, <2>2, CreatedDates
  <2> QED BY <1>2, <1>3, <2>1, <2>2, <2>3 DEF Listed, DatesOf
<1> HIDE DEF r
<1> QED BY <1>1, <1>2, <1>3, ListedCalling

(* A user more changes no date. *)
LEMMA AddedDates ==
    ASSUME NEW d \in Document, NEW date, NEW m \in Machines,
           NEW r, r = ajouterUser(d, date, m), r.ends = "saved"
    PROVE  DatesOf(r.doc) = DatesOf(d)
<1> DEFINE k == First(At(d, date))
           c == [d.configs[k] EXCEPT !.users = Append(@, FullUser(m))]
           e == [d EXCEPT !.configs[k].users = Append(@, FullUser(m))]
<1>1. r = Saved(e) /\ Holds(d, date)
  BY DEF ajouterUser, Fatal, Unsaved
<1>2. k \in DOMAIN d.configs /\ d.configs \in Seq(Config)
  BY <1>1, PlaceOf DEF Document
<1> HIDE DEF k
<1>3. d.configs[k] \in Config
  BY <1>2, Cutting
<1>4. c \in Config /\ c.date = d.configs[k].date
  <2>1. c \in Config
    BY <1>3, OneMore
  <2> QED BY <1>3, <2>1 DEF Config
<1>5. e = [d EXCEPT !.configs = [d.configs EXCEPT ![k] = c]]
  BY <1>2 DEF Document
<1> HIDE DEF c, e
<1>6. [d.configs EXCEPT ![k] = c] \in Seq(Config)
  BY <1>2, <1>4, Cutting
<1>7. e \in Document /\ e.configs = [d.configs EXCEPT ![k] = c]
  BY <1>5, <1>6 DEF Document
<1>8. DatesOf(r.doc) = DatesIn([d.configs EXCEPT ![k] = c])
  BY <1>1, <1>7, SavedDates, DatesOfIs
<1> QED BY <1>2, <1>4, <1>8, DatesKept, DatesOfIs

(* RecordUser. *)
LEMMA ListedRecords ==
    ASSUME Inv, Listed, RecordUser
    PROVE  Listed'
<1> DEFINE r(l) == ajouterUser(l.doc, derniere_date, config[next])
<1>1. PICK l \in Loads :
          \/ SaveFile(r(l), l.cost) /\ UNCHANGED <<phase, str, derniere_date>>
          \/ InterruptedSave(r(l), l.cost) /\ Ends(FALSE)
          \/ NullDereference(r(l), l.cost) /\ Ends(TRUE)
  BY DEF RecordUser, Call
<1>2. phase = "recording" /\ l.doc \in Document /\ FileInv
  BY LoadsTypes DEF RecordUser, Inv
<1>3. config[next] \in Machines
  BY DEF Inv, Rest, WindowsTypeOK, DiscoveryTypeOK, Recording, RecordUser
<1>4. r(l).ends = "saved" => DatesOf(r(l).doc) = DatesOf(l.doc)
  BY <1>2, <1>3, AddedDates
<1> HIDE DEF r
<1>5. SaveFile(r(l), l.cost) /\ UNCHANGED <<phase, str, derniere_date>> => (faults' = 0 => Listed')
  BY <1>2, <1>4, ListedReading
<1> QED BY <1>1, <1>2, <1>5, ListedCalling

(* Recorded: str.Add. *)
LEMMA ListedRecorded ==
    ASSUME Listed, Recorded
    PROVE  Listed'
<1>1. /\ phase = "recording" /\ phase' = "use" /\ str' = Append(str, derniere_date)
      /\ UNCHANGED <<file, faults>>
  BY DEF Recorded, fileVars
<1> QED BY <1>1 DEF Listed, DatesOf
-----------------------------------------------------------------------------
(* All steps. *)
LEMMA ListedStep ==
    ASSUME Inv, Listed, [Next]_vars
    PROVE  Listed'
<1>1. CASE UNCHANGED vars
  BY <1>1 DEF vars, fileVars, masterVars, Listed, DatesOf
<1>2. CASE Start \/ Quit
  <2>1. Quit => phase' = "down"
    BY DEF Quit, Ends
  <2> QED BY <1>2, <2>1, ListedStart DEF Listed
<1>3. CASE OnConfigReseau \/ OnClose
  BY <1>3, ListedSame DEF OnConfigReseau, OnClose, fileVars
<1>4. CASE OnBtnClicked
  <2>1. ASSUME NEW reached \in SUBSET Asked, OnBtnRechercherClicked(reached)
        PROVE  Listed'
    BY <2>1, ListedSame DEF OnBtnRechercherClicked, fileVars
  <2> QED BY <1>4, <2>1, ListedReads, ListedErases, ListedErasesAll DEF OnBtnClicked
<1>5. CASE OnSend
  <2>1. ASSUME NEW named \in BOOLEAN, NEW picked \in BOOLEAN, NothingToSend(named, picked)
        PROVE  Listed'
    BY <2>1, ListedSame DEF NothingToSend, fileVars
  <2>2. ASSUME NEW v \in Videos, SendToFound(v)
        PROVE  Listed'
    BY <2>2, ListedSame DEF SendToFound, tftpSend, fileVars
  <2> QED BY <1>5, <2>1, <2>2, ListedSends DEF OnSend
<1>6. CASE Search
  <2>1. ecouter => Listed'
    BY ListedSame DEF ecouter, fileVars, masterVars
  <2>2. ScanLeavesBuffer => Listed'
    BY DEF ScanLeavesBuffer, Ends, Listed
  <2>3. ASSUME NEW reached \in SUBSET Asked, AskAgain(reached)
        PROVE  Listed'
    BY <2>3, ListedSame DEF AskAgain, fileVars
  <2>4. ShowFound => Listed'
    BY ListedSame DEF ShowFound, fileVars
  <2> QED BY <1>6, <2>1, <2>2, <2>3, <2>4 DEF Search
<1>7. CASE Answer
  <2>1. DoNotSave \/ CannotSave => Listed'
    BY ListedSame DEF DoNotSave, CannotSave, Unrecorded, fileVars
  <2>2. TakeDate => Listed'
    BY ListedSame DEF TakeDate, fileVars
  <2>3. UseFound \/ DoNotUse => Listed'
    BY ListedSame DEF UseFound, DoNotUse, fileVars
  <2>4. MessageRead => Listed'
    BY ListedSame DEF MessageRead, fileVars
  <2> QED BY <1>7, <2>1, <2>2, <2>3, <2>4 DEF Answer
<1>8. CASE Record
  BY <1>8, ListedCreates, ListedRecords, ListedRecorded DEF Record
<1>9. CASE Network
  BY <1>9, ListedSame DEF Network, fileVars, masterVars
<1> QED BY <1>1, <1>2, <1>3, <1>4, <1>5, <1>6, <1>7, <1>8, <1>9 DEF Next

(***************************************************************************)
(* Between two operations, and without a fault, the list box shows the     *)
(* dates of the configurations in the file, in the same order, after any   *)
(* sequence of searches, savings, deletions, sends and restarts.           *)
(***************************************************************************)
THEOREM ListIsFile == Spec => []ListMatchesFile
<1>1. Init => Inv /\ Listed
  BY Begins DEF Init, FileInit, Listed
<1>2. Inv /\ Listed /\ [Next]_vars => (Inv /\ Listed)'
  BY StepKeeps, ListedStep
<1>3. Listed => ListMatchesFile
  BY DEF Listed, ListMatchesFile, Settled
<1> QED BY <1>1, <1>2, <1>3, PTL DEF Spec
=============================================================================

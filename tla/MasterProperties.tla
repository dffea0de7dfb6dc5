--------------------------- MODULE MasterProperties ---------------------------
(***************************************************************************)
(* What the master should guarantee to its user.                           *)
(***************************************************************************)
EXTENDS MasterWindows

\* s is t without some of its elements.
SomeOf(s, t) ==
    \E f \in [DOMAIN s -> DOMAIN t] :
        /\ \A i, j \in DOMAIN s : i < j => f[i] < f[j]
        /\ \A i \in DOMAIN s : s[i] = t[f[i]]

\* Between two operations on the configurations.
Settled == phase \notin {"down", "dating", "recording"}

BeingRecorded(c) == phase = "recording" /\ c.date = derniere_date

AddressesIn(us) == [k \in DOMAIN us |-> us[k].ip]

\* The users whose address is known are some of the machines t, in their order.
SomeKnown(us, t) ==
    LET known == {k \in DOMAIN us : us[k].ip # NoAddress}
    IN  \E f \in [known -> DOMAIN t] :
            /\ \A i, j \in known : i < j => f[i] < f[j]
            /\ \A i \in known : us[i].ip = t[f[i]]

(***************************************************************************)
(* As long as nothing fails, the list box of the configuration window is   *)
(* what the file holds, in the same order, although each handler changes   *)
(* the two separately (str.Add, str.Remove, str.clear against SaveFile).   *)
(***************************************************************************)
ListMatchesFile == faults = 0 /\ Settled => str = DatesOf(file)

(***************************************************************************)
(* A configuration in the file is what the search found when it was        *)
(* recorded: after faults some of its machines, in their order, without any*)
(* fault all of them, except while enregistrerConfigPresente, which saves  *)
(* once per user, is busy.                                                 *)
(***************************************************************************)
SavedAsFound ==
    \A k \in DOMAIN file.configs :
        LET c == file.configs[k] IN
        c.date # NoDate =>
            /\ SomeKnown(c.users, noted[c.date])
            /\ faults = 0 /\ ~BeingRecorded(c) => AddressesIn(c.users) = noted[c.date]

(***************************************************************************)
(* No configuration with a machine that has not said how many videos it    *)
(* can show is ever in the file, nor, without a fault, one with no machine *)
(* (the two refusals of enregistrerConfigPresente).                        *)
(***************************************************************************)
UsableOnly ==
    \A k \in DOMAIN file.configs :
        LET c == file.configs[k] IN
        /\ \A j \in DOMAIN c.users : c.users[j].ip \notin Incomplete
        /\ faults = 0 /\ ~BeingRecorded(c) => c.users # <<>>

(***************************************************************************)
(* OnSend uses no address but those of the machines the user has agreed to,*)
(* in their order, although the list and the file may have changed between *)
(* the choice and the send (config_choisie names them, it does not hold    *)
(* them).  Without a fault it uses all of them, or none when what was      *)
(* chosen is gone.                                                         *)
(***************************************************************************)
SentToAgreed ==
    /\ SomeOf(addresses, agreed)
    /\ faults = 0 /\ addresses # <<>> => addresses = agreed

(***************************************************************************)
(* "Envoie Terminer !" is shown when every machine of the configuration has*)
(* got the video.                                                          *)
(***************************************************************************)
DoneMeansSent ==
    told = "Envoie Terminer !" => \A k \in DOMAIN agreed : agreed[k] \in served

(***************************************************************************)
(* No sequence of clicks and answers makes the program follow a NULL       *)
(* pointer, as long as the file is intact and no second transfer has been  *)
(* refused.                                                                *)
(***************************************************************************)
DiesOnlyDamaged == died => faults > 0 \/ refused >= 2

(***************************************************************************)
(* The destructor that errorReceived calls undoes a WSAStartup that is not *)
(* its own; still the sockets of the search outlive one refused transfer,  *)
(* and any number of other ones.                                           *)
(***************************************************************************)
SocketsSurvive == Running /\ refused < 2 => open /\ winsock > 0

(***************************************************************************)
(* The timeout of ecouter (UDPReseauMaster.cpp, "Mise en place du TIMEOUT")*)
(* ends every search, and recording what was found ends too: the thread of *)
(* the windows comes back to its user.                                     *)
(***************************************************************************)
Occupied == phase \in {"first", "second", "dating", "recording"}
SearchEnds == Occupied ~> ~Occupied

\* What is left of it: as long as the sockets of the search are open.
SearchEndsIfOpen == Occupied /\ open ~> ~Occupied

(***************************************************************************)
(* The file is a ConfigBook: whatever is clicked and whatever fails, its   *)
(* configurations are only ever opened under new dates, the last one       *)
(* extended, and erased, or cut off in a fault.                            *)
(***************************************************************************)
EntryOf(c) == [date |-> c.date, users |-> AddressesIn(c.users)]
BookOf(d) == [k \in DOMAIN d.configs |-> EntryOf(d.configs[k])]

Book == INSTANCE ConfigBook
            WITH InitBook <- BookOf(InitDocument),
                 book <- BookOf(file),
                 clock <- IF phase = "dating" THEN clock - 1 ELSE clock
KeepsBook == Book!Spec
=============================================================================

# Verification of Affichage_Synchrone_Video

A *master* (a wxWidgets program) finds the machines that show videos, keeps
lists of them, and sends them a video file; each machine runs a *server* that
receives it. This directory models both halves in TLA+ - the transfer of a file,
and the master program with its search, its configurations and its XML library -
checks them with TLC and proves their main safety properties with TLAPS. Paths below are relative to the
repository (`src/`); S is `src/TFTP_serverV2/TFTP_serverV2/`, M is
`src/Master_Final/TFTP_clientV2/`.

## 1. Inventory

| Component | State | Operations | Talks to |
|---|---|---|---|
| TFTP packets (`tftp_packet.*`, the same files in S and M) | one buffer of 1024 bytes, read and write positions | createRRQ/WRQ/ACK/Data/Error, getNumber, copyData, recognisers | used by both ends |
| TFTP server (S`tftp_server.*`, S`TFTP_serverV2.cpp`) | `clients[10]`: connection, request, block counter, acknowledged, disconnect_on_ack, last packet, two stream pointers; the files of its directory | one thread, for ever: acceptClients, receiveFromClients, sendToClients; disconnectClient | clients, over TCP; the disk |
| TFTP client (M`tftp_client.*`) | socket, last_packet_no, timeout_count, last ACK, local file | connectToServer, sendFile, getFile, waitForPacketACK, errorReceived, destructor; tftpSend over a list of addresses | a server per address, over TCP |
| Master window (M`Fenetre_Master.cpp`) | the fields of the window, the list of addresses | OnSend, OnConfigReseau | client, configuration window |
| Configuration window (M`FenetreConfigReseau.cpp`) | `config_choisie` ("", "list" or a date), the list box | search, choose, consult, delete one, delete all | discovery, stored configurations |
| Discovery (M`UDPReseauMaster.cpp`, envoyer, ecouter) | list of users found, nb_User, a receive buffer | send a UDP question, collect answers until none comes for TIMEOUT seconds | machines on the network |
| Stored configurations (M`UDPReseauMaster.cpp`) | `ConfigReseau.xml` | save the present configuration, read one, delete one or all | TinyXML, the disk |
| File name check (M`Extension.cpp`) | none | verifierExtension | master window |
| TinyXML (M`tinyxml*`, M`tinystr*`) | a tree of nodes linked by five pointers each, a ring of attributes per element | parse and print, insert, replace, remove, copy; third party, copied in | stored configurations |

How they interact. A user searches (two rounds of question and answers),
possibly saves what was found, chooses a configuration, and presses *send*:
OnSend checks the file name, turns the choice into a list of addresses and
calls tftpSend. For an address it opens one TCP connection, sends a write
request, then DATA packets of 512 bytes, one per acknowledgement; a shorter one
is the last. The server loops over its slots without ever blocking: its
sockets, and on Windows those it accepts, are non-blocking.

What is hard here:

* *interleaving*: any number of masters, one server thread that visits its
  slots one by one; two masters may use one file name, a file may be fetched
  while it is being received;
* *time*: a client waits two seconds, then sendFile goes on as if it had been
  acknowledged, getFile repeats its last ACK once; answers may come after that; the limit is one of select, the
  client's send waits as long as the buffers are full;
* *the stream*: TCP keeps no packet boundaries and the code adds none;
* *the end of a connection*: the client closes without waiting for the last
  ACK, so the connection may be reset with data still on its way;
* *reuse*: slots of `clients` serve one connection after another and not every
  field is reset;
* *failure*: neither the disk nor a send is checked, undefined behaviour is
  possible on two paths, the process may die with clients connected;
* *numbers*: an `int` counter against a 16-bit block number, files whose size is a
  multiple of 512;
* *persistence* (master): ConfigReseau.xml is rewritten on every read and once
  per user when saving, without looking at the result; a load that fails leaves
  an empty document, which is then saved; a crash leaves any beginning of it;
* *two copies of one thing* (master): the list box and the file, the chosen
  configuration (a name) and what it names, the list of users found and the
  addresses a configuration was saved with;
* *the search*: answers may be lost or come after the round they belong to, the
  counter of users is never reset, errors of Winsock read like answers;
* *the library*: every operation on TinyXML's tree mends half a dozen pointers by
  hand.

What makes each part correct: packets keep what was put into them; slots and
connections match one to one and are given back; one writer per file, and a
stored file is never changed by anyone else; what is stored is a beginning of
what one master sent, all of it when the server says so; transfers end, and
both ends agree on the outcome; a saved configuration is complete or absent;
the addresses used are those of the configuration the user chose; each machine
found can be used; the file that is read is the one that was saved, or a beginning
of it; a search ends. `PROJECT.json` lists the hazards line by line.

## 2. Modules

| Module | Models |
|---|---|
| `TftpPacket` | `tftp_packet.cpp`: constructors, recognisers, block numbers modulo `WordMod`, copyData's limit, the blocks of a file |
| `TftpNet` | TCP as both ends use it through Winsock (external): bytes in flight, a client's send that waits for room, ends open, closed or aborted, resets, what one recv may return, the backlog, a server process that dies |
| `TftpServer` | `tftp_server.cpp`: the thread at one element of `clients`, one action per branch |
| `TftpClient` | `tftp_client.cpp`: connectToServer, sendFile, getFile, errorReceived, destructor |
| `TftpSystem` | the composition; when a wait may end; the specification and its fairness |
| `WriteOnceStore` | abstract: a directory where a free name is taken once and grows by blocks of one source; a block the disk cut short is its last |
| `TftpProperties` | what should hold, and the refinement mapping to `WriteOnceStore` |
| `TftpMC` | the instances TLC checks |
| `TftpProofs`, `StreamProofs`, `FetchProofs`, `PaceProofs` | theorems for every value of the constants: slots and writers; files sent to the server; files fetched from it; lock step |
| `ConfigFile` | ConfigReseau.xml as a document; every method of UDPReseauMaster and FenetreConfigReseau that loads, changes and saves it; failing fopen, a crash while saving |
| `Discovery` | envoyer, ecouter, the list of users, the sockets and the count of WSAStartup calls |
| `MasterWindows` | the master program: Fenetre_Master and FenetreConfigReseau over the two modules above, tftpSend, start and end of the process; the specification and its fairness |
| `ConfigBook` | abstract: a book of dated configurations that are opened, extended and erased; after a fault a beginning of it, of whose last entry the date or the last machine may be illegible |
| `MasterProperties` | what the master should guarantee, and the refinement mapping to `ConfigBook` |
| `MasterMC` | instances of it for TLC |
| `MasterProofs`, `SavedProofs` | theorems about it: types, sockets, damage and the list box; what is saved, used and sent; the refinement of `ConfigBook` |
| `FileName` | Extension::verifierExtension and the field it looks at, which starts with "..." and into which the user types |
| `XmlText` | TinyXML: EncodeString against ReadText and GetEntity, character by character |
| `XmlFile` | TinyXML: printing, parsing and finding elements; what every beginning of a text is read as |
| `XmlTree` | TinyXML: the nodes and their pointers, every operation of TiXmlNode on them |
| `XmlAttributes` | TinyXML: TiXmlAttributeSet, a ring through a sentinel |
| `XmlChildren` | abstract: each node has a sequence of children |
| `XmlProperties` | what the master relies on in all of these |
| `XmlMC` | an instance of it for TLC |
| `XmlProofs` | theorems about XmlTree and its refinement of XmlChildren, XmlAttributes, XmlText and FileName |
| `XmlFileProofs` | theorems about XmlFile: what a saved document, or a beginning of one, is read as |

Two families stand side by side: `TftpSystem` is the transfer in full, with any
number of masters; `MasterWindows` is one master in full, for which a server is
only what OnSend can tell of it. `ConfigFile` connects the master to TinyXML: it
works on documents, and the run `formats` shows that what it says of loading,
saving and a save cut short is what TinyXML does to the text.

### State and actions against the code

*Server.* `clients[i]` is the record ServerClient with the code's field names;
`name`, `pos` and `good` are the state of the stream its pointers refer to, and
the pointers themselves are only `wild` (never assigned), `live` or `freed`
(deleted, not reset). `phase` and `slot` say where the thread is. One step is one
element: its guard is the conditions of the branch, and every call the branch
makes (write the block, send the answer, disconnect) is in the step. Only
acceptClients makes two steps per element, accept and request. Masters act
between any two steps, which is all they can see: sockets are their only
contact with the server. Requests: ReadMissingFile, StartRead,
WriteExistingFile, StartWrite, RequestUnexpected. Transfers: AckExpected,
AckFinal, AckMismatch, ReadUnexpected; DataExpected, DataFinal, DataMismatch,
WriteUnexpected; SendNextBlock. The ends: PeerClosed, and NothingReceived, which
is also what a connection that was reset looks like for ever (recv fails,
receivePacket returns false).

*Client.* `tx[s]` is one connection: one iteration of tftpSend, or one getFile.
`at` says where: at the select of its loop (`waiting`), at the end of the
client's scope (`closing`), or in getFile's loop after the connection is lost
(`spinning`). PutAnswered, PutTimesOut and PutConnectionLost are the three ways
waitForPacketACK returns true; ErrorReceived is the one that does not.

*Disk.* `stored` and `content`. With DiskMayFail an ofstream may fail to open or
to write; from then on `good` is false and it drops what follows, and the code
acknowledges all the same.

*Master.* One thread handles the clicks of both windows, so a handler that does not
wait is one step; `phase` says in which handler the thread is, between the points
where it waits (for the network, a message box, or between two saves). Clicks:
OnConfigReseau, OnClose, OnBtnOKClicked, OnBtnConsulterClicked,
OnBtnEffacerClicked, OnBtnEffacerToutClicked, OnBtnRechercherClicked, OnSend.
The search goes first -> second -> save (AskAgain, ecouter, ShowFound); saving
what it found (enregistrerConfigPresente) goes dating -> recording, one
RecordUser per iteration, because each of them loads and saves the file.
`config_choisie`, `str`, `derniere_date`, `config`, `nb_User`, `RecvBuf` are the
code's members. `clock`, `noted`, `agreed`, `died` are history: they remember what was
found, agreed to, and how the process ended, and no step depends on them but the
freshness of a date. `Start` and `Quit` begin and end the process; a crash (`Quit`,
or `InterruptedSave` in a save) counts as a fault, as a failing fopen does.

*ConfigFile.* A method is an operator from the document that LoadFile gave to what
becomes of it: the process dies of a NULL attribute, nothing is saved, or a
document is. `Call` puts it between the load and the save, each with its faults.

*TinyXML.* `tree` is the heap with the library's own five pointers; Unlink,
LinkEndChild, LinkBefore, LinkAfter, Substitute are its assignments in its order,
insertions put in a copy (Clone) as the library does. `attributeSet` is the ring.

### What is abstracted

In the master:

* The four attributes of a user that no decision tells apart (hostname, username,
  os, nbvideo) are one, `rest`. A date is its rank; it is a new one each time,
  because two rounds of listening of at least a second each lie between two
  recordings.
* The receiver address is fixed when the program is built, so the machines a
  question reaches are the constant `Asked`. A question or an answer may be lost; an
  answer may come at any later time, even to the next process on the same port.
* LoadFile fails when fopen fails or the text is damaged (`whole` is FALSE).
  SaveFile's result is never looked at in the code, so a save that fails is a step
  like any other. A crash in a save leaves one of `Cuts(d)`.
* OnBtnConsulterClicked reads a configuration twice; the second time is the same
  step again.
* `nb_User` is 0 or 1: only `== 0` is asked. At MaxFound the list keeps what it has.
* A server takes a new name and refuses one it has (`TftpSystem` says why and when).
  TFTPClient's constructor fails only in ways that are the `NotSent` step.
* Two members call WSAStartup; a send calls it once and WSACleanup once, or twice
  after an ERROR packet. A socket() that fails returns before its destructor matters
  and is not modelled apart.
* Message boxes are modal: while one is open no other handler runs.

In TinyXML: values with a character reference of their own ("&#x") are left out of
ValuesReturn, EncodeString passes them unchanged; the encoding is ISO-8859-1, as the
file declares. assert is off, as in a release build. A tag that is only "<" becomes
a TiXmlUnknown, which the program skips.

In the transfer:

* Sizes count cells, not bytes: a packet header is one cell, a payload a
  sequence of them, and 516 < 1024 < 1032 becomes `1 + DataCells < MaxCells <
  2 * (1 + DataCells)`.
* A read (with `Segmented`) may cut a DATA packet anywhere in its payload or
  join it with the beginning of the next packet. Headers are not split, requests
  are not split, a read joins at most two packets, and the rest of a cut packet
  never spells an opcode (`RAW`).
* Room for data is counted in packets. The client's socket is in blocking mode (nothing
  changes it after M`tftp_client.cpp`:135): send puts its packet into the stream and returns
  when at most SendRoom packets of the stream are left unread; before that the client takes
  no step (SendReturned). The server's socket does not block, and its packets never fill the
  other direction: it sends one, then waits for an acknowledgement.
* ERROR packets have a code and no message.
* An answer that comes after its two seconds is one the server had not sent
  yet: neither end can tell the difference. So a timeout is possible only while
  nothing can be read.
* Undefined behaviour (deleting a pointer that is wild or freed in
  disconnectClient; copying up to 1020 bytes of payload into 512) ends the
  process or does nothing.
  A wild pointer is what disconnectClient meets on the first use of every slot, so
  the runs without MayFault, and all that is said of liveness without it,
  describe a build in which that happens to be harmless.
* `content` is what a stream has taken, its buffer included. Another client that
  reads a file before the buffer is flushed gets a shorter beginning of it, a
  server that dies loses it: beginnings of beginnings, which is all
  the properties say of a file that is being received.
* tftpSend always sends (`command` is COMMAND_PUT); sessions of Getters model
  getFile, which nothing calls at present but which is the client's other half.
* MaxBlock bounds the DATA packets of one fetch, so that a client that only
  acknowledges cannot grow the model for ever; no run that is expected to pass
  without faults comes near it.

## 3. Runs

All instances use DataCells = 2 and MaxCells = 5. Sources have two full blocks
and a short or an empty one (`movie`: 5 or 4 cells), so that first, middle, last
and exact-multiple blocks all occur; a longer file repeats the middle. Two
slots and three places in the backlog let two sessions be accepted in both
orders and reuse slots; one slot makes them compete. SendRoom is 4, all the packets of
a transfer, where the question is what a sender that runs ahead can do to the files, and 2
in `chaos`, where send must be able to fill the buffers in the middle of a file.

| Run | Instance | Shows |
|---|---|---|
| `rivals` | p and q send one name, nothing is late, q's local file may fail to open | LockStep, OneWriter, NoOverwrite, SuccessfullyTransferred, PutCompletes, OnePutWins |
| `fetch` | g fetches a file that is there, h one that is not | LockStep, GetCompletes, SlotsDrain |
| `late` | h fetches what p sends while p sends it; both may time out at any moment, the disk may fail, WordMod = 3 so that numbers wrap within a file | SlotsServeConnections, StoredIsPrefix, GetFaithful, OlderReceived, and that the server implements WriteOnceStore (WriteOnce) |
| `chaos` | p sends and g fetches through one slot and a backlog of one, reads ignore packet boundaries, the disk may fail, the process may die, two packets fill the buffers | TypeOK, PutEndsOnceServed |
| `duplicate` | g alone, impatient | *violated*: CannotHappen |
| `split` | p alone, reads ignore packet boundaries | *violated*: SuccessfullyTransferred |
| `wrapped` | p alone, three block numbers | *violated*: PutCompletes |
| `leak` | g alone, impatient | *violated*: SlotsDrain |
| `master` | one master; 3 machines of which 2 are asked and one answers incompletely; one configuration is stored, another may be; one fault, two refused transfers | TypeOK, ListMatchesFile, SavedAsFound, UsableOnly, SentToAgreed, DiesOnlyDamaged, SocketsSurvive, that the file is a ConfigBook (KeepsBook), SearchEndsIfOpen |
| `formats` | values of up to 4 of 11 characters, names of up to 6 of 6 letters, documents of up to 2 configurations of 2 users, 5 nodes, 3 attributes | ValuesReturn, NamesAccepted, SavedIsLoaded, CutsAreBeginnings, TreeLinked, KeepsChildren, AttributesKeepOrder |
| `retries` | two refused transfers, then a search | *violated*: SearchEnds |
| `firstonly` | a configuration of two machines | *violated*: DoneMeansSent |

`chaos` runs without the deadlock check: when the process has died and every
client has ended, nothing is left to do. MaxBlock is 4 there and 10 elsewhere.

Every property of a passing run has a mutant, a variant of one action that a
plausible slip would produce (a dropped test, a counter that is not reset, an
off-by-one); the mutant operators stand beside the actions they change and are
marked as such.

`master`: two dates are enough for a list whose order matters, one of them from an
earlier run of the program, so that recording, erasing and restarting all meet a
list of none, one and two; four questions are two whole searches, hence answers of the
first that arrive in the second; two answers and a list of two give a list with a good
user before or behind an incomplete one, or one user twice. One fault is any one
failing fopen or crash, and everything that may follow it. Two refusals are what
it takes to lose the sockets. The model has no deadlock: the user may always quit.

`formats`: four characters hold every way in which entities, quotes and references
can be adjacent, six letters every extension with and without a name, and dots in
any two places. Five nodes are a document, the element on the stack and three
places: a node with two children, a copy of a node with a child, a replacement
between two neighbours. SYMMETRY permutes places that no definition names, and
the run checks no liveness. It stops when a text has its full length, so it does not
check for deadlock.

### Fairness

`FairSpec` of `TftpSystem` is weak fairness of four kinds of step. The server: its loop never
blocks, every iteration does a bounded amount of work. A client: its select
returns as soon as there is something to read. A timeout: the same select
returns after two seconds; *when* it may is `MayTimeOut`: always for an impatient
session, else only when nothing is due to it. The network: a reset arrives.
Nothing is assumed of the order, and no strong fairness, and nothing makes room in the
buffers but the server's reads or the end of the connection. Hence the condition of
`PutEndsOnceServed`: sendFile ends when the process dies, when it is served however late,
and when its file fits the buffers; what is left is a connection that is never accepted,
with the buffers full.

`FairSpec` of `MasterWindows` is weak fairness of Search (select returns after
TIMEOUT at the latest, so the thread takes another step of ecouter or leaves it)
and of Record (saving waits for nobody). Nothing is assumed of the user or of the
network: the thread may stay at a message box for ever. SearchEnds still is only
true while the sockets work, and that is what `master` checks and `retries` refutes.

## 4. What disagrees with the code's own claims

* `duplicate`: "this cannot happen, because we use an ACK lock" (M`tftp_client.cpp`:236)
  happens: a late DATA packet is acknowledged twice, the server repeats a block.
  The model also shows that getFile recovers: GetFaithful holds in `late`.
* `split`: a read that returns part of a full DATA packet is taken for the last
  packet; the server announces a successful transfer of a truncated file.
* `wrapped`: past block 65535 the server compares an `int` with a 16-bit number,
  nothing more is written, sendFile reports success.
* `leak`: a client that ends while an answer is on its way resets the
  connection; the server never notices, and a slot is lost. Ten such clients and
  nobody is served.
* `retries`: errorReceived calls the destructor, which runs again when the client
  goes out of scope; after two refused transfers WSACleanup has undone the windows'
  own WSAStartup, select fails at once, its failure is not 0, and ecouter's loop
  never ends ("Mise en place du TIMEOUT", M`UDPReseauMaster.cpp`:76). Before the
  first answer it scans a buffer that was never written. The proof (SocketsLast)
  says that one refusal is harmless.
* `firstonly`: tftpSend returns in the first iteration of its loop, and OnSend shows
  "Envoie Terminer !" (M`Fenetre_Master.cpp`:193) although the other machines of the
  configuration got nothing.

Seen in the model, and the reason why PutEndsOnceServed has an exception: "Server has
timed out" (M`tftp_client.cpp`:471) is what sendFile says when waitForPacketACK returns
false, but after a timeout that returns true (line 400). A sender that is never accepted,
say because the slots are lost as in `leak`, goes on sending, one block per timeout; a file
that fits the buffers is reported as sent, a larger one leaves the master in send for ever.
Without its exception the property is violated in `chaos`, in just that way.

Seen in the model, and the reason why DiesOnlyDamaged speaks of faults: a crash
between `<Config` and its date leaves an element without one, and every start of the
program from then on compares a string made of NULL; a file without a root element
(the first load failed, an empty document was saved) ends the process at
each attempt to save a search, until "Effacer tout" makes a new root.

Read in the code, without a run: the block is acknowledged before the next one
is requested in an order its comment reverses (M`tftp_client.cpp`:278); comments
announce a resend that does not happen (S`tftp_server.cpp`:380) and a reset of
everything although acknowledged and the pointers stay (S`tftp_server.cpp`:554).

## 5. Proofs

### The transfer (`TftpProofs`)

For every number of sessions and slots, all files and sizes, and with every
fault of the model (the only assumptions are the named ASSUMEs of the modules,
which TLC evaluates in every run):

* `TypeCorrect`: Spec => []TypeOK. TypeOK is not inductive: storing a
  connection needs the slot's `client_socket` to be one, reading a block needs the
  slot to have a file name. `TypeInv` adds `SlotOK`: a connected slot has a
  session, with a request a name, and a slot not connected has no request left
  over (else accepting into it would resume a transfer of nobody's).
* `SlotsServe`: Spec => []SlotsServeConnections. Inductive with TypeInv and
  `Unopened` (a client that has not connected yet has no connection known to the
  server), which keeps a session from being in the backlog twice.
* `FilesOnlyGrow`: Spec => NoOverwrite. From TypeInv: the only steps that touch
  files are StartWrite, for a name not stored, and `write`, which appends.
* `WritersExclude`: Spec => []OneWriter. OneWriter is inductive with TypeInv: a
  step of the server changes one slot (`Turns`), which streams to a file
  afterwards only if it did before or if the name is new in `stored`; the second
  part of OneWriter says that then no other slot streams to it. That names are
  never removed comes from `FilesOnlyGrow`'s lemmas, and that a slot accepted
  into does not stream from `SlotOK`.

Along the way every action is reduced to one of four shapes, so that the
invariants need not look at each again: the server *Keeps* its slot's
connection, *Leaves* it, accepts one, or *Idles* (`ServerShape`); a client
connects, fails to, or *Uses* its connection without changing the server's end
(`ClientShape`); the network resets an open connection or closes those of a dead
process (`NetworkShape`). Sequence facts (what a cut or joined read returns, a
block of a file, prefixes) are lemmas of their own.

### The master (`MasterProofs`)

For every finite set of machines, any number of dates, questions, faults and
refusals, any stored document the assumptions allow:

* `MasterTypeCorrect`: Spec => []TypeOK. Not inductive as it stands: the list box
  and tftpSend's addresses come from the file, where attributes may be missing. It
  holds because the methods that read them die first when one is.
* `SocketsLast`: Spec => []SocketsSurvive. The strengthening is a sum: while fewer
  than two transfers were refused, `winsock + refused >= 2`. Each refusal undoes one
  call and pays for it.
* `DiesOfDamageOnly`: if the first file has a root, Spec => []DiesOnlyDamaged. The
  strengthening is that the file is `Intact` (every Config has a date, every user all
  attributes, there is a root) until the first fault. Without the hypothesis it is
  false, see section 4.
* `ListIsFile`: Spec => []ListMatchesFile. The strengthening (`Listed`) says what
  holds between CreateConfig and Recorded, when the file is one date ahead of the list
  box. The interesting step is OnBtnEffacerClicked, where RemoveChild takes the first
  element with the date and str.Remove the first entry: the same place, because the
  two sequences are equal.

All handlers that touch the file have one shape, `Call`, so the proof has two
layers: what each method makes of any document (`Harmless`: a document, undamaged if
it was), then one short lemma per handler (`Calling`, `Quiet`).

### Files sent to the server (`StreamProofs`)

Two hypotheses appear here as `ASSUME ... PROVE`. `~Segmented` says that recv returns
whole packets; without it StoredIsPrefix and SuccessfullyTransferred are false, as
the run `split` shows for the second. `~DiskMayFail` is needed only where a transfer is said
to be whole, because the server acknowledges what the disk did not take. Both are
constants, so a theorem covers either kind of build.

* `StoredArePrefixes`: Spec => []StoredIsPrefix.
* `ServerIsWriteOnce`: Spec => WriteOnce, the refinement of `WriteOnceStore`: a step
  creates one new file, appends (a part of) the next block of its source to one, or
  leaves the directory alone.
* `EndedTransfersAreWhole`: Spec => SuccessfullyTransferred, with `~DiskMayFail` too.

The invariant is `StreamInv`, four conjuncts: TypeInv with the slots' invariant;
`CountInv`; OneWriter; `FilesInv`. None of the three properties is inductive: nothing
in the state says which block of which source a packet carries. `CountInv` does.
sendFile sends the request and then one DATA packet after the other, whatever it
hears, so what is in flight are the last packets it sent (`LastSent`), with
no gap; a slot that writes counts every DATA packet it takes, wanted or not; hence
the slot's `block` and the number of packets in flight add up to
`last_packet_no`, and the next packet a slot reads is the one after its count.
`FilesInv` says that a file some slot still writes, and whose stream has lost nothing,
is exactly the blocks that slot has counted, up to number WordMod - 1: beyond it an
`int` is compared with a 16-bit number and nothing is written. Here OneWriter is
needed: no other slot can have appended. A stream the disk failed (`good` is
FALSE) is never written again, so its file stays the beginning it is.

### Files fetched from the server (`FetchProofs`)

* `OlderAreReceived`: Spec => []OlderReceived, for all constants: `Segmented`, a disk
  that fails and a process that dies included. That a slot moves on only when the client
  has all before needs that every ACK in flight has a number below the one the
  client waits for (`AskedBy`), and that cutting the stream makes no new ACK, because
  getFile's packets have no payload (`ReadsOfGetter`).
* `FilesAreFetched`: Spec => []GetFaithful, with `~Segmented`. The invariant
  `FetchInv` gives each packet on its way to the client a block number *j* of which
  only `Word(j)` is visible; the client accepts one whose number agrees with
  `last_packet_no`, and the proof that it is the block meant, although numbers wrap,
  is that a slot sends no block past WordMod: the ACK of that block never equals its
  number. A file that another master is storing at the same time only grows by
  whole blocks or ends, so what was read of it before stays right.

### Lock step (`PaceProofs`)

* `TransfersInLockStep`: Spec /\ []SlotFree => []LockStep.
* `LockStepWithSlots`: Spec => []LockStep, if there is a slot for every session.

For any number of sessions and slots, any files, a disk that fails and clients that
break off or cannot open their file; under three hypotheses, without each of which
LockStep is false:

* `~Segmented`: a read that ends inside a block leaves the rest of it under way, and
  getFile acknowledges what it got meanwhile.
* `~MayFault`: the process goes on; when it has died, its slots stand still while a
  client may find more to read or send.
* `Impatient = {}`: nobody's wait ends while an answer is due (`NothingDue`). Otherwise
  the late answer comes on top of the answer to the repetition.

TLC finds a counterexample in `rivals` or in `fetch` as soon as one of them is
dropped, and in `rivals` with a single slot.

`SlotFree` says that whoever waits to be accepted finds a slot. With all slots taken
nothing is due either, so even a patient sendFile gives up waiting for the answer to
its request and sends DATA 1 behind it: two packets under way when it is accepted.
With a slot for every session SlotFree holds, because no two slots serve one session
(`SlotsServe`) and none serves one that waits (`EnoughSlots`, by the pigeonhole
principle). The runs `rivals` and `fetch` are instances of the second theorem.

LockStep is not inductive: "one packet under way" says nothing of who sends the
next one. `PaceInv` does. A client that has no slot, or whose slot has not read the
request, has sent the request and waits, or has sent nothing. A slot that reads
either owes the next block, and then nothing is under way, or waits for the ACK: an
ACK on its way bears the block's number if and only if the client has moved on; any
other is an old one, which the slot answers by sending the block again. For a slot that writes,
`CountInv` already adds its block and the packets in flight to `last_packet_no`.
A wait ends only when nothing is under way, so a repetition is again one
packet. The proof has one lemma for each way of hearing, sending, repeating and closing
of either end.

### Saved, used and sent (`SavedProofs`)

* `SavedAreFound`: Spec => []SavedAsFound. Whatever fails, users in the file are some
  of those the search before their date found, in their order, and all of them if
  nothing failed.
* `UsableAreSaved`: Spec => []UsableOnly, if it is so of the first file
  (`UsableFirst`): the program never checks what it finds there.
* `SentAreAgreed`: Spec => []SentToAgreed, without hypothesis.

`SavedInv` has three parts. `FileSide`: each configuration's users are some of those
noted for its date, no date occurs twice (else consulting one would show the
other), the one being recorded has some of the machines come to so far, and without a
fault exactly those, while the others are complete. `RecordSide`: what is
recorded is what was noted under `derniere_date`, which is the last date used. `ChoiceSide`:
the list box and `config_choisie` name only dates already used, whose notes no later
search can change; this is what makes a choice survive other handlers. "Some of, in
their order" is an increasing function from places to places, so a machine found twice
is not confused with itself; erasing, cutting and appending each transform it
(`KnownFewer`, `KnownOneMore`).

### The file is a book (`SavedProofs`)

`FileIsBook`: Spec => KeepsBook. With `BookInv`, each handler is one operation of
`ConfigBook` or none, and a failing fopen or a crash is that operation's
fault. Two things the mapping has to get right: the date is taken one step
before its configuration is created, so the book's clock is one behind while
`dating`; and the code adds a user to the *first* configuration with the date while a
book only extends its last, which `LastOpen` reconciles. `CutBook` shows that what a cut
text is loaded as is a beginning of the book.

### TinyXML's tree and the file name (`XmlProofs`)

For every set of nodes, `TreeStaysLinked`: TreeSpec => []TreeLinked. TreeLinked is
inductive itself, because it says not only that neighbours and parents agree but
also that no set of nodes is closed below itself or behind itself (a ring of
siblings would satisfy every local condition). Three facts carry it: an insertion,
at the end, before, behind or in a replacement, is one change, "node comes between the
neighbours a and b" (`InsertedLinked`, which needs that node is not below a or b); a
deletion is safe once the rest does not point into what is deleted (`CutOff`),
which RemoveChild and Clear establish first; a copy is linked as the original and to
nothing else (`ClonedLinked`).

`NamesAreChecked`: DestinationSpec => []NamesAccepted, for every alphabet and length of
a name. verifierExtension counts points and cuts at the last one; the property says the
name is an extension behind something without a point. Both directions need where the only
point is, by arithmetic on cardinalities and places.

### TinyXML's lists, values and documents (`XmlProofs`, `XmlFileProofs`)

These properties speak of recursive functions: a list that is walked, a text that is
parsed. Their proofs need induction over the length of data. The induction theorems of
the library take an operator as a parameter, which the provers cannot
instantiate; a set they can. `NatMin` (every nonempty set of naturals has a least
number, from `WFMin` and `NatLessThanWellFounded`) and `NatAll` (a set with 0 and with every
successor has all of them) say it with sets, and each induction below names the
set of places for which its claim holds.

* `ChildrenAreKept`: Spec => KeepsChildren, the refinement of `XmlChildren`. Beside
  TreeLinked it takes `KidsInv`: there is a function F that gives each node the
  sequence of its children, without repetition, linked from firstChild along next
  (`IsKids`). TreeLinked alone does not say that a walk meets every child. `ChildrenAre`
  shows that the walk of the properties returns that sequence. Each pointer operation
  then has its effect on F: `PlacedKids` for the three insertions, `ReplacedThis`,
  `RemovedThis`, `NoKids`; and `CopiedToIs` for the copy of a subtree, whose
  sequences are the originals' sequences of copies.
* `AttributesAreOrdered`: Spec => AttributesKeepOrder. `RingInv`: the cells that are in
  use are p[1..n] for some p, linked both ways from the sentinel and back to it, with
  names that differ. `ListedIs` shows that Find and Next meet just these; the
  rest is what Add, Remove and SetValue do to p. TiXmlAttribute::Next takes an attribute
  with an empty name and value for the end: here names are never empty, which
  the invariant carries.
* `ValuesAreReturned`: Spec => []ValuesReturn, for every value of characters 1 to 255
  (`CharactersAssumption`: 0 ends a string). Printing is split at a place k: from the place
  where character k was printed, GetChar returns that character and the place where the next
  one was. That takes each of the ways a character can be printed: an entity, a reference
  in hexadecimal, or itself.
* `SavedDocumentsAreLoaded` and `CutDocumentsAreBeginnings`: Spec => []SavedIsLoaded and
  Spec => []CutsAreBeginnings, for any number of configurations and of users in each. This
  is what the run `master` and the theorems of `SavedProofs` assume of a file after a
  crash, by definition of `Cuts`; it is now a theorem about the text. Attributes,
  ReadValue and DocumentParse are functions of positions; that such functions exist
  is an induction from the end (what is read at a position asks only for positions further
  on: `NodeLocal`, `ValueStepLocal`). `BegunReads` is the centre: if a text has, from
  m on, the print of an element as far as the text goes, then ElementParse makes the element
  when all of it is there, and otherwise an unknown node or one of `PartsOf`, with the
  error set. It assumes the same of the children, so it holds of users, then of
  configurations, then of the root (`UserReads`, `ConfigReads`, `RootReads`), without
  an induction over depth. What the window sees in such a part is then compared with
  `Cuts`, in both directions: nothing else, and all of it (`RootGives`, `TextCuts`).
  `DocumentInv` says that the documents of the specification have the right shape.

Reasoning about XmlFile took a change of its form and none of its meaning: the parsers'
functions are defined on positions of the text, 0 and the end included,
instead of on texts, and the elements the program builds are given by what they
print. XmlTree and XmlAttributes state that Nodes and Cells are finite sets: they
are what a heap has room for, and only then has a walk an end.

### Only model-checked

Liveness: PutEndsOnceServed, PutCompletes, OnePutWins, GetCompletes, SlotsDrain,
SearchEndsIfOpen. It needs fairness and ENABLED, outside the prover's reach. Every
invariant and every action property of a passing run is also a theorem.

## 6. Plan

All that was planned is modelled, checked and, but for liveness, proved.

Not modelled, and not planned: layout of the windows and the text of messages; the
byte layout inside a packet; project files. Of TinyXML: comments, text nodes and
CDATA, streams, the printer and visitors, handles, numeric attributes, rows and
columns, UTF-8 - the program meets none of these - and TiXmlString, which is
replaced by its meaning.

----------------------------- MODULE ChatUdp_proofs -----------------------------
(***************************************************************************)
(* Proofs about the UDP chat, for every table size, every set of clients   *)
(* and however often datagrams are lost or repeated.                       *)
(***************************************************************************)
EXTENDS ChatUdp, FiniteSetTheorems, TLAPS

\* A client is told REGISTERED only when it is a member; members stay, so this
\* holds for as long as the datagram may be under way.
RegisteredStands ==
  /\ \A d \in toClient : d.msg.kind = "registered" => \E s \in Members : addr[s] = d.to
  /\ \A c \in Client : cst[c] = "chat" => \E s \in Members : addr[s] = c

AddressesKnown == \A s \in Occupied : addr[s] \in Client

IInv ==
  /\ TypeOK
  /\ AddressesKnown
  /\ CountExact
  /\ SlotsDistinct
  /\ RegisteredStands

-------------------------------------------------------------------------------
(* The table.                                                              *)

LEMMA SlotsFinite ==
  /\ IsFiniteSet(Slot) /\ Cardinality(Slot) = MAXCLIENT
  /\ IsFiniteSet(Occupied) /\ Cardinality(Occupied) \in 0 .. MAXCLIENT
<1>1. MAXCLIENT \in Nat \ {0}
  BY UdpAssumption
<1>2. IsFiniteSet(Slot) /\ Cardinality(Slot) = MAXCLIENT
  BY <1>1, FS_Interval DEF Slot
<1>3. Occupied \in SUBSET Slot
  BY DEF Occupied
<1>4. IsFiniteSet(Occupied) /\ Cardinality(Occupied) <= MAXCLIENT
  BY <1>2, <1>3, FS_Subset
<1>5. Cardinality(Occupied) \in Nat
  BY <1>4, FS_CardinalityType
<1> QED BY <1>1, <1>2, <1>4, <1>5

\* find_client_by_addr finds the slot of an address that has one.
LEMMA FindComplete ==
  ASSUME SlotsDistinct, NEW a, Find(a) = {}
  PROVE  \A s \in Occupied : addr[s] # a
<1> SUFFICES ASSUME NEW s \in Occupied, addr[s] = a PROVE s \in Find(a)
  OBVIOUS
<1>1. s \in Nat /\ \A t \in Occupied : t \in Nat
  BY DEF Occupied, Slot
<1>2. \A t \in Occupied : t < s => addr[t] # a
  BY <1>1 DEF SlotsDistinct
<1> QED BY <1>2 DEF Find

LEMMA FindOne ==
  ASSUME NEW a, NEW s \in Find(a)
  PROVE  s \in Slot /\ s \in Occupied /\ addr[s] = a
BY DEF Find, Occupied

\* What is sent consists of messages to clients.
LEMMA MsgTypes ==
  /\ Plain("accepted") \in Msg /\ Plain("rejected") \in Msg
  /\ Plain("registered") \in Msg /\ Plain("nameRejected") \in Msg
  /\ \A n \in Name : About("join", n) \in Msg
  /\ \A n \in Name \cup {NoName} : About("entry", n) \in Msg
  /\ \A n \in Name \cup {NoName}, x \in Body : Chat(n, x) \in Msg
BY DEF Plain, About, Chat, Msg

LEMMA StoredName == \A x \in Body : Stored[x] \in Name
BY UdpAssumption

-------------------------------------------------------------------------------
(* The handlers.                                                           *)

\* What the proof needs to know of a handler.
TableOK ==
  /\ addr \in [Slot -> Client \cup {NoAddr}]
  /\ name \in [Slot -> Name \cup {NoName}]
  /\ status \in [Slot -> {"NONE", "CONNECTING", "CONNECTED"}]
  /\ client_count \in 0 .. MAXCLIENT

HandlerOK ==
  /\ TableOK'
  /\ AddressesKnown'
  /\ CountExact'
  /\ SlotsDistinct'
  /\ toClient' \subseteq [to : Client, msg : Msg]
  /\ KeepsMembers
  /\ \A d \in toClient' : d.msg.kind = "registered" =>
       d \in toClient \/ \E s \in Members' : addr'[s] = d.to

\* A handler that leaves the table alone and registers nobody.
LEMMA Untouched ==
  ASSUME IInv, UNCHANGED table, toClient' \subseteq [to : Client, msg : Msg],
         \A d \in toClient' : d.msg.kind = "registered" => d \in toClient
  PROVE  HandlerOK
<1>1. Occupied' = Occupied /\ Members' = Members
  BY DEF table, Occupied, Members
<1>2. addr' = addr /\ name' = name /\ status' = status /\ client_count' = client_count
  BY DEF table
<1>3. TableOK' /\ AddressesKnown' /\ CountExact' /\ SlotsDistinct'
  BY <1>1, <1>2 DEF IInv, TypeOK, TableOK, AddressesKnown, CountExact, SlotsDistinct
<1>4. KeepsMembers
  BY <1>2 DEF KeepsMembers, Members
<1> QED BY <1>3, <1>4 DEF HandlerOK

LEMMA SentTypes ==
  ASSUME TypeOK, NEW out \in SUBSET [to : Client, msg : Msg],
         toClient' = Sent(toClient, out)
  PROVE  /\ toClient' \subseteq [to : Client, msg : Msg]
         /\ \A d \in toClient' : d \in toClient \/ d \in out
BY DEF TypeOK, Sent

LEMMA NewClientStep ==
  ASSUME IInv, NEW a \in Client, Find(a) = {}, NewClient(a)
  PROVE  HandlerOK
<1> USE DEF ToClient, Plain
<1>1. CASE /\ toClient' = Sent(toClient, {ToClient(a, Plain("rejected"))})
           /\ UNCHANGED table
  <2>1. {ToClient(a, Plain("rejected"))} \in SUBSET [to : Client, msg : Msg]
    BY MsgTypes
  <2>2. toClient' \subseteq [to : Client, msg : Msg]
        /\ \A d \in toClient' : d.msg.kind = "registered" => d \in toClient
    BY <1>1, <2>1, SentTypes DEF IInv
  <2> QED BY <1>1, <2>2, Untouched
<1>2. ASSUME NEW s \in FreeSlot, client_count < MAXCLIENT,
             addr' = [addr EXCEPT ![s] = a],
             status' = [status EXCEPT ![s] = "CONNECTING"],
             name' = [name EXCEPT ![s] = NoName],
             client_count' = client_count + 1,
             toClient' = Sent(toClient, {ToClient(a, Plain("accepted"))})
      PROVE  HandlerOK
  <2>1. s \in Slot /\ status[s] = "NONE" /\ s \notin Occupied
    BY DEF FreeSlot, Occupied
  <2>2. {ToClient(a, Plain("accepted"))} \in SUBSET [to : Client, msg : Msg]
    BY MsgTypes
  <2>3. toClient' \subseteq [to : Client, msg : Msg]
        /\ \A d \in toClient' : d.msg.kind = "registered" => d \in toClient
    BY SMTT(20), <1>2, <2>2, SentTypes DEF IInv
  <2>4. TableOK'
    BY <1>2, <2>1, UdpAssumption DEF IInv, TypeOK, TableOK
  <2>5. Occupied' = Occupied \cup {s} /\ Members' = Members
    BY <1>2, <2>1 DEF Occupied, Members, IInv, TypeOK
  <2>6. CountExact'
    BY <1>2, <2>1, <2>5, SlotsFinite, FS_AddElement DEF CountExact, IInv
  <2>7. \A t \in Occupied : addr'[t] = addr[t] /\ name'[t] = name[t] /\ addr[t] # a
    BY <1>2, <2>1, FindComplete DEF IInv, TypeOK, Occupied
  <2>8. addr'[s] = a
    BY <1>2, <2>1 DEF IInv, TypeOK
  <2>9. Members \subseteq Occupied
    BY DEF Members, Occupied
  <2>10. SlotsDistinct'
    BY <2>5, <2>7, <2>8, <2>9 DEF SlotsDistinct, IInv
  <2>11. KeepsMembers
    BY <1>2, <2>1, <2>7, <2>9 DEF KeepsMembers, Members, IInv, TypeOK
  <2>12. AddressesKnown'
    BY <2>5, <2>7, <2>8 DEF AddressesKnown, IInv
  <2> QED BY <2>3, <2>4, <2>6, <2>10, <2>11, <2>12 DEF HandlerOK
<1> QED BY <1>1, <1>2 DEF NewClient

LEMMA RejectNameStep ==
  ASSUME IInv, NEW s \in Slot, status[s] = "CONNECTING", NEW n, RejectName(s, n)
  PROVE  HandlerOK
<1>1. s \in Occupied /\ s \notin Members /\ Members \subseteq Occupied
  BY DEF Occupied, Members
<1>2. {ToClient(addr[s], Plain("nameRejected"))} \in SUBSET [to : Client, msg : Msg]
  BY <1>1, MsgTypes DEF IInv, AddressesKnown, ToClient
<1>3. TableOK'
  <2>1. client_count > 0
    BY <1>1, SlotsFinite, FS_EmptySet DEF IInv, CountExact
  <2> QED BY <2>1, UdpAssumption DEF IInv, TypeOK, TableOK, RejectName
<1>4. Occupied' = Occupied \ {s} /\ Members' = Members
  BY <1>1 DEF RejectName, Occupied, Members, IInv, TypeOK
<1>5. CountExact'
  BY <1>1, <1>4, SlotsFinite, FS_RemoveElement DEF CountExact, IInv, RejectName
<1>6. \A t \in Slot \ {s} : addr'[t] = addr[t] /\ name'[t] = name[t] /\ status'[t] = status[t]
  BY DEF RejectName, IInv, TypeOK
<1>7. SlotsDistinct' /\ AddressesKnown'
  BY <1>1, <1>4, <1>6 DEF SlotsDistinct, AddressesKnown, IInv, Members, Occupied
<1>8. KeepsMembers
  BY <1>1, <1>6 DEF KeepsMembers, Members
<1>9. /\ toClient' \subseteq [to : Client, msg : Msg]
      /\ \A d \in toClient' : d.msg.kind = "registered" => d \in toClient
  <2> DEFINE m == ToClient(addr[s], Plain("nameRejected"))
  <2>1. m.msg.kind # "registered"
    BY DEF ToClient, Plain
  <2>2. toClient' = Sent(toClient, {m})
    BY DEF RejectName
  <2>3. /\ toClient' \subseteq [to : Client, msg : Msg]
        /\ \A d \in toClient' : d \in toClient \/ d \in {m}
    <3> HIDE DEF m
    <3> QED BY <1>2, <2>2, SentTypes DEF IInv, m
  <2> QED BY <2>1, <2>3
<1> QED BY <1>3, <1>5, <1>7, <1>8, <1>9 DEF HandlerOK

LEMMA RegisterNameStep ==
  ASSUME IInv, NEW s \in Slot, status[s] = "CONNECTING", NEW n \in Name,
         ~NameTaken(n), RegisterName(s, n)
  PROVE  HandlerOK
<1> DEFINE out == {ToClient(addr[s], Plain("registered"))}
                     \cup ToAll(Members \cup {s}, About("join", n))
<1>1. s \in Occupied /\ s \notin Members /\ Members \subseteq Occupied
  BY DEF Occupied, Members
<1>2. out \in SUBSET [to : Client, msg : Msg]
  BY <1>1, MsgTypes DEF IInv, AddressesKnown, ToClient, ToAll
<1>3. TableOK'
  BY UdpAssumption DEF IInv, TypeOK, TableOK, RegisterName
<1>4. Occupied' = Occupied /\ Members' = Members \cup {s}
  BY <1>1 DEF RegisterName, Occupied, Members, IInv, TypeOK
<1>5. CountExact' /\ AddressesKnown'
  BY <1>4 DEF CountExact, AddressesKnown, IInv, RegisterName
<1>6. /\ \A t \in Slot \ {s} : name'[t] = name[t] /\ status'[t] = status[t]
      /\ name'[s] = n /\ addr' = addr
  BY DEF RegisterName, IInv, TypeOK
<1>7. SlotsDistinct'
  <2>1. \A t, u \in Occupied' : t # u => addr'[t] # addr'[u]
    BY <1>4, <1>6 DEF SlotsDistinct, IInv
  <2>2. \A t \in Members : name'[t] = name[t] /\ name[t] # n
    BY <1>1, <1>6 DEF NameTaken, Members
  <2>3. \A t, u \in Members' : t # u => name'[t] # name'[u]
    BY <1>4, <1>6, <2>2 DEF SlotsDistinct, IInv
  <2> QED BY <2>1, <2>3 DEF SlotsDistinct
<1>8. KeepsMembers
  BY <1>1, <1>6 DEF KeepsMembers, Members
<1>9. /\ toClient' \subseteq [to : Client, msg : Msg]
      /\ \A d \in toClient' : d \in toClient \/ d \in out
  <2>1. toClient' = Sent(toClient, out)
    BY DEF RegisterName
  <2> QED BY <1>2, <2>1, SentTypes DEF IInv
<1>10. \A d \in out : d.msg.kind = "registered" => d.to = addr[s]
  BY DEF ToAll, ToClient, Plain, About
<1>11. \A d \in toClient' : d.msg.kind = "registered" =>
         d \in toClient \/ \E t \in Members' : addr'[t] = d.to
  BY <1>4, <1>6, <1>9, <1>10
<1> QED BY <1>3, <1>5, <1>7, <1>8, <1>9, <1>11 DEF HandlerOK

LEMMA HandleMessageStep ==
  ASSUME IInv, NEW s \in Members, NEW x \in Body, HandleMessage(s, x)
  PROVE  HandlerOK
<1>1. \A t \in Members : addr[t] \in Client /\ name[t] \in Name \cup {NoName}
  BY DEF IInv, TypeOK, AddressesKnown, Occupied, Members
<1>2. NameList(s) \in SUBSET [to : Client, msg : Msg]
      /\ ToAll(Members, Chat(name[s], x)) \in SUBSET [to : Client, msg : Msg]
  <2>1. s \in Members
    OBVIOUS
  <2>2. \A t \in Members : About("entry", name[t]) \in Msg
    BY <1>1, MsgTypes
  <2>3. Chat(name[s], x) \in Msg
    BY <1>1, MsgTypes
  <2> QED BY <1>1, <2>1, <2>2, <2>3 DEF NameList, ToAll, ToClient
<1>3. \A d \in NameList(s) \cup ToAll(Members, Chat(name[s], x)) : d.msg.kind # "registered"
  BY DEF NameList, ToAll, ToClient, About, Chat
<1>4. PICK out : /\ out \in {NameList(s), ToAll(Members, Chat(name[s], x))}
                 /\ toClient' = Sent(toClient, out)
  BY DEF HandleMessage
<1>5. /\ toClient' \subseteq [to : Client, msg : Msg]
      /\ \A d \in toClient' : d \in toClient \/ d \in out
  BY <1>2, <1>4, SentTypes DEF IInv
<1>6. UNCHANGED table
  BY DEF HandleMessage
<1> QED BY <1>3, <1>4, <1>5, <1>6, Untouched

LEMMA HandleStep ==
  ASSUME IInv, NEW d \in toServer, Handle(d)
  PROVE  HandlerOK
<1>1. d.from \in Client /\ d.body \in Body
  BY DEF IInv, TypeOK
<1>2. CASE Find(d.from) = {} /\ NewClient(d.from)
  BY <1>1, <1>2, NewClientStep
<1>3. ASSUME NEW s \in Find(d.from), status[s] = "CONNECTING", ReceiveUsername(s, d.body)
      PROVE  HandlerOK
  BY <1>1, <1>3, FindOne, StoredName, RejectNameStep, RegisterNameStep DEF ReceiveUsername
<1>4. ASSUME NEW s \in Find(d.from), status[s] = "CONNECTED", HandleMessage(s, d.body)
      PROVE  HandlerOK
  BY <1>1, <1>4, FindOne, HandleMessageStep DEF Members
<1> QED BY <1>2, <1>3, <1>4 DEF Handle

-------------------------------------------------------------------------------
(* The invariant.                                                          *)

LEMMA InitIInv == Init => IInv
<1> SUFFICES ASSUME Init PROVE IInv
  OBVIOUS
<1>1. Occupied = {} /\ Members = {}
  BY DEF Init, Occupied, Members
<1>2. TypeOK
  <2>1. 0 \in 0 .. MAXCLIENT /\ 0 \in 0 .. MaxLines /\ 0 \in 0 .. MaxRepeats
    BY UdpAssumption
  <2>2. TableOK
    BY <2>1 DEF Init, TableOK
  <2>3. /\ cst \in [Client -> ClientState] /\ typed \in [Client -> 0 .. MaxLines]
        /\ toServer = {} /\ toClient = {}
    BY <2>1 DEF Init, ClientState
  <2> QED BY <2>1, <2>2, <2>3 DEF Init, TypeOK, TableOK
<1> QED BY <1>1, <1>2, FS_EmptySet
    DEF Init, IInv, AddressesKnown, CountExact, SlotsDistinct, RegisteredStands

LEMMA ServerStep ==
  ASSUME IInv, Server
  PROVE  IInv' /\ KeepsMembers
<1>1. PICK d \in toServer : Handle(d) /\ Repeats /\ toServer' = Receive(toServer, d)
  BY DEF Server
<1>2. HandlerOK
  BY <1>1, HandleStep
<1>3. UNCHANGED <<up, lost, clients>>
  BY DEF Server
<1>4. TypeOK'
  BY <1>1, <1>2, <1>3, UdpAssumption
     DEF HandlerOK, TableOK, TypeOK, IInv, Repeats, Receive, clients
<1>5. RegisteredStands'
  <2>1. \A t \in Members : t \in Members' /\ addr'[t] = addr[t]
    BY <1>2 DEF HandlerOK, KeepsMembers, Members
  <2> QED BY <1>2, <1>3, <2>1 DEF HandlerOK, IInv, RegisteredStands, clients
<1> QED BY <1>2, <1>4, <1>5 DEF HandlerOK, IInv

\* A step that leaves the table alone, delivers nothing to the clients and
\* makes only registered clients chat.
LEMMA TableKept ==
  ASSUME IInv, UNCHANGED table, TypeOK', toClient' \subseteq toClient,
         \A c \in Client : cst'[c] = "chat" =>
           cst[c] = "chat" \/ \E d \in toClient : d.to = c /\ d.msg.kind = "registered"
  PROVE  IInv' /\ KeepsMembers
<1>1. Occupied' = Occupied /\ Members' = Members
  BY DEF table, Occupied, Members
<1>2. addr' = addr /\ name' = name /\ status' = status /\ client_count' = client_count
  BY DEF table
<1>3. AddressesKnown' /\ CountExact' /\ SlotsDistinct'
  BY <1>1, <1>2 DEF IInv, AddressesKnown, CountExact, SlotsDistinct
<1>4. RegisteredStands'
  BY <1>1, <1>2 DEF IInv, RegisteredStands
<1>5. KeepsMembers
  BY <1>2 DEF KeepsMembers, Members
<1> QED BY <1>3, <1>4, <1>5 DEF IInv

LEMMA EndStep ==
  ASSUME IInv, NEW c \in Client, End(c)
  PROVE  IInv' /\ KeepsMembers
<1>1. TypeOK'
  BY DEF End, IInv, TypeOK, table, ClientState
<1>2. UNCHANGED table /\ toClient' \subseteq toClient
  BY DEF End
<1>3. \A b \in Client : cst'[b] = "chat" => cst[b] = "chat"
  BY DEF End, IInv, TypeOK
<1> QED BY <1>1, <1>2, <1>3, TableKept

LEMMA ReadStep ==
  ASSUME IInv, NEW c \in Client, NEW m, Reads(c, m),
         toServer' \subseteq [from : Client, body : Body],
         cst' \in [Client -> ClientState],
         \A b \in Client : cst'[b] = "chat" =>
           cst[b] = "chat" \/ (b = c /\ m.kind = "registered")
  PROVE  IInv' /\ KeepsMembers
<1>1. ToClient(c, m) \in toClient /\ toClient' \subseteq toClient
  BY DEF Reads, Receive
<1>2. TypeOK'
  BY <1>1, UdpAssumption DEF Reads, IInv, TypeOK, table, Repeats
<1>3. UNCHANGED table
  BY DEF Reads
<1>4. ToClient(c, m).to = c /\ ToClient(c, m).msg = m
  BY DEF ToClient
<1> QED BY <1>1, <1>2, <1>3, <1>4, TableKept

LEMMA ClientStep ==
  ASSUME IInv, NEW c \in Client, ClientReads(c) \/ User(c)
  PROVE  IInv' /\ KeepsMembers
<1> DEFINE TS == toServer \in SUBSET [from : Client, body : Body]
<1>1. TS /\ cst \in [Client -> ClientState] /\ nick \in [Client -> Username]
  BY DEF IInv, TypeOK
<1>2. \A x \in Body : FromClient(c, x) \in [from : Client, body : Body]
  BY DEF FromClient
<1>3. nick[c] \in Body /\ HELLO \in Body /\ Line \subseteq Body
  BY <1>1 DEF Body
<1>4. CASE ReadAck(c)
  <2>1. ASSUME Reads(c, Plain("accepted")),
               toServer' = toServer \cup {FromClient(c, nick[c])},
               cst' = [cst EXCEPT ![c] = "awaitReg"]
        PROVE  IInv' /\ KeepsMembers
    <3>1. toServer' \subseteq [from : Client, body : Body]
      BY <1>1, <1>2, <1>3, <2>1
    <3>2. cst' \in [Client -> ClientState] /\ \A b \in Client : cst'[b] = "chat" => cst[b] = "chat"
      BY <1>1, <2>1 DEF ClientState
    <3> QED BY <2>1, <3>1, <3>2, ReadStep
  <2> QED BY <1>4, <2>1, EndStep DEF ReadAck
<1>5. CASE ReadReg(c)
  <2>1. ASSUME Reads(c, Plain("registered")),
               cst' = [cst EXCEPT ![c] = "chat"], UNCHANGED toServer
        PROVE  IInv' /\ KeepsMembers
    <3>1. toServer' \subseteq [from : Client, body : Body]
      BY <1>1, <2>1
    <3>2. cst' \in [Client -> ClientState] /\ \A b \in Client : cst'[b] = "chat" => cst[b] = "chat" \/ b = c
      BY <1>1, <2>1 DEF ClientState
    <3>3. Plain("registered").kind = "registered"
      BY DEF Plain
    <3> QED BY <2>1, <3>1, <3>2, <3>3, ReadStep
  <2> QED BY <1>5, <2>1, EndStep DEF ReadReg
<1>6. CASE ShowText(c)
  <2>1. PICK d \in toClient : Reads(c, d.msg)
    BY <1>6 DEF ShowText
  <2>2. toServer' = toServer /\ cst' = cst
    BY <1>6 DEF ShowText
  <2> QED BY <1>1, <2>1, <2>2, ReadStep
<1>7. CASE Refused(c) \/ Quit(c)
  BY <1>7, EndStep DEF Refused, Quit
<1>8. CASE Start(c)
  <2>1. /\ UNCHANGED table /\ toClient' = toClient
        /\ \A b \in Client : cst'[b] = "chat" => cst[b] = "chat"
    BY <1>1, <1>8 DEF Start
  <2>2. TypeOK'
    BY <1>1, <1>2, <1>3, <1>8 DEF Start, IInv, TypeOK, table, ClientState
  <2> QED BY <2>1, <2>2, TableKept
<1>9. ASSUME NEW x \in Line, TypeLine(c, x) PROVE IInv' /\ KeepsMembers
  <2>1. UNCHANGED table /\ toClient' = toClient /\ cst' = cst
    BY <1>9 DEF TypeLine
  <2>2. typed' \in [Client -> 0 .. MaxLines]
    BY <1>9, UdpAssumption DEF TypeLine, IInv, TypeOK
  <2>3. TypeOK'
    BY <1>1, <1>2, <1>3, <1>9, <2>2 DEF TypeLine, IInv, TypeOK, table
  <2> QED BY <2>1, <2>3, TableKept
<1>10. CASE ClientReads(c)
  BY <1>10, <1>4, <1>5, <1>6, <1>7 DEF ClientReads
<1>11. CASE User(c)
  BY <1>11, <1>7, <1>8, <1>9 DEF User
<1> QED BY <1>10, <1>11

LEMMA NextIInv ==
  ASSUME IInv, [Next]_vars
  PROVE  IInv' /\ KeepsMembers
<1>1. CASE Server
  BY <1>1, ServerStep
<1>2. CASE SyscallFails
  BY <1>2, TableKept DEF SyscallFails, IInv, TypeOK, table, clients
<1>3. CASE Lose
  BY <1>3, TableKept DEF Lose, IInv, TypeOK, table, clients
<1>4. ASSUME NEW c \in Client, ClientReads(c) \/ User(c) PROVE IInv' /\ KeepsMembers
  BY <1>4, ClientStep
<1>5. CASE UNCHANGED vars
  BY <1>5, TableKept DEF vars, IInv, TypeOK, table, net, clients
<1> QED BY <1>1, <1>2, <1>3, <1>4, <1>5 DEF Next

\* The inductive invariant.
THEOREM Invariant == Spec => []IInv
<1>1. IInv /\ [Next]_vars => IInv'
  BY NextIInv
<1> QED BY <1>1, InitIInv, PTL DEF Spec

\* Type correctness: chatserver-udp.c keeps its counter within the table.
THEOREM TypeCorrect == Spec => []TypeOK
<1>1. IInv => TypeOK
  BY DEF IInv
<1> QED BY <1>1, Invariant, PTL

\* client_count is the number of slots in use, after every datagram.
THEOREM CountCorrect == Spec => []CountExact
<1>1. IInv => CountExact
  BY DEF IInv
<1> QED BY <1>1, Invariant, PTL

\* No address has two slots and no two members share a name.
THEOREM SlotsCorrect == Spec => []SlotsDistinct
<1>1. IInv => SlotsDistinct
  BY DEF IInv
<1> QED BY <1>1, Invariant, PTL

\* No datagram makes the server give up a member or change its name.
THEOREM MembersKept == Spec => MembersStay
<1>1. IInv /\ [Next]_vars => [KeepsMembers]_vars
  BY NextIInv
<1> QED BY <1>1, Invariant, PTL DEF Spec, MembersStay

-------------------------------------------------------------------------------
(* Where the conversation with a client stands while no datagram has been  *)
(* repeated: the seat the server gives it, the state of its process and    *)
(* what is on its way between the two agree.                               *)

Seated(c, st) == \E s \in Slot : status[s] = st /\ addr[s] = c
Unseated(c)   == \A s \in Occupied : addr[s] # c

\* What is on its way from c, and to c.
Pending(c) == {x \in Body : FromClient(c, x) \in toServer}
Due(c)     == {m \in Msg : ToClient(c, m) \in toClient}

NotStarted(c) ==
  Unseated(c) /\ cst[c] = "start" /\ Pending(c) = {} /\ Due(c) = {}

Greets(c) ==
  /\ Unseated(c)
  /\ cst[c] \in {"awaitAck", "done"}
  /\ Pending(c) \subseteq {HELLO} /\ Due(c) = {}

TurnedAway(c) ==
  /\ Unseated(c)
  /\ cst[c] \in {"awaitAck", "awaitReg", "done"}
  /\ Pending(c) = {} /\ Due(c) \subseteq {Plain("rejected"), Plain("nameRejected")}

Admitted(c) ==
  /\ Seated(c, "CONNECTING")
  /\ cst[c] \in {"awaitAck", "done"}
  /\ Pending(c) = {} /\ Due(c) \subseteq {Plain("accepted")}

Introduces(c) ==
  /\ Seated(c, "CONNECTING")
  /\ cst[c] \in {"awaitReg", "done"}
  /\ Pending(c) \subseteq {nick[c]} /\ Due(c) = {}

IsMember(c) ==
  /\ Seated(c, "CONNECTED")
  /\ \A s \in Members : addr[s] = c => name[s] = Stored[nick[c]]
  /\ cst[c] \in {"awaitReg", "chat", "done"}
  /\ Pending(c) \subseteq IF cst[c] = "awaitReg" THEN {} ELSE Line
  /\ Plain("accepted") \notin Due(c)

Phase(c) ==
  \/ NotStarted(c) \/ Greets(c) \/ TurnedAway(c)
  \/ Admitted(c) \/ Introduces(c) \/ IsMember(c)

InTurn == repeats = 0 => \A c \in Client : Phase(c)

LEMMA OneSeat ==
  ASSUME IInv, NEW c
  PROVE  /\ Seated(c, "CONNECTED") => ~Unseated(c) /\ ~Seated(c, "CONNECTING")
         /\ Seated(c, "CONNECTING") => ~Unseated(c) /\ ~Seated(c, "CONNECTED")
BY DEF IInv, SlotsDistinct, Seated, Unseated, Occupied

\* A client stays in its phase when its seat does, nothing new is on its way
\* (but what is sent to all members) and it waits or ends.
LEMMA PhaseKept ==
  ASSUME IInv, NEW c \in Client, Phase(c), UNCHANGED nick,
         Unseated(c)' = Unseated(c),
         Seated(c, "CONNECTING")' = Seated(c, "CONNECTING"),
         Seated(c, "CONNECTED")' = Seated(c, "CONNECTED"),
         \A s \in Members' : addr'[s] = c => s \in Members /\ addr[s] = c /\ name'[s] = name[s],
         Pending(c)' \subseteq Pending(c),
         \A m \in Due(c)' : m \in Due(c) \/ (Seated(c, "CONNECTED") /\ m # Plain("accepted")),
         cst'[c] = cst[c] \/ (cst'[c] = "done" /\ cst[c] # "start")
  PROVE  Phase(c)'
<1>1. CASE IsMember(c)
  BY <1>1 DEF Phase, IsMember
<1>2. CASE ~ IsMember(c)
  <2>1. ~ Seated(c, "CONNECTED")
    BY <1>2, OneSeat DEF Phase, NotStarted, Greets, TurnedAway, Admitted, Introduces
  <2>2. Due(c)' \subseteq Due(c)
    BY <2>1
  <2>3. CASE NotStarted(c)
    BY <2>2, <2>3 DEF Phase, NotStarted
  <2>4. CASE Greets(c)
    BY <2>2, <2>4 DEF Phase, Greets
  <2>5. CASE TurnedAway(c)
    BY <2>2, <2>5 DEF Phase, TurnedAway
  <2>6. CASE Admitted(c)
    BY <2>2, <2>6 DEF Phase, Admitted
  <2>7. CASE Introduces(c)
    BY <2>2, <2>7 DEF Phase, Introduces
  <2> QED BY <1>2, <2>3, <2>4, <2>5, <2>6, <2>7 DEF Phase
<1> QED BY <1>1, <1>2

\* The seats while the table stays as it is.
LEMMA SeatsKept ==
  ASSUME UNCHANGED table
  PROVE  /\ Occupied' = Occupied /\ Members' = Members
         /\ \A c : /\ Unseated(c)' = Unseated(c)
                   /\ Seated(c, "CONNECTING")' = Seated(c, "CONNECTING")
                   /\ Seated(c, "CONNECTED")' = Seated(c, "CONNECTED")
                   /\ \A s \in Members' : addr'[s] = c =>
                        s \in Members /\ addr[s] = c /\ name'[s] = name[s]
BY DEF table, Occupied, Members, Unseated, Seated

\* The datagrams a handler adds to what is on its way to a client that still runs.
LEMMA DueSent ==
  ASSUME NEW out, toClient' = Sent(toClient, out), NEW c
  PROVE  \A m \in Due(c)' : m \in Due(c) \/ (ToClient(c, m) \in out /\ cst[c] # "done")
BY DEF Due, Sent, ToClient

\* An answer to one client reaches no other.
LEMMA DueOther ==
  ASSUME NEW a, NEW x, toClient' = Sent(toClient, {ToClient(a, x)}), NEW c, c # a
  PROVE  Due(c)' \subseteq Due(c)
<1>1. \A m : ToClient(c, m) \notin {ToClient(a, x)}
  BY DEF ToClient
<1> QED BY <1>1, DueSent

\* The received datagram is gone from what its sender has on its way.
LEMMA PendingReceived ==
  ASSUME TypeOK, NEW d \in toServer, toServer' = toServer \ {d}
  PROVE  /\ d.from \in Client /\ d.body \in Pending(d.from)
         /\ Pending(d.from)' = Pending(d.from) \ {d.body}
         /\ \A c \in Client \ {d.from} : Pending(c)' = Pending(c)
<1>1. d \in [from : Client, body : Body]
  BY DEF TypeOK
<1>2. d = FromClient(d.from, d.body) /\ d.from \in Client /\ d.body \in Body
  BY <1>1 DEF FromClient
<1>3. \A c, x : FromClient(c, x) = d <=> c = d.from /\ x = d.body
  BY <1>2 DEF FromClient
<1> QED BY <1>2, <1>3 DEF Pending

\* What a handler of a datagram from c does to the conversations: it moves c to
\* another phase, and the others at most hear what all members hear.
LEMMA NewClientPhases ==
  ASSUME IInv, \A c \in Client : Phase(c), UNCHANGED clients,
         NEW d \in toServer, toServer' = toServer \ {d},
         Find(d.from) = {}, NewClient(d.from)
  PROVE  \A c \in Client : Phase(c)'
<1> DEFINE a == d.from
<1>1. /\ a \in Client /\ d.body \in Pending(a)
      /\ Pending(a)' = Pending(a) \ {d.body}
      /\ \A c \in Client \ {a} : Pending(c)' = Pending(c)
  BY PendingReceived DEF IInv
<1>2. Unseated(a)
  BY FindComplete DEF IInv, Unseated
<1>3. Pending(a)' = {} /\ Due(a) = {} /\ cst[a] \in {"awaitAck", "done"}
  <2>1. Phase(a)
    BY <1>1
  <2>2. ~NotStarted(a) /\ ~TurnedAway(a)
    BY <1>1 DEF NotStarted, TurnedAway
  <2>3. ~Admitted(a) /\ ~Introduces(a) /\ ~IsMember(a)
    BY <1>2, OneSeat DEF Admitted, Introduces, IsMember
  <2>4. Greets(a)
    BY <2>1, <2>2, <2>3 DEF Phase
  <2> HIDE DEF a
  <2> QED BY <1>1, <2>4 DEF Greets
<1>4. nick' = nick /\ cst' = cst
  BY DEF clients
<1> HIDE DEF a
<1>5. CASE /\ toClient' = Sent(toClient, {ToClient(a, Plain("rejected"))})
           /\ UNCHANGED table
  <2>1. TurnedAway(a)'
    <3>1. Due(a)' \subseteq {Plain("rejected")}
      BY <1>3, <1>5, DueSent DEF ToClient
    <3> QED BY <1>2, <1>3, <1>4, <1>5, <3>1, SeatsKept DEF TurnedAway
  <2>2. ASSUME NEW c \in Client \ {a} PROVE Phase(c)'
    <3>1. Due(c)' \subseteq Due(c)
      BY <1>5, DueOther
    <3> QED BY <1>1, <1>4, <1>5, <3>1, SeatsKept, PhaseKept
  <2> QED BY <2>1, <2>2 DEF Phase
<1>6. ASSUME NEW s \in FreeSlot,
             addr' = [addr EXCEPT ![s] = a],
             status' = [status EXCEPT ![s] = "CONNECTING"],
             name' = [name EXCEPT ![s] = NoName],
             toClient' = Sent(toClient, {ToClient(a, Plain("accepted"))})
      PROVE  \A c \in Client : Phase(c)'
  <2>1. s \in Slot /\ status[s] = "NONE"
    BY DEF FreeSlot
  <2>2. /\ status'[s] = "CONNECTING" /\ addr'[s] = a
        /\ \A t \in Slot \ {s} : status'[t] = status[t] /\ addr'[t] = addr[t] /\ name'[t] = name[t]
    BY <1>6, <2>1 DEF IInv, TypeOK
  <2>3. Admitted(a)'
    <3>1. Due(a)' \subseteq {Plain("accepted")}
      BY <1>3, <1>6, DueSent DEF ToClient
    <3> QED BY <1>3, <1>4, <2>1, <2>2, <3>1 DEF Admitted, Seated
  <2>4. ASSUME NEW c \in Client \ {a} PROVE Phase(c)'
    <3>1. Due(c)' \subseteq Due(c)
      BY <1>6, DueOther
    <3>2. /\ Unseated(c)' = Unseated(c)
          /\ Seated(c, "CONNECTING")' = Seated(c, "CONNECTING")
          /\ Seated(c, "CONNECTED")' = Seated(c, "CONNECTED")
      BY <2>1, <2>2 DEF Unseated, Seated, Occupied
    <3>3. \A t \in Members' : t # s /\ t \in Members /\ addr'[t] = addr[t] /\ name'[t] = name[t]
      BY <2>1, <2>2 DEF Members
    <3> QED BY <1>1, <1>4, <3>1, <3>2, <3>3, PhaseKept
  <2> QED BY <2>3, <2>4 DEF Phase
<1> QED BY <1>5, <1>6 DEF NewClient, a

LEMMA ReceiveUsernamePhases ==
  ASSUME IInv, \A c \in Client : Phase(c), UNCHANGED clients,
         NEW d \in toServer, toServer' = toServer \ {d},
         NEW s \in Find(d.from), status[s] = "CONNECTING", ReceiveUsername(s, d.body)
  PROVE  \A c \in Client : Phase(c)'
<1> DEFINE a == d.from
           n == Stored[d.body]
<1>1. /\ a \in Client /\ d.body \in Pending(a)
      /\ Pending(a)' = Pending(a) \ {d.body}
      /\ \A c \in Client \ {a} : Pending(c)' = Pending(c)
  BY PendingReceived DEF IInv
<1>2. s \in Slot /\ s \in Occupied /\ addr[s] = a
  BY FindOne
<1>3. /\ Seated(a, "CONNECTING")
      /\ \A t \in Slot \ {s} : t \in Occupied => addr[t] # a
  BY <1>2 DEF Seated, IInv, SlotsDistinct, Occupied
<1>4. /\ d.body = nick[a] /\ Pending(a)' = {} /\ Due(a) = {}
      /\ cst[a] \in {"awaitReg", "done"}
  <2>1. Phase(a)
    BY <1>1
  <2>2. ~NotStarted(a) /\ ~Greets(a) /\ ~TurnedAway(a) /\ ~IsMember(a)
    BY <1>3, OneSeat DEF NotStarted, Greets, TurnedAway, IsMember
  <2>3. ~Admitted(a)
    BY <1>1 DEF Admitted
  <2>4. Introduces(a)
    BY <2>1, <2>2, <2>3 DEF Phase
  <2> HIDE DEF a
  <2> QED BY <1>1, <2>4 DEF Introduces
<1>5. nick' = nick /\ cst' = cst
  BY DEF clients
<1>6. s \notin Members
  BY DEF Members
<1> HIDE DEF a
<1>7. CASE RejectName(s, n)
  <2>1. /\ status'[s] = "NONE" /\ addr' = addr
        /\ \A t \in Slot \ {s} : status'[t] = status[t] /\ name'[t] = name[t]
    BY <1>2, <1>7 DEF RejectName, IInv, TypeOK
  <2>2. toClient' = Sent(toClient, {ToClient(a, Plain("nameRejected"))})
    BY <1>2, <1>7 DEF RejectName
  <2>3. TurnedAway(a)'
    <3>1. Due(a)' \subseteq {Plain("nameRejected")}
      BY <1>4, <2>2, DueSent DEF ToClient
    <3>2. Unseated(a)'
      BY <1>3, <2>1 DEF Unseated, Occupied
    <3> QED BY <1>4, <1>5, <3>1, <3>2 DEF TurnedAway
  <2>4. ASSUME NEW c \in Client \ {a} PROVE Phase(c)'
    <3>1. Due(c)' \subseteq Due(c)
      BY <2>2, DueOther
    <3>2. /\ Unseated(c)' = Unseated(c)
          /\ Seated(c, "CONNECTING")' = Seated(c, "CONNECTING")
          /\ Seated(c, "CONNECTED")' = Seated(c, "CONNECTED")
      BY <1>2, <2>1 DEF Unseated, Seated, Occupied
    <3>3. \A t \in Members' : t # s /\ t \in Members /\ addr'[t] = addr[t] /\ name'[t] = name[t]
      BY <1>2, <2>1 DEF Members
    <3> QED BY <1>1, <1>5, <3>1, <3>2, <3>3, PhaseKept
  <2> QED BY <2>3, <2>4 DEF Phase
<1>8. CASE RegisterName(s, n)
  <2>1. /\ status'[s] = "CONNECTED" /\ addr' = addr /\ name'[s] = n
        /\ \A t \in Slot \ {s} : status'[t] = status[t] /\ name'[t] = name[t]
    BY <1>2, <1>8 DEF RegisterName, IInv, TypeOK
  <2>2. toClient' = Sent(toClient, {ToClient(a, Plain("registered"))}
                                      \cup ToAll(Members \cup {s}, About("join", n)))
    BY <1>2, <1>8 DEF RegisterName
  <2>3. ASSUME NEW c \in Client, NEW m \in Due(c)'
        PROVE  \/ m \in Due(c)
               \/ /\ m # Plain("accepted")
                  /\ c = a \/ Seated(c, "CONNECTED")
    <3>1. m \in Due(c) \/ ToClient(c, m) \in {ToClient(a, Plain("registered"))}
                             \cup ToAll(Members \cup {s}, About("join", n))
      BY <2>2, <2>3, DueSent
    <3>2. CASE ToClient(c, m) = ToClient(a, Plain("registered"))
      BY <3>2 DEF ToClient, Plain
    <3>3. CASE ToClient(c, m) \in ToAll(Members \cup {s}, About("join", n))
      <4>1. PICK t \in Members \cup {s} : ToClient(c, m) = ToClient(addr[t], About("join", n))
        BY <3>3 DEF ToAll
      <4>2. c = addr[t] /\ m = About("join", n)
        BY <4>1 DEF ToClient
      <4>3. m # Plain("accepted")
        BY <4>2 DEF About, Plain
      <4>4. t = s \/ Seated(c, "CONNECTED")
        BY <4>2 DEF Members, Seated
      <4> QED BY <1>2, <4>2, <4>3, <4>4
    <3> QED BY <3>1, <3>2, <3>3
  <2>4. IsMember(a)'
    <3>1. Seated(a, "CONNECTED")'
      BY <1>2, <2>1 DEF Seated
    <3>2. \A t \in Members' : addr'[t] = a => t = s
      BY <1>2, <1>3, <2>1 DEF Members, Occupied
    <3>3. Plain("accepted") \notin Due(a)'
      BY <1>1, <1>4, <2>3
    <3> QED BY <1>4, <1>5, <2>1, <3>1, <3>2, <3>3 DEF IsMember
  <2>5. ASSUME NEW c \in Client \ {a} PROVE Phase(c)'
    <3>1. /\ Unseated(c)' = Unseated(c)
          /\ Seated(c, "CONNECTING")' = Seated(c, "CONNECTING")
          /\ Seated(c, "CONNECTED")' = Seated(c, "CONNECTED")
      BY <1>2, <2>1 DEF Unseated, Seated, Occupied
    <3>2. \A t \in Members' : addr'[t] = c => t # s /\ t \in Members /\ addr[t] = c /\ name'[t] = name[t]
      BY <1>2, <2>1 DEF Members
    <3>3. \A m \in Due(c)' : m \in Due(c) \/ (Seated(c, "CONNECTED") /\ m # Plain("accepted"))
      BY <2>3
    <3> QED BY <1>1, <1>5, <3>1, <3>2, <3>3, PhaseKept
  <2> QED BY <2>4, <2>5 DEF Phase
<1> QED BY <1>7, <1>8 DEF ReceiveUsername

LEMMA HandleMessagePhases ==
  ASSUME IInv, \A c \in Client : Phase(c), UNCHANGED clients,
         NEW d \in toServer, toServer' = toServer \ {d},
         NEW s \in Members, HandleMessage(s, d.body)
  PROVE  \A c \in Client : Phase(c)'
<1>1. \A c \in Client : Pending(c)' \subseteq Pending(c)
  BY PendingReceived DEF IInv
<1>2. nick' = nick /\ cst' = cst /\ UNCHANGED table
  BY DEF clients, HandleMessage
<1>3. ASSUME NEW c \in Client, NEW m \in Due(c)'
      PROVE  m \in Due(c) \/ (Seated(c, "CONNECTED") /\ m # Plain("accepted"))
  <2> DEFINE out == IF d.body = ListCmd THEN NameList(s) ELSE ToAll(Members, Chat(name[s], d.body))
  <2>1. m \in Due(c) \/ ToClient(c, m) \in out
    <3>1. toClient' = Sent(toClient, out)
      BY DEF HandleMessage
    <3> HIDE DEF out
    <3> QED BY <1>3, <3>1, DueSent
  <2>2. ASSUME NEW x \in out
        PROVE  x.msg.kind # "accepted" /\ \E t \in Members : x.to = addr[t]
    BY DEF NameList, ToAll, ToClient, About, Chat
  <2>3. ToClient(c, m).to = c /\ ToClient(c, m).msg = m /\ Plain("accepted").kind = "accepted"
    BY DEF ToClient, Plain
  <2> HIDE DEF out
  <2>4. CASE ToClient(c, m) \in out
    BY <2>2, <2>3, <2>4 DEF Seated, Members
  <2> QED BY <2>1, <2>4
<1>4. \A c \in Client : Phase(c)'
  BY <1>1, <1>2, <1>3, SeatsKept, PhaseKept
<1> QED BY <1>4

LEMMA ServerPhases ==
  ASSUME IInv, InTurn, Server
  PROVE  InTurn'
<1> SUFFICES ASSUME repeats' = 0 PROVE \A c \in Client : Phase(c)'
  BY DEF InTurn
<1>1. PICK d \in toServer : Handle(d) /\ Repeats /\ toServer' = Receive(toServer, d)
  BY DEF Server
<1>2. repeats = 0
  BY <1>1, UdpAssumption DEF Repeats, IInv, TypeOK
<1>3. toServer' = toServer \ {d} /\ \A c \in Client : Phase(c)
  BY <1>1, <1>2 DEF Receive, InTurn
<1>4. UNCHANGED clients
  BY DEF Server
<1>5. CASE Find(d.from) = {} /\ NewClient(d.from)
  BY <1>3, <1>4, <1>5, NewClientPhases
<1>6. ASSUME NEW s \in Find(d.from), status[s] = "CONNECTING", ReceiveUsername(s, d.body)
      PROVE  \A c \in Client : Phase(c)'
  BY <1>3, <1>4, <1>6, ReceiveUsernamePhases
<1>7. ASSUME NEW s \in Find(d.from), status[s] = "CONNECTED", HandleMessage(s, d.body)
      PROVE  \A c \in Client : Phase(c)'
  BY <1>3, <1>4, <1>7, FindOne, HandleMessagePhases DEF Members
<1> QED BY <1>1, <1>5, <1>6, <1>7 DEF Handle

\* Datagrams that are lost, and processes that end, keep every client in phase.
LEMMA WaitingPhases ==
  ASSUME IInv, InTurn, UNCHANGED <<table, repeats, nick>>,
         toServer' \subseteq toServer, toClient' \subseteq toClient,
         \A c \in Client : cst'[c] = cst[c] \/ (cst'[c] = "done" /\ cst[c] # "start")
  PROVE  InTurn'
<1>1. \A c \in Client : Pending(c)' \subseteq Pending(c) /\ Due(c)' \subseteq Due(c)
  BY DEF Pending, Due
<1>2. UNCHANGED table /\ nick' = nick /\ repeats' = repeats
  OBVIOUS
<1>3. ASSUME NEW c \in Client, Phase(c) PROVE Phase(c)'
  BY <1>1, <1>2, <1>3, SeatsKept, PhaseKept
<1> QED BY <1>2, <1>3 DEF InTurn

LEMMA EndPhases ==
  ASSUME IInv, InTurn, NEW c \in Client, End(c), cst[c] # "start"
  PROVE  InTurn'
<1>1. \A b \in Client : cst'[b] = cst[b] \/ (cst'[b] = "done" /\ cst[b] # "start")
  BY DEF End, IInv, TypeOK
<1> QED BY <1>1, WaitingPhases DEF End

\* The client c receives m, and no other is concerned.
LEMMA ReadPhases ==
  ASSUME IInv, NEW c \in Client, NEW m, Reads(c, m), repeats' = 0
  PROVE  /\ repeats = 0 /\ m \in Due(c)
         /\ Due(c)' = Due(c) \ {m}
         /\ UNCHANGED <<table, nick>>
         /\ \A b \in Client \ {c} : Due(b)' = Due(b)
<1>1. repeats = 0
  BY UdpAssumption DEF Reads, Repeats, IInv, TypeOK
<1>2. toClient' = toClient \ {ToClient(c, m)}
  BY <1>1 DEF Reads, Receive
<1>3. ToClient(c, m) \in [to : Client, msg : Msg]
  BY DEF Reads, IInv, TypeOK
<1>4. m \in Msg /\ \A b, x : ToClient(b, x) = ToClient(c, m) <=> b = c /\ x = m
  BY <1>3 DEF ToClient
<1>5. ToClient(c, m) \in toClient /\ UNCHANGED <<table, nick>>
  BY DEF Reads
<1> QED BY <1>1, <1>2, <1>4, <1>5 DEF Due

LEMMA ReadAckPhases ==
  ASSUME IInv, InTurn, NEW c \in Client, cst[c] = "awaitAck", Reads(c, Plain("accepted")),
         toServer' = toServer \cup {FromClient(c, nick[c])},
         cst' = [cst EXCEPT ![c] = "awaitReg"]
  PROVE  InTurn'
<1> SUFFICES ASSUME repeats' = 0 PROVE \A b \in Client : Phase(b)'
  BY DEF InTurn
<1>1. /\ repeats = 0 /\ Plain("accepted") \in Due(c)
      /\ Due(c)' = Due(c) \ {Plain("accepted")}
      /\ UNCHANGED <<table, nick>>
      /\ \A b \in Client \ {c} : Due(b)' = Due(b)
  BY ReadPhases
<1>2. \A b \in Client : Phase(b)
  BY <1>1 DEF InTurn
<1>3. /\ Pending(c)' \subseteq Pending(c) \cup {nick[c]}
      /\ \A b \in Client \ {c} : Pending(b)' = Pending(b)
  BY DEF Pending, FromClient
<1>4. cst'[c] = "awaitReg" /\ \A b \in Client \ {c} : cst'[b] = cst[b]
  BY DEF IInv, TypeOK
<1>5. Introduces(c)'
  <2>1. Plain("accepted") \notin {Plain("rejected"), Plain("nameRejected")}
    BY DEF Plain
  <2>2. Admitted(c)
    <3>1. Phase(c)
      BY <1>2
    <3>2. ~NotStarted(c) /\ ~Greets(c) /\ ~TurnedAway(c) /\ ~Introduces(c) /\ ~IsMember(c)
      BY <1>1, <2>1 DEF NotStarted, Greets, TurnedAway, Introduces, IsMember
    <3> QED BY <3>1, <3>2 DEF Phase
  <2>3. Pending(c) = {} /\ Due(c) \subseteq {Plain("accepted")} /\ Seated(c, "CONNECTING")
    BY <2>2 DEF Admitted
  <2>4. Seated(c, "CONNECTING")'
    BY <1>1, <2>3, SeatsKept
  <2>5. Pending(c)' \subseteq {nick[c]} /\ Due(c)' = {} /\ nick' = nick
    BY <1>1, <1>3, <2>3
  <2> QED BY <1>4, <2>4, <2>5 DEF Introduces
<1>6. ASSUME NEW b \in Client \ {c} PROVE Phase(b)'
  BY <1>1, <1>2, <1>3, <1>4, SeatsKept, PhaseKept
<1> QED BY <1>5, <1>6 DEF Phase

LEMMA ReadRegPhases ==
  ASSUME IInv, InTurn, NEW c \in Client, cst[c] = "awaitReg", Reads(c, Plain("registered")),
         cst' = [cst EXCEPT ![c] = "chat"], UNCHANGED toServer
  PROVE  InTurn'
<1> SUFFICES ASSUME repeats' = 0 PROVE \A b \in Client : Phase(b)'
  BY DEF InTurn
<1>1. /\ repeats = 0 /\ Plain("registered") \in Due(c)
      /\ Due(c)' = Due(c) \ {Plain("registered")}
      /\ UNCHANGED <<table, nick>>
      /\ \A b \in Client \ {c} : Due(b)' = Due(b)
  BY ReadPhases
<1>2. \A b \in Client : Phase(b) /\ Pending(b)' = Pending(b)
  BY <1>1 DEF InTurn, Pending
<1>3. cst'[c] = "chat" /\ \A b \in Client \ {c} : cst'[b] = cst[b]
  BY DEF IInv, TypeOK
<1>4. IsMember(c)'
  <2>1. Plain("registered") \notin {Plain("rejected"), Plain("nameRejected"), Plain("accepted")}
    BY DEF Plain
  <2>2. IsMember(c)
    <3>1. Phase(c)
      BY <1>2
    <3>2. ~NotStarted(c) /\ ~Greets(c) /\ ~TurnedAway(c) /\ ~Introduces(c) /\ ~Admitted(c)
      BY <1>1, <2>1 DEF NotStarted, Greets, TurnedAway, Introduces, Admitted
    <3> QED BY <3>1, <3>2 DEF Phase
  <2>3. Pending(c) = {} /\ Plain("accepted") \notin Due(c) /\ Seated(c, "CONNECTED")
    BY <2>2 DEF IsMember
  <2>4. Seated(c, "CONNECTED")'
    BY <1>1, <2>3, SeatsKept
  <2>5. \A s \in Members' : addr'[s] = c => name'[s] = Stored[nick'[c]]
    BY <1>1, <2>2, SeatsKept DEF IsMember
  <2>6. Pending(c)' = {} /\ Plain("accepted") \notin Due(c)'
    BY <1>1, <1>2, <2>3
  <2> QED BY <1>3, <2>4, <2>5, <2>6 DEF IsMember
<1>5. ASSUME NEW b \in Client \ {c} PROVE Phase(b)'
  BY <1>1, <1>2, <1>3, SeatsKept, PhaseKept
<1> QED BY <1>4, <1>5 DEF Phase

LEMMA ShowTextPhases ==
  ASSUME IInv, InTurn, NEW c \in Client, ShowText(c)
  PROVE  InTurn'
<1> SUFFICES ASSUME repeats' = 0 PROVE \A b \in Client : Phase(b)'
  BY DEF InTurn
<1>1. PICK d \in toClient : Reads(c, d.msg)
  BY DEF ShowText
<1>2. /\ repeats = 0 /\ Due(c)' \subseteq Due(c)
      /\ UNCHANGED <<table, nick>>
      /\ \A b \in Client \ {c} : Due(b)' = Due(b)
  BY <1>1, ReadPhases
<1>3. \A b \in Client : Phase(b) /\ Pending(b)' = Pending(b) /\ Due(b)' \subseteq Due(b)
  BY <1>2 DEF InTurn, Pending, ShowText
<1>4. cst' = cst
  BY DEF ShowText
<1> QED BY <1>2, <1>3, <1>4, SeatsKept, PhaseKept

LEMMA StartPhases ==
  ASSUME IInv, InTurn, NEW c \in Client, Start(c)
  PROVE  InTurn'
<1> SUFFICES ASSUME repeats' = 0 PROVE \A b \in Client : Phase(b)'
  BY DEF InTurn
<1>1. /\ cst[c] = "start" /\ toServer' = toServer \cup {FromClient(c, HELLO)}
      /\ UNCHANGED <<table, toClient, repeats, nick>>
  BY DEF Start
<1>2. \A b \in Client : Phase(b) /\ Due(b)' = Due(b)
  BY <1>1 DEF InTurn, Due
<1>3. /\ Pending(c)' \subseteq Pending(c) \cup {HELLO}
      /\ \A b \in Client \ {c} : Pending(b)' = Pending(b)
  BY <1>1 DEF Pending, FromClient
<1>4. cst'[c] = "awaitAck" /\ \A b \in Client \ {c} : cst'[b] = cst[b]
  BY DEF Start, IInv, TypeOK
<1>5. Greets(c)'
  <2>1. NotStarted(c)
    <3>1. Phase(c)
      BY <1>2
    <3> QED BY <1>1, <3>1 DEF Phase, Greets, TurnedAway, Admitted, Introduces, IsMember
  <2>2. Unseated(c)'
    BY <1>1, <2>1, SeatsKept DEF NotStarted
  <2> QED BY <1>2, <1>3, <1>4, <2>1, <2>2 DEF NotStarted, Greets
<1>6. ASSUME NEW b \in Client \ {c} PROVE Phase(b)'
  BY <1>1, <1>2, <1>3, <1>4, SeatsKept, PhaseKept
<1> QED BY <1>5, <1>6 DEF Phase

LEMMA TypeLinePhases ==
  ASSUME IInv, InTurn, NEW c \in Client, NEW x \in Line, TypeLine(c, x)
  PROVE  InTurn'
<1> SUFFICES ASSUME repeats' = 0 PROVE \A b \in Client : Phase(b)'
  BY DEF InTurn
<1>1. /\ cst[c] = "chat" /\ toServer' = toServer \cup {FromClient(c, x)}
      /\ UNCHANGED <<table, toClient, repeats, nick, cst>>
  BY DEF TypeLine
<1>2. \A b \in Client : Phase(b) /\ Due(b)' = Due(b)
  BY <1>1 DEF InTurn, Due
<1>3. /\ Pending(c)' \subseteq Pending(c) \cup {x}
      /\ \A b \in Client \ {c} : Pending(b)' = Pending(b)
  BY <1>1 DEF Pending, FromClient
<1>4. IsMember(c)'
  <2>1. IsMember(c)
    <3>1. Phase(c)
      BY <1>2
    <3> QED BY <1>1, <3>1 DEF Phase, NotStarted, Greets, TurnedAway, Admitted, Introduces
  <2>2. /\ Seated(c, "CONNECTED")'
        /\ \A s \in Members' : addr'[s] = c => name'[s] = Stored[nick'[c]]
    BY <1>1, <2>1, SeatsKept DEF IsMember
  <2>3. Pending(c)' \subseteq Line /\ Plain("accepted") \notin Due(c)' /\ cst'[c] = "chat"
    BY <1>1, <1>2, <1>3, <2>1 DEF IsMember
  <2> QED BY <2>2, <2>3 DEF IsMember
<1>5. ASSUME NEW b \in Client \ {c} PROVE Phase(b)'
  BY <1>1, <1>2, <1>3, SeatsKept, PhaseKept
<1> QED BY <1>4, <1>5 DEF Phase

LEMMA NextInTurn ==
  ASSUME IInv, InTurn, [Next]_vars
  PROVE  InTurn'
<1>1. CASE Server
  BY <1>1, ServerPhases
<1>2. CASE SyscallFails \/ Lose \/ UNCHANGED vars
  <2>1. UNCHANGED <<table, repeats, nick, cst>>
    BY <1>2 DEF SyscallFails, Lose, vars, net, clients
  <2>2. toServer' \subseteq toServer /\ toClient' \subseteq toClient
    BY <1>2 DEF SyscallFails, Lose, vars, net
  <2> QED BY <2>1, <2>2, WaitingPhases
<1>3. ASSUME NEW c \in Client, ClientReads(c) PROVE InTurn'
  BY <1>3, ReadAckPhases, ReadRegPhases, ShowTextPhases, EndPhases
     DEF ClientReads, ReadAck, ReadReg, Refused
<1>4. ASSUME NEW c \in Client, User(c) PROVE InTurn'
  BY <1>4, StartPhases, TypeLinePhases, EndPhases DEF User, Quit
<1> QED BY <1>1, <1>2, <1>3, <1>4 DEF Next

\* While no datagram has been repeated, every client is in one of the six
\* phases of its conversation with the server, whatever is lost or reordered.
THEOREM ConversationsInTurn == Spec => []InTurn
<1>1. Init => InTurn
  BY DEF Init, InTurn, Phase, NotStarted, Unseated, Occupied, Pending, Due
<1>2. IInv /\ InTurn /\ [Next]_vars => InTurn'
  BY NextInTurn
<1> QED BY <1>1, <1>2, Invariant, PTL DEF Spec

\* A client that lets its user chat is a member, and under its own name unless
\* a datagram was repeated.
THEOREM ChattersCorrect == Spec => []ChattersRegistered
<1>1. IInv /\ InTurn => ChattersRegistered
  <2> SUFFICES ASSUME IInv, InTurn, NEW c \in Client, cst[c] = "chat"
               PROVE  \E s \in Members : /\ addr[s] = c
                                         /\ repeats = 0 => name[s] = Stored[nick[c]]
    BY DEF ChattersRegistered
  <2>1. PICK s \in Members : addr[s] = c
    BY DEF IInv, RegisteredStands
  <2>2. ASSUME repeats = 0 PROVE name[s] = Stored[nick[c]]
    <3>1. Phase(c)
      BY <2>2 DEF InTurn
    <3>2. IsMember(c)
      BY <3>1 DEF Phase, NotStarted, Greets, TurnedAway, Admitted, Introduces
    <3> QED BY <2>1, <3>2 DEF IsMember
  <2> QED BY <2>1, <2>2
<1> QED BY <1>1, Invariant, ConversationsInTurn, PTL

-------------------------------------------------------------------------------
(* What is on its way to the clients.                                      *)

\* What a handler sends about somebody is about a member, and the text of a
\* member is a line its user typed while no datagram is repeated.
LEMMA SentNames ==
  ASSUME IInv, InTurn, NamesStand, Server
  PROVE  NamesStand'
<1>1. PICK d \in toServer : Handle(d) /\ Repeats /\ toServer' = Receive(toServer, d)
  BY DEF Server
<1>2. \A s \in Members : s \in Members' /\ name'[s] = name[s]
  <2>1. KeepsMembers
    BY ServerStep
  <2> QED BY <2>1 DEF KeepsMembers, Members
<1>3. repeats' = 0 => repeats = 0
  BY <1>1, UdpAssumption DEF Repeats, IInv, TypeOK
<1>4. ASSUME NEW e \in toClient', e \in toClient, e.msg.name # NoName
      PROVE  /\ \E s \in Members' : name'[s] = e.msg.name
             /\ e.msg.kind = "chat" /\ repeats' = 0 => e.msg.text \in Line
  BY <1>2, <1>3, <1>4 DEF NamesStand
<1>5. ASSUME NEW e \in toClient', e \notin toClient, e.msg.name # NoName
      PROVE  /\ \E s \in Members' : name'[s] = e.msg.name
             /\ e.msg.kind = "chat" /\ repeats' = 0 => e.msg.text \in Line
  <2>1. CASE NewClient(d.from)
    BY <1>5, <2>1 DEF NewClient, Sent, ToClient, Plain
  <2>2. ASSUME NEW s \in Find(d.from), status[s] = "CONNECTING", ReceiveUsername(s, d.body)
        PROVE  /\ \E t \in Members' : name'[t] = e.msg.name
               /\ e.msg.kind = "chat" /\ repeats' = 0 => e.msg.text \in Line
    <3> DEFINE n == Stored[d.body]
    <3>1. CASE RejectName(s, n)
      BY <1>5, <3>1 DEF RejectName, Sent, ToClient, Plain
    <3>2. CASE RegisterName(s, n)
      <4>1. \/ e = ToClient(addr[s], Plain("registered"))
            \/ e \in ToAll(Members \cup {s}, About("join", n))
        BY <1>5, <3>2 DEF RegisterName, Sent
      <4>2. e.msg = About("join", n)
        BY <1>5, <4>1 DEF ToAll, ToClient, Plain
      <4>3. s \in Slot
        BY FindOne
      <4>4. s \in Members' /\ name'[s] = n
        BY <3>2, <4>3 DEF RegisterName, Members, IInv, TypeOK
      <4> QED BY <4>2, <4>4 DEF About
    <3> QED BY <2>2, <3>1, <3>2 DEF ReceiveUsername
  <2>3. ASSUME NEW s \in Find(d.from), status[s] = "CONNECTED", HandleMessage(s, d.body)
        PROVE  /\ \E t \in Members' : name'[t] = e.msg.name
               /\ e.msg.kind = "chat" /\ repeats' = 0 => e.msg.text \in Line
    <3>1. s \in Members /\ s \in Slot /\ addr[s] = d.from
      BY <2>3, FindOne DEF Members
    <3>2. CASE d.body = ListCmd
      <4>1. e \in NameList(s)
        BY <1>5, <2>3, <3>2 DEF HandleMessage, Sent
      <4>2. PICK t \in Members : e = ToClient(addr[s], About("entry", name[t]))
        BY <4>1 DEF NameList
      <4> QED BY <1>2, <4>2 DEF ToClient, About
    <3>3. CASE d.body # ListCmd
      <4>1. e \in ToAll(Members, Chat(name[s], d.body))
        BY <1>5, <2>3, <3>3 DEF HandleMessage, Sent
      <4>2. e.msg = Chat(name[s], d.body)
        BY <4>1 DEF ToAll, ToClient
      <4>3. ASSUME repeats' = 0 PROVE d.body \in Line
        <5>1. toServer' = toServer \ {d} /\ InTurn /\ repeats = 0
          BY <1>1, <1>3, <4>3 DEF Receive
        <5>2. d.from \in Client /\ d.body \in Pending(d.from)
          BY <5>1, PendingReceived DEF IInv
        <5>3. Phase(d.from) /\ Seated(d.from, "CONNECTED")
          BY <2>3, <3>1, <5>1, <5>2 DEF InTurn, Seated
        <5>4. ~Unseated(d.from) /\ ~Seated(d.from, "CONNECTING")
          BY <5>3, OneSeat
        <5>5. IsMember(d.from)
          BY <5>3, <5>4 DEF Phase, NotStarted, Greets, TurnedAway, Admitted, Introduces
        <5> QED BY <5>2, <5>5 DEF IsMember
      <4> QED BY <1>2, <3>1, <4>2, <4>3 DEF Chat
    <3> QED BY <3>2, <3>3
  <2> QED BY <1>1, <2>1, <2>2, <2>3 DEF Handle
<1> QED BY <1>4, <1>5 DEF NamesStand

\* What is on its way bears the names of members only, and while no datagram
\* is repeated only what users typed, however late it arrives.
THEOREM NamesCorrect == Spec => []NamesStand
<1>1. Init => NamesStand
  BY DEF Init, NamesStand
<1>2. ASSUME IInv, InTurn, NamesStand, [Next]_vars PROVE NamesStand'
  <2>1. CASE Server
    BY <1>2, <2>1, SentNames
  <2>2. CASE UNCHANGED table /\ toClient' \subseteq toClient /\ (repeats' = 0 => repeats = 0)
    BY <1>2, <2>2, SeatsKept DEF NamesStand, table
  <2>3. ASSUME NEW c \in Client, ClientReads(c) \/ User(c)
        PROVE  UNCHANGED table /\ toClient' \subseteq toClient /\ (repeats' = 0 => repeats = 0)
    <3>1. ASSUME NEW m, Reads(c, m)
          PROVE  UNCHANGED table /\ toClient' \subseteq toClient /\ (repeats' = 0 => repeats = 0)
      BY <1>2, <3>1, UdpAssumption DEF Reads, Receive, Repeats, IInv, TypeOK
    <3>2. CASE End(c)
      BY <3>2 DEF End
    <3>3. CASE Start(c) \/ \E x \in Line : TypeLine(c, x)
      BY <3>3 DEF Start, TypeLine
    <3> QED BY <2>3, <3>1, <3>2, <3>3
            DEF ClientReads, ReadAck, ReadReg, ShowText, Refused, User, Quit
  <2>4. CASE SyscallFails \/ Lose \/ UNCHANGED vars
    BY <2>2, <2>4 DEF SyscallFails, Lose, vars, net
  <2> QED BY <1>2, <2>1, <2>2, <2>3, <2>4 DEF Next
<1> QED BY <1>1, <1>2, Invariant, ConversationsInTurn, PTL DEF Spec

===============================================================================

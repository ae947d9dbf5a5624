-------------------------------- MODULE ChatUdp --------------------------------
(***************************************************************************)
(* The UDP chat: kadai4/chatserver-udp.c and the processes that run        *)
(* kadai4/chatclient-udp.c, over a network that loses, repeats and         *)
(* reorders datagrams.  The server knows a client by its address only, and *)
(* never learns that one has gone: client_disconnected has no caller.      *)
(***************************************************************************)
EXTENDS Naturals, FiniteSets

CONSTANTS
  Client,    \* client processes, each with an address of its own
  MAXCLIENT, \* size of the table (chatserver-udp.c: 5)
  Name,      \* values a ClientInfo.name can hold
  Username,  \* the clients' user name arguments
  Stored,    \* Stored[x]: the first line of the datagram x, at most 15 bytes
  Line,      \* lines a user can type
  HELLO,     \* the datagram "HELLO\n"
  ListCmd,   \* the line "/list\n"
  NoAddr,    \* the zeroed address of a slot that was never used
  NoName,    \* the empty name
  MaxLines,  \* bound: lines each user types
  MaxRepeats \* bound: datagrams the network delivers twice

Body == Username \cup Line \cup {HELLO, ListCmd}

ASSUME UdpAssumption ==
  /\ MAXCLIENT \in Nat \ {0}
  /\ Stored \in [Body -> Name]
  /\ NoAddr \notin Client
  /\ MaxLines \in Nat
  /\ MaxRepeats \in Nat

Slot == 1 .. MAXCLIENT

VARIABLES
  addr,         \* clients[i].addr
  name,         \* clients[i].name
  status,       \* clients[i].status
  client_count, \* client_list.client_count
  up,           \* the server process runs
  toServer,     \* datagrams on their way to the server
  toClient,     \* datagrams on their way to a client
  cst,          \* where each client process is
  nick,         \* its user name argument
  typed,        \* lines its user has typed
  repeats,      \* datagrams delivered twice so far
  lost          \* some datagram has been lost

table   == <<addr, name, status, client_count>>
net     == <<toServer, toClient, repeats, lost>>
clients == <<cst, nick, typed>>
vars    == <<table, up, net, clients>>

-------------------------------------------------------------------------------
(* Datagrams.  In flight they form a set: two equal ones count as one, and *)
(* any of them may arrive next.                                            *)

Msg == [kind : {"accepted", "rejected", "registered", "nameRejected",
                "join", "chat", "entry"},
        name : Name \cup {NoName}, text : Body \cup {NoName}]

Plain(k)    == [kind |-> k, name |-> NoName, text |-> NoName]
About(k, n) == [kind |-> k, name |-> n, text |-> NoName]
Chat(n, x)  == [kind |-> "chat", name |-> n, text |-> x]

ToClient(c, m) == [to |-> c, msg |-> m]

FromClient(c, x) == [from |-> c, body |-> x]

\* One datagram of q is received, and may be received once more.
Receive(q, d) ==
  IF repeats' = repeats THEN q \ {d} ELSE q

Repeats == repeats' \in {repeats, repeats + 1} /\ repeats' <= MaxRepeats

\* A datagram for a process that has ended is dropped.
Sent(q, out) == q \cup {d \in out : cst[d.to] # "done"}

-------------------------------------------------------------------------------
(* The server.                                                             *)

Occupied == {s \in Slot : status[s] # "NONE"}
Members  == {s \in Slot : status[s] = "CONNECTED"}

\* write_all_clients, for the members S.
ToAll(S, m) == {ToClient(addr[s], m) : s \in S}

\* find_client_by_addr and find_free_slot: at most one slot each.
Find(a) ==
  {s \in Occupied : addr[s] = a /\ \A t \in Occupied : t < s => addr[t] # a}

FreeSlot == {s \in Slot : status[s] = "NONE" /\ \A t \in Slot : t < s => status[t] # "NONE"}

\* Mutant: no answer when the table is full.
NewClient_Silent(a) ==
  \/ /\ FreeSlot = {} \/ client_count >= MAXCLIENT
     /\ UNCHANGED <<table, toClient>>
  \/ /\ client_count < MAXCLIENT
     /\ \E s \in FreeSlot :
          /\ addr' = [addr EXCEPT ![s] = a]
          /\ status' = [status EXCEPT ![s] = "CONNECTING"]
          /\ name' = [name EXCEPT ![s] = NoName]
     /\ client_count' = client_count + 1
     /\ toClient' = Sent(toClient, {ToClient(a, Plain("accepted"))})

NewClient(a) ==
  \/ /\ FreeSlot = {} \/ client_count >= MAXCLIENT
     /\ toClient' = Sent(toClient, {ToClient(a, Plain("rejected"))})
     /\ UNCHANGED table
  \/ /\ client_count < MAXCLIENT
     /\ \E s \in FreeSlot :
          /\ addr' = [addr EXCEPT ![s] = a]
          /\ status' = [status EXCEPT ![s] = "CONNECTING"]
          /\ name' = [name EXCEPT ![s] = NoName]
     /\ client_count' = client_count + 1
     /\ toClient' = Sent(toClient, {ToClient(a, Plain("accepted"))})

\* Mutant: the last slot is not compared.
NameTaken_OneShort(n) == \E t \in Members : t < MAXCLIENT /\ name[t] = n

NameTaken(n) == \E t \in Members : name[t] = n

\* Mutant: the slot that bears the name is given up, not the one that asks.
RejectName_Other(s, n) ==
  /\ toClient' = Sent(toClient, {ToClient(addr[s], Plain("nameRejected"))})
  /\ \E t \in Members :
       /\ name[t] = n
       /\ status' = [status EXCEPT ![t] = "NONE"]
       /\ name' = [name EXCEPT ![t] = NoName]
  /\ client_count' = client_count - 1
  /\ UNCHANGED addr

\* Mutant: the slot is freed and stays counted, as in chatserver.c.
RejectName_Counted(s, n) ==
  /\ toClient' = Sent(toClient, {ToClient(addr[s], Plain("nameRejected"))})
  /\ status' = [status EXCEPT ![s] = "NONE"]
  /\ name' = [name EXCEPT ![s] = NoName]
  /\ UNCHANGED <<addr, client_count>>

RejectName(s, n) ==
  /\ toClient' = Sent(toClient, {ToClient(addr[s], Plain("nameRejected"))})
  /\ status' = [status EXCEPT ![s] = "NONE"]
  /\ name' = [name EXCEPT ![s] = NoName]
  /\ client_count' = client_count - 1
  /\ UNCHANGED addr

RegisterName(s, n) ==
  /\ name' = [name EXCEPT ![s] = n]
  /\ status' = [status EXCEPT ![s] = "CONNECTED"]
  /\ toClient' = Sent(toClient, {ToClient(addr[s], Plain("registered"))}
                                  \cup ToAll(Members \cup {s}, About("join", n)))
  /\ UNCHANGED <<addr, client_count>>

\* Whatever the first datagram after the acceptance says is the user name.
ReceiveUsername(s, x) ==
  \/ NameTaken(Stored[x]) /\ RejectName(s, Stored[x])
  \/ ~NameTaken(Stored[x]) /\ RegisterName(s, Stored[x])

NameList(s) == {ToClient(addr[s], About("entry", name[t])) : t \in Members}

HandleMessage(s, x) ==
  /\ toClient' = Sent(toClient, IF x = ListCmd THEN NameList(s)
                                ELSE ToAll(Members, Chat(name[s], x)))
  /\ UNCHANGED table

Handle(d) ==
  \/ Find(d.from) = {} /\ NewClient(d.from)
  \/ \E s \in Find(d.from) :
       \/ status[s] = "CONNECTING" /\ ReceiveUsername(s, d.body)
       \/ status[s] = "CONNECTED" /\ HandleMessage(s, d.body)

\* One round of the main loop; a slot found with status NONE would be skipped.
Server ==
  /\ up
  /\ \E d \in toServer :
       /\ Handle(d)
       /\ Repeats
       /\ toServer' = Receive(toServer, d)
  /\ UNCHANGED <<up, lost, clients>>

\* select() fails: exit(1), and what waits in the socket is lost.
SyscallFails ==
  /\ up
  /\ up' = FALSE
  /\ toServer' = {}
  /\ lost' = TRUE
  /\ UNCHANGED <<table, toClient, repeats, clients>>

-------------------------------------------------------------------------------
(* The clients.                                                            *)

ClientState == {"start", "awaitAck", "awaitReg", "chat", "done"}

Start(c) ==
  /\ cst[c] = "start"
  /\ cst' = [cst EXCEPT ![c] = "awaitAck"]
  /\ toServer' = toServer \cup {FromClient(c, HELLO)}
  /\ UNCHANGED <<table, up, toClient, repeats, lost, nick, typed>>

\* The process ends, its socket is closed.
End(c) ==
  /\ cst' = [cst EXCEPT ![c] = "done"]
  /\ toClient' = {d \in toClient : d.to # c}
  /\ UNCHANGED <<table, up, toServer, repeats, lost, nick, typed>>

\* The client receives the datagram with message m.
Reads(c, m) ==
  /\ ToClient(c, m) \in toClient
  /\ Repeats
  /\ toClient' = Receive(toClient, ToClient(c, m))
  /\ UNCHANGED <<table, up, lost, nick, typed>>

ReadAck(c) ==
  /\ cst[c] = "awaitAck"
  /\ \/ /\ Reads(c, Plain("accepted"))
        /\ toServer' = toServer \cup {FromClient(c, nick[c])}
        /\ cst' = [cst EXCEPT ![c] = "awaitReg"]
     \/ /\ \E d \in toClient : d.to = c /\ d.msg # Plain("accepted")
        /\ End(c)

\* Mutant: the answer is not compared with USERNAME_ACK_MSG.
ReadReg_NoCompare(c) ==
  /\ cst[c] = "awaitReg"
  /\ \E d \in toClient : d.to = c /\ Reads(c, d.msg)
  /\ cst' = [cst EXCEPT ![c] = "chat"]
  /\ UNCHANGED toServer

ReadReg(c) ==
  /\ cst[c] = "awaitReg"
  /\ \/ /\ Reads(c, Plain("registered"))
        /\ cst' = [cst EXCEPT ![c] = "chat"]
        /\ UNCHANGED toServer
     \/ /\ \E d \in toClient : d.to = c /\ d.msg # Plain("registered")
        /\ End(c)

\* The select loop: a line from the user, or a datagram to print.
TypeLine(c, x) ==
  /\ cst[c] = "chat"
  /\ typed[c] < MaxLines
  /\ typed' = [typed EXCEPT ![c] = @ + 1]
  /\ toServer' = toServer \cup {FromClient(c, x)}
  /\ UNCHANGED <<table, up, toClient, repeats, lost, cst, nick>>

ShowText(c) ==
  /\ cst[c] = "chat"
  /\ \E d \in toClient : d.to = c /\ Reads(c, d.msg)
  /\ UNCHANGED <<toServer, cst>>

\* There is no server: its host answers, and recv() or send() fails.
Refused(c) ==
  /\ cst[c] \notin {"start", "done"}
  /\ ~up
  /\ \E d \in toServer : d.from = c
  /\ End(c)

Quit(c) ==
  /\ cst[c] \notin {"start", "done"}
  /\ End(c)

ClientReads(c) == ReadAck(c) \/ ReadReg(c) \/ ShowText(c) \/ Refused(c)

User(c) == Start(c) \/ (\E x \in Line : TypeLine(c, x)) \/ Quit(c)

-------------------------------------------------------------------------------
(* The network, external.                                                  *)

Lose ==
  /\ \/ \E d \in toServer : toServer' = toServer \ {d} /\ UNCHANGED toClient
     \/ \E d \in toClient : toClient' = toClient \ {d} /\ UNCHANGED toServer
  /\ lost' = TRUE
  /\ UNCHANGED <<table, up, repeats, clients>>

Init ==
  /\ addr = [s \in Slot |-> NoAddr]
  /\ name = [s \in Slot |-> NoName]
  /\ status = [s \in Slot |-> "NONE"]
  /\ client_count = 0
  /\ up = TRUE
  /\ toServer = {}
  /\ toClient = {}
  /\ cst = [c \in Client |-> "start"]
  /\ nick \in [Client -> Username]
  /\ typed = [c \in Client |-> 0]
  /\ repeats = 0
  /\ lost = FALSE

Next ==
  \/ Server
  \/ SyscallFails
  \/ Lose
  \/ \E c \in Client : ClientReads(c) \/ User(c)

Spec == Init /\ [][Next]_vars

\* Every process that can run does; nothing obliges the users or the network.
FairSpec ==
  /\ Spec
  /\ WF_vars(Server)
  /\ \A c \in Client : WF_vars(ClientReads(c))

-------------------------------------------------------------------------------
(* Properties.                                                             *)

TypeOK ==
  /\ addr \in [Slot -> Client \cup {NoAddr}]
  /\ name \in [Slot -> Name \cup {NoName}]
  /\ status \in [Slot -> {"NONE", "CONNECTING", "CONNECTED"}]
  /\ client_count \in 0 .. MAXCLIENT
  /\ up \in BOOLEAN
  /\ toServer \subseteq [from : Client, body : Body]
  /\ toClient \subseteq [to : Client, msg : Msg]
  /\ cst \in [Client -> ClientState]
  /\ nick \in [Client -> Username]
  /\ typed \in [Client -> 0 .. MaxLines]
  /\ repeats \in 0 .. MaxRepeats
  /\ lost \in BOOLEAN

\* The counter and the table say the same after every datagram, repeated and
\* late ones included: new_client's two tests agree, and no slot is unusable.
CountExact == client_count = Cardinality(Occupied)

\* However often and late first contacts and names arrive, an address has one
\* slot only and a name one user only.
SlotsDistinct ==
  /\ \A s, t \in Occupied : s # t => addr[s] # addr[t]
  /\ \A s, t \in Members : s # t => name[s] # name[t]

\* A client that lets its user chat is a member, in spite of loss, repetition
\* and reordering; and under its own name, unless a datagram was repeated (its
\* HELLO may then have been taken for the name).
ChattersRegistered ==
  \A c \in Client : cst[c] = "chat" =>
    \E s \in Members :
      /\ addr[s] = c
      /\ repeats = 0 => name[s] = Stored[nick[c]]

\* Nothing that is on its way to anybody bears the name of somebody who is not
\* a member, and its text was not made up: a user typed it, unless a datagram
\* was repeated.
NamesStand ==
  \A d \in toClient : d.msg.name # NoName =>
    /\ \E s \in Members : name[s] = d.msg.name
    /\ d.msg.kind = "chat" /\ repeats = 0 => d.msg.text \in Line

\* A rejected name costs nobody else the seat: members stay as they are,
\* whatever arrives.
KeepsMembers ==
  \A s \in Members :
    status'[s] = "CONNECTED" /\ addr'[s] = addr[s] /\ name'[s] = name[s]

MembersStay == [][KeepsMembers]_vars

\* The handshake has no timer, so it may hang once a datagram is lost; as long
\* as none is, every client ends up chatting or gives up.
HandshakeEnds ==
  \A c \in Client :
    (cst[c] \in {"awaitAck", "awaitReg"}) ~> (cst[c] \in {"chat", "done"} \/ lost)

===============================================================================

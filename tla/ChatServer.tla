------------------------------ MODULE ChatServer ------------------------------
(***************************************************************************)
(* The TCP chat server, kadai4/chatserver.c: a single-threaded select loop *)
(* that accepts connections into a table of MAXCLIENT slots, registers     *)
(* user names and broadcasts what the registered users say.                *)
(*                                                                         *)
(* The kernel's TCP sockets and the peers at the other end are external:   *)
(* they are modelled from how chatserver.c and chatclient.c use them.  A   *)
(* peer speaks chatclient.c's protocol (user name after REQUEST ACCEPTED,  *)
(* lines after USERNAME REGISTERED) and may go away at any time.           *)
(***************************************************************************)
EXTENDS Naturals, Sequences, FiniteSets

CONSTANTS
  Conn,       \* TCP connections; each run of a client program uses a new one
  MAXCLIENT,  \* size of the table (chatserver.c: 5)
  Name,       \* values a ClientInfo.name can hold (at most 15 bytes)
  Username,   \* user names the peers send
  Stored,     \* Stored[x]: what ClientInfo.name holds of x, at most 15 bytes
  Overlong,   \* the user names of 16 bytes or more
  Line,       \* lines a user can type
  ListCmd,    \* the line "/list\n"
  Rest,       \* what follows byte 16 of an overlong user name, with its "\n"
  Junk,       \* bytes left on the stack by an earlier call
  NoSock,     \* the 0 of an unused ClientInfo.socket
  NoName,     \* the "" of an unused ClientInfo.name
  MaxLines,   \* bound: lines a user types on one connection
  MaxRead,    \* bound: pieces of input one read() returns
  SyscallsFail \* TRUE: select() and accept() may fail

\* What the peers' bytes are divided into; read() returns whole pieces.
Piece == Username \cup Line \cup {ListCmd, Rest, Junk}

ASSUME ChatAssumption ==
  /\ MAXCLIENT \in Nat \ {0}
  /\ Stored \in [Piece -> Name]
  /\ Overlong \subseteq Username
  /\ NoSock \notin Conn
  /\ MaxLines \in Nat
  /\ MaxRead \in Nat \ {0}
  /\ SyscallsFail \in BOOLEAN

Slot == 1 .. MAXCLIENT

VARIABLES
  sock,         \* clients[i].socket
  name,         \* clients[i].name
  status,       \* clients[i].status
  client_count, \* client_list.client_count
  pc,           \* where the main loop is
  ready,        \* slots of read_fds the scan has still to visit
  backlog,      \* connections completed by the kernel, not yet accepted
  link,         \* each connection as the server's kernel sees it
  inbox,        \* bytes received on each connection and not yet read
  sent,         \* everything delivered to each peer so far
  closed,       \* connections the server has closed
  named,        \* connections whose peer has sent its user name
  typed         \* lines each peer has typed

table == <<sock, name, status, client_count>>
loop  == <<pc, ready>>
peers == <<named, typed>>
vars  == <<table, loop, backlog, link, inbox, sent, closed, peers>>

-------------------------------------------------------------------------------
(* Messages the server writes.                                             *)

Msg == [kind : {"accepted", "rejected", "registered", "nameRejected",
                "join", "left", "chat", "entry"},
        name : Name \cup {NoName}, text : Seq(Piece)]

Plain(k)    == [kind |-> k, name |-> NoName, text |-> <<>>]
About(k, n) == [kind |-> k, name |-> n, text |-> <<>>]
Chat(n, t)  == [kind |-> "chat", name |-> n, text |-> t]

\* NONE is the value 0 of ClientStatus.
Occupied == {s \in Slot : status[s] # "NONE"}
Members  == {s \in Slot : status[s] = "CONNECTED"}

-------------------------------------------------------------------------------
(* write() on a socket.  link[c] is                                        *)
(*   "new"   no connection yet                                             *)
(*   "open"  the peer is there: written bytes are delivered in order       *)
(*   "fin"   the peer has closed: a write succeeds, is dropped and makes   *)
(*           the peer's kernel answer RST, now or later                    *)
(*   "rst"   the peer closed with unread input: the next operation fails   *)
(*           with ECONNRESET                                               *)
(*   "dead"  the error has been reported: a write raises SIGPIPE, whose    *)
(*           default action kills the server                               *)

Link == {"new", "open", "fin", "rst", "dead"}

\* The states in which n writes that all return can leave a link.
Survive(l, n) ==
  CASE n = 0 \/ l = "open"  -> {l}
    [] n > 0 /\ l = "fin"   -> {"fin", "dead"}
    [] n = 1 /\ l = "rst"   -> {"dead"}
    [] OTHER                -> {}

\* One of n writes can raise SIGPIPE.
MayDie(l, n) == (n > 0 /\ l = "dead") \/ (n > 1 /\ l \in {"fin", "rst"})

\* What a handler writes is a function from connections to messages:
\* ms to the connection c, or (write_all_clients) m to every slot of T.
Only(c, ms) == [d \in Conn |-> IF d = c THEN ms ELSE <<>>]

ToAll(T, m) == [d \in Conn |-> IF \E s \in T : sock[s] = d THEN <<m>> ELSE <<>>]

Nothing == [d \in Conn |-> <<>>]

\* All writes return: first those of early, then those of out, slot by slot.
\* l are the links before them.
Deliver(l, early, out) ==
  /\ link' \in {k \in [Conn -> Link] :
                  \A c \in Conn : k[c] \in Survive(l[c], Len(early[c] \o out[c]))}
  /\ sent' = [c \in Conn |->
                IF l[c] = "open" THEN sent[c] \o early[c] \o out[c] ELSE sent[c]]

\* A write of out, to slot f, kills the server: only the slots before f have
\* been served.
Killed(l, early, out) ==
  LET writes(s) == Len(early[sock[s]] \o out[sock[s]])
      served(c, f) == \E s \in Occupied : s < f /\ sock[s] = c
  IN \E f \in Occupied :
       /\ MayDie(l[sock[f]], writes(f))
       /\ \A s \in Occupied : s < f => Survive(l[sock[s]], writes(s)) # {}
       /\ sent' = [c \in Conn |->
                     IF l[c] # "open" THEN sent[c]
                     ELSE sent[c] \o early[c] \o IF served(c, f) THEN out[c] ELSE <<>>]
       /\ pc' = "killed"
       /\ link' = l
       /\ UNCHANGED <<table, ready, backlog, inbox, closed, peers>>

-------------------------------------------------------------------------------
(* The main loop.                                                          *)

Init ==
  /\ sock = [s \in Slot |-> NoSock]
  /\ name = [s \in Slot |-> NoName]
  /\ status = [s \in Slot |-> "NONE"]
  /\ client_count = 0
  /\ pc = "select"
  /\ ready = {}
  /\ backlog = <<>>
  /\ link = [c \in Conn |-> "new"]
  /\ inbox = [c \in Conn |-> <<>>]
  /\ sent = [c \in Conn |-> <<>>]
  /\ closed = {}
  /\ named = {}
  /\ typed = [c \in Conn |-> 0]

\* read() on c would not block: input, end of file or an error is pending.
\* Mutant: end of file and errors are not looked for.
Readable_NoEof(c) == inbox[c] # <<>>

Readable(c) == inbox[c] # <<>> \/ link[c] \in {"fin", "rst", "dead"}

\* Mutants: the scan ignores FD_ISSET; it forgets the clients without a name.
ReadableSlots_NoIsset == Occupied
ReadableSlots_MembersOnly == {s \in Members : Readable(sock[s])}

ReadableSlots == {s \in Occupied : Readable(sock[s])}

\* select() returns: a pending connection takes precedence over all input.
\* (When the timeout of 1 s expires nothing changes and the loop repeats.)
Select ==
  /\ pc = "select"
  /\ \/ /\ backlog # <<>>
        /\ pc' = "accept"
        /\ ready' = {}
     \/ /\ backlog = <<>>
        /\ ReadableSlots # {}
        /\ pc' = "scan"
        /\ ready' = ReadableSlots
  /\ UNCHANGED <<table, backlog, link, inbox, sent, closed, peers>>

\* select() or accept() fails: exit(1).
SyscallFails ==
  /\ SyscallsFail
  /\ pc \in {"select", "accept"}
  /\ pc' = "exited"
  /\ UNCHANGED <<table, ready, backlog, link, inbox, sent, closed, peers>>

\* The slot after s that FD_ISSET and status select, or the end of the scan.
Scanned(s) ==
  /\ ready' = ready \ {s}
  /\ pc' = IF \E t \in ready \ {s} : status'[t] # "NONE" THEN "scan" ELSE "select"

-------------------------------------------------------------------------------
(* new_client                                                              *)

\* Mutants: the loop stops one slot short; it takes any slot not yet CONNECTED.
Taken_OneShort ==
  {s \in 1 .. MAXCLIENT - 1 : status[s] = "NONE" /\ \A t \in Slot : t < s => status[t] # "NONE"}
Taken_NotConnected ==
  {s \in Slot \ Members : \A t \in Slot : t < s => t \in Members}

\* The slot the loop of new_client takes: the first one with status NONE.
Taken == {s \in Slot : status[s] = "NONE" /\ \A t \in Slot : t < s => status[t] # "NONE"}

Full == client_count >= MAXCLIENT

\* Mutant: the client is not counted.
AcceptClient_Uncounted(c) ==
  /\ ~Full
  /\ sock' = [s \in Slot |-> IF s \in Taken THEN c ELSE sock[s]]
  /\ status' = [s \in Slot |-> IF s \in Taken THEN "CONNECTING" ELSE status[s]]
  /\ Deliver(link, Nothing, Only(c, <<Plain("accepted")>>))
  /\ UNCHANGED <<name, client_count, closed>>

AcceptClient(c) ==
  /\ ~Full
  /\ sock' = [s \in Slot |-> IF s \in Taken THEN c ELSE sock[s]]
  /\ status' = [s \in Slot |-> IF s \in Taken THEN "CONNECTING" ELSE status[s]]
  /\ client_count' = IF Taken = {} THEN client_count ELSE client_count + 1
  /\ Deliver(link, Nothing, IF Taken = {} THEN Nothing ELSE Only(c, <<Plain("accepted")>>))
  /\ UNCHANGED <<name, closed>>

RejectClient(c) ==
  /\ Full
  /\ Deliver(link, Nothing, Only(c, <<Plain("rejected")>>))
  /\ closed' = closed \cup {c}
  /\ UNCHANGED table

NewClient ==
  /\ pc = "accept"
  /\ AcceptClient(Head(backlog)) \/ RejectClient(Head(backlog))
  /\ backlog' = Tail(backlog)
  /\ pc' = "select"
  /\ UNCHANGED <<ready, inbox, peers>>

-------------------------------------------------------------------------------
(* client_disconnected: read() returned 0 or, in receive_username, -1.  A  *)
(* member's own socket is closed before the broadcast, so the write to it  *)
(* fails with EBADF.                                                       *)

\* Mutant: the status is reset before it is tested.
DepartureNotice_Late(s) == Nothing

DepartureNotice(s) ==
  IF status[s] = "CONNECTED" THEN ToAll(Members \ {s}, About("left", name[s]))
  ELSE Nothing

ClientDisconnected(s, l) ==
  \/ /\ Deliver(l, Nothing, DepartureNotice(s))
     /\ closed' = closed \cup {sock[s]}
     /\ sock' = [sock EXCEPT ![s] = NoSock]
     /\ status' = [status EXCEPT ![s] = "NONE"]
     /\ client_count' = client_count - 1
     /\ Scanned(s)
     /\ UNCHANGED <<name, backlog, inbox, peers>>
  \/ Killed(l, Nothing, DepartureNotice(s))

-------------------------------------------------------------------------------
(* receive_username and register_client_name                               *)

\* Mutants: the last slot is not compared; the status of a slot is not tested.
NameTaken_OneShort(n) == \E t \in Members : t < MAXCLIENT /\ name[t] = n
NameTaken_AnyStatus(n) == \E t \in Slot : name[t] = n

NameTaken(n) == \E t \in Members : name[t] = n

RejectName(s) ==
  /\ Deliver(link, Nothing, Only(sock[s], <<Plain("nameRejected")>>))
  /\ closed' = closed \cup {sock[s]}
  /\ sock' = [sock EXCEPT ![s] = NoSock]
  /\ name' = [name EXCEPT ![s] = NoName]
  /\ status' = [status EXCEPT ![s] = "NONE"]
  /\ UNCHANGED client_count

\* USERNAME REGISTERED, then the join notice to everyone, the newcomer included.
Acknowledged(s) == Only(sock[s], <<Plain("registered")>>)

\* Mutant: the newcomer's status is set after the broadcast.
JoinNotice_Others(s, n) == ToAll(Members, About("join", n))

JoinNotice(s, n) == ToAll(Members \cup {s}, About("join", n))

RegisterName(s, n) ==
  /\ Deliver(link, Acknowledged(s), JoinNotice(s, n))
  /\ name' = [name EXCEPT ![s] = n]
  /\ status' = [status EXCEPT ![s] = "CONNECTED"]
  /\ UNCHANGED <<sock, client_count, closed>>

ReceiveUsername(s) ==
  LET c == sock[s]
      u == Head(inbox[c])
  IN /\ status[s] = "CONNECTING"
     /\ \/ /\ inbox[c] # <<>>
           /\ \/ /\ \/ NameTaken(Stored[u]) /\ RejectName(s)
                    \/ ~NameTaken(Stored[u]) /\ RegisterName(s, Stored[u])
                 /\ inbox' = [inbox EXCEPT ![c] = Tail(@)]
                 /\ Scanned(s)
                 /\ UNCHANGED <<backlog, peers>>
              \/ /\ ~NameTaken(Stored[u])
                 /\ Killed(link, Acknowledged(s), JoinNotice(s, Stored[u]))
        \/ /\ inbox[c] = <<>>
           /\ link[c] \in {"fin", "rst", "dead"}
           /\ ClientDisconnected(s, link)

-------------------------------------------------------------------------------
(* handle_massage, all_username and broadcast_message                      *)

\* all_username: the members in slot order, the one increasing enumeration.
SlotOrder ==
  {q \in [1 .. Cardinality(Members) -> Members] :
     \A i, j \in DOMAIN q : i < j => q[i] < q[j]}

NameList(q) == [i \in DOMAIN q |-> About("entry", name[q[i]])]

\* Mutant: write_other_clients in place of write_all_clients.
Reply_Others(s, text) ==
  IF text = <<ListCmd>> THEN {Only(sock[s], NameList(q)) : q \in SlotOrder}
  ELSE {ToAll(Members \ {s}, Chat(name[s], text))}

\* What handle_massage writes for the text one read() returned.
Reply(s, text) ==
  IF text = <<ListCmd>> THEN {Only(sock[s], NameList(q)) : q \in SlotOrder}
  ELSE {ToAll(Members, Chat(name[s], text))}

\* read() returned text, of which k pieces come from the inbox.
Answer(s, l, text, k) ==
  \E out \in Reply(s, text) :
    \/ /\ Deliver(l, Nothing, out)
       /\ inbox' = [inbox EXCEPT ![sock[s]] = SubSeq(@, k + 1, Len(@))]
       /\ UNCHANGED <<table, backlog, closed, peers>>
       /\ Scanned(s)
    \/ Killed(l, Nothing, out)

\* After a failed read(), message_buffer[-1] = '\0' is a write outside the
\* array.  Where that byte is padding the disconnection is handled; in the
\* committed build it is the top byte of bytes_received, which becomes
\* positive, and the stale contents of the buffer are taken for input.
ReadError(s, l) ==
  \/ ClientDisconnected(s, l)
  \/ \E text \in {<<Junk>>, <<ListCmd>>} : Answer(s, l, text, 0)

HandleMessage(s) ==
  LET c == sock[s]
  IN /\ status[s] = "CONNECTED"
     /\ \/ \E k \in 1 .. MaxRead :
             /\ k <= Len(inbox[c])
             /\ Answer(s, link, SubSeq(inbox[c], 1, k), k)
        \/ /\ inbox[c] = <<>>
           /\ link[c] \in {"fin", "dead"}
           /\ ClientDisconnected(s, link)
        \/ /\ inbox[c] = <<>>
           /\ link[c] = "rst"
           /\ ReadError(s, [link EXCEPT ![c] = "dead"])

Serve ==
  /\ pc = "scan"
  /\ \E s \in ready :
       /\ status[s] # "NONE"
       /\ \A t \in ready : t < s => status[t] = "NONE"
       /\ ReceiveUsername(s) \/ HandleMessage(s)

-------------------------------------------------------------------------------
(* The peers, external to the server.                                      *)

Connect(c) ==
  /\ link[c] = "new"
  /\ link' = [link EXCEPT ![c] = "open"]
  /\ backlog' = Append(backlog, c)
  /\ UNCHANGED <<table, loop, inbox, sent, closed, peers>>

\* A user name and its newline; only 16 bytes are read as the name.
NameLine(u) == IF u \in Overlong THEN <<u, Rest>> ELSE <<u>>

SendName(c, u) ==
  /\ link[c] = "open"
  /\ c \notin named
  /\ sent[c] = <<Plain("accepted")>>
  /\ named' = named \cup {c}
  /\ inbox' = [inbox EXCEPT ![c] = @ \o NameLine(u)]
  /\ UNCHANGED <<table, loop, backlog, link, sent, closed, typed>>

Registered(c) == Len(sent[c]) > 1 /\ sent[c][2].kind = "registered"

SendLine(c, x) ==
  /\ link[c] = "open"
  /\ Registered(c)
  /\ typed[c] < MaxLines
  /\ typed' = [typed EXCEPT ![c] = @ + 1]
  /\ inbox' = [inbox EXCEPT ![c] = Append(@, x)]
  /\ UNCHANGED <<table, loop, backlog, link, sent, closed, named>>

\* The peer closes, or is closed with its process; with unread input its
\* kernel sends RST instead of FIN.
Hangup(c) ==
  /\ link[c] = "open"
  /\ c \notin closed
  /\ \E l \in {"fin", "rst"} :
       /\ l = "rst" => sent[c] # <<>>
       /\ link' = [link EXCEPT ![c] = l]
  /\ UNCHANGED <<table, loop, backlog, inbox, sent, closed, peers>>

Peer(c) ==
  \/ Connect(c)
  \/ \E u \in Username : SendName(c, u)
  \/ \E x \in Line : SendLine(c, x)
  \/ Hangup(c)

-------------------------------------------------------------------------------
Server == Select \/ NewClient \/ Serve

Next == Server \/ SyscallFails \/ \E c \in Conn : Peer(c)

Spec == Init /\ [][Next]_vars

\* The scheduler keeps running the server; nothing obliges the peers.
FairSpec == Spec /\ WF_vars(Server)

-------------------------------------------------------------------------------
(* Safety.                                                                 *)

TypeOK ==
  /\ sock \in [Slot -> Conn \cup {NoSock}]
  /\ name \in [Slot -> Name \cup {NoName}]
  /\ status \in [Slot -> {"NONE", "CONNECTING", "CONNECTED"}]
  /\ client_count \in 0 .. MAXCLIENT
  /\ pc \in {"select", "accept", "scan", "exited", "killed"}
  /\ ready \subseteq Slot
  /\ backlog \in Seq(Conn)
  /\ link \in [Conn -> Link]
  /\ inbox \in [Conn -> Seq(Piece)]
  /\ sent \in [Conn -> Seq(Msg)]
  /\ closed \subseteq Conn
  /\ named \subseteq Conn
  /\ typed \in [Conn -> 0 .. MaxLines]

\* new_client drops an accepted descriptor without a reply when the counter
\* admits a client for whom no slot is free.  It never does: the counter is
\* never below the number of slots in use.
CountCoversSlots == Cardinality(Occupied) <= client_count

Accepted == {c \in Conn : link[c] # "new" /\ \A i \in DOMAIN backlog : backlog[i] # c}

\* The descriptors the server holds open are exactly those of the table, each
\* in one slot: none leaks, none is closed while a slot still watches it, and
\* no two slots read the same socket.
DescriptorsKept ==
  /\ Accepted \ closed = {sock[s] : s \in Occupied}
  /\ \A s, t \in Occupied : s # t => sock[s] # sock[t]

\* No two registered users have the same name, although names that differ when
\* they are sent may be cut to the same 15 bytes, several come in one scan, and
\* departed names stay in the table.
UniqueNames == \A s, t \in Members : s # t => name[s] # name[t]

\* The sockets are blocking, so a read() on one with nothing pending would stop
\* the server for everyone: each slot the scan has still to visit is readable
\* when its turn comes, whatever the slots before it made the server do.
ReadNeverBlocks ==
  pc = "scan" => \A s \in ready : status[s] # "NONE" => Readable(sock[s])

Refused == {<<Plain("rejected")>>, <<Plain("accepted"), Plain("nameRejected")>>}

\* Every peer is told in the order chatclient.c relies on: ACCEPTED before
\* anything else, REGISTERED before any broadcast, its own join notice before
\* everybody's messages and nothing after a rejection.
HandshakeOrder ==
  \A c \in Conn :
    LET m == sent[c]
    IN \/ m \in {<<>>, <<Plain("accepted")>>} \cup Refused
       \/ /\ Len(m) = 2
          /\ m = <<Plain("accepted"), Plain("registered")>>
          /\ pc = "killed"
       \/ /\ Len(m) > 2
          /\ SubSeq(m, 1, 2) = <<Plain("accepted"), Plain("registered")>>
          /\ m[3].kind = "join"
          /\ \A i \in 3 .. Len(m) : m[i].kind \in {"join", "left", "chat", "entry"}

\* What each user reads is a coherent story: once somebody has left, nothing
\* more comes from that name until it joins again, and a name that joins twice
\* has left in between.
StoryCoherent ==
  \A c \in Conn : \A i, j \in DOMAIN sent[c] :
    LET between(k) == \E x \in i + 1 .. j - 1 : sent[c][x] = About(k, sent[c][i].name)
        same == i < j /\ sent[c][i].name = sent[c][j].name
    IN /\ same /\ sent[c][i].kind = "left" /\ sent[c][j].kind \in {"chat", "left"}
            => between("join")
       /\ same /\ sent[c][i].kind = "join" /\ sent[c][j].kind = "join"
            => between("left")

\* A live user is never evicted: a slot is only given up when its peer has gone
\* or when another member bears the name it asked for.
EvictsOnlyDuplicates ==
  \A s \in Occupied :
    status'[s] = "NONE" /\ link[sock[s]] = "open" =>
      /\ status[s] = "CONNECTING"
      /\ \E t \in Members : name[t] = Stored[Head(inbox[sock[s]])]

LiveClientKept == [][EvictsOnlyDuplicates]_vars

\* A slot keeps its connection for as long as it is in use, and a member its
\* name: nothing a peer sends renames it or moves it.
KeepsSlots ==
  \A s \in Occupied :
    status'[s] # "NONE" =>
      /\ sock'[s] = sock[s]
      /\ status[s] = "CONNECTED" => status'[s] = "CONNECTED" /\ name'[s] = name[s]

SlotStable == [][KeepsSlots]_vars

-------------------------------------------------------------------------------
(* Liveness, while the server runs.                                        *)

Stopped == pc \in {"exited", "killed"}

\* A connection is never left waiting: it is accepted into a slot or rejected,
\* although new_client and the scan take turns.
ConnectionAnswered ==
  \A c \in Conn : (link[c] = "open") ~> (sent[c] # <<>> \/ link[c] # "open" \/ Stopped)

\* The slot of a peer that has gone is given up, so that somebody else can have
\* it: every way a connection can break is noticed.
SlotFreed ==
  \A c \in Conn : (link[c] \in {"fin", "rst", "dead"}) ~> (c \in closed \/ Stopped)

\* Everything a peer sends is read, however the other slots keep the scan busy.
InputRead == \A c \in Conn : (inbox[c] # <<>>) ~> (inbox[c] = <<>> \/ c \in closed \/ Stopped)

-------------------------------------------------------------------------------
(* What report4 says and the code does not do.                             *)

\* A connection is rejected only while MAXCLIENT clients are connected: the
\* counter compared in new_client is the number of clients.
RejectedOnlyWhenFull ==
  [][\A c \in Conn : sent[c] = <<>> /\ sent'[c] = <<Plain("rejected")>> =>
       Cardinality(Occupied) = MAXCLIENT]_vars

===============================================================================

--------------------------- MODULE ChatSystem_proofs ---------------------------
(***************************************************************************)
(* Proofs about the chat server with its clients: chatclient.c is a peer   *)
(* ChatServer allows, and the two ends never disagree about who is a       *)
(* member.                                                                 *)
(***************************************************************************)
EXTENDS ChatSystem, ChatServer_proofs

-------------------------------------------------------------------------------
(* The inductive invariant.                                                *)

Live == {"awaitAck", "awaitReg", "chat"}

\* A client process runs on an open connection, and has read as much as the
\* place it has reached says.
ClientsOK ==
  /\ cst \in [Conn -> {"start", "done"} \cup Live]
  /\ nick \in [Conn -> Username]
  /\ rd \in [Conn -> Nat]
  /\ \A c \in Conn :
       /\ cst[c] = "start" => link[c] = "new"
       /\ cst[c] \in Live => link[c] = "open"
       /\ cst[c] = "done" => link[c] # "new" /\ (link[c] = "open" => c \in closed)
       /\ cst[c] \in {"start", "awaitAck"} => inbox[c] = <<>> /\ rd[c] = 0
       /\ cst[c] = "awaitReg" => rd[c] = 1
       /\ cst[c] \in {"awaitReg", "chat"} => c \in Accepted
       /\ cst[c] \in {"start", "awaitAck"} => c \notin named
       /\ cst[c] = "chat" => Registered(c)

\* A connection whose peer has not said its name has been told no more than the
\* answer to its request, whether or not the server still runs.
Opening == {<<>>, <<Plain("accepted")>>, <<Plain("rejected")>>}

Unnamed(c) == inbox[c] = <<>> /\ sent[c] \in Opening

NamedInv ==
  /\ \A c \in Conn \ named : Unnamed(c)
  /\ \A s \in Members : sock[s] \in named

\* The slot s and the client at the other end of its socket are at the same
\* point of the handshake.
SlotAgrees(s) ==
  link[sock[s]] = "open" =>
    IF status[s] = "CONNECTING"
    THEN \/ cst[sock[s]] = "awaitAck"
         \/ cst[sock[s]] = "awaitReg" /\ inbox[sock[s]] = NameLine(nick[sock[s]])
    ELSE cst[sock[s]] \in {"awaitReg", "chat"} /\ name[s] = Stored[nick[sock[s]]]

\* A client that chats is a member; one whose socket the server has closed was
\* refused.
Seated      == \A c \in Conn : cst[c] = "chat" => \E s \in Members : sock[s] = c
RefusedOnly == \A c \in closed : link[c] = "open" => sent[c] \in Refused

Agree == (\A s \in Occupied : SlotAgrees(s)) /\ Seated /\ RefusedOnly

\* What the ends agree on says nothing once the server has stopped: SIGPIPE
\* leaves it between the writes of a handler.
SysInv == IInv /\ HandshakeInv /\ NamedInv /\ ClientsOK /\ (~Stopped => Agree)

-------------------------------------------------------------------------------
(* What the server's steps do to the clients' connections.                 *)

\* The connections the handler of the slot s has nothing to say to.
Aside(s) == Conn \ Sockets(Members \cup {s})

\* What has been said to a client is not unsaid.
LEMMA StaysRegistered ==
  ASSUME NEW c \in Conn, sent[c] \in Seq(Msg), Registered(c),
         NEW v \in Seq(Msg), NEW w \in Seq(Msg),
         sent'[c] = sent[c] \/ sent'[c] = sent[c] \o v \o w
  PROVE  Registered(c)'
<1> DEFINE m == sent[c]
<1>1. m \in Seq(Msg) /\ Len(m) > 1 /\ m[2].kind = "registered"
  BY DEF Registered
<1> HIDE DEF m
<1>2. Len(m \o v \o w) > 1 /\ (m \o v \o w)[2] = m[2]
  BY <1>1
<1> QED BY <1>1, <1>2 DEF Registered, m

\* Writes leave every link open or not as it was, and say nothing to those they
\* are not meant for, even if SIGPIPE interrupts them.
LEMMA WriteEffects ==
  ASSUME IInv, NEW l \in [Conn -> Link], LinksKept(link, l), SameOpen(l),
         NEW early \in [Conn -> Seq(Msg)], NEW out \in [Conn -> Seq(Msg)],
         Deliver(l, early, out) \/ Killed(l, early, out)
  PROVE  /\ LinksKept(link, link')
         /\ \A c \in Conn : link'[c] = "open" <=> link[c] = "open"
         /\ \A d \in Conn : early[d] = <<>> /\ out[d] = <<>> => sent'[d] = sent[d]
         /\ \A c \in Conn : Registered(c) => Registered(c)'
<1>1. TypeOK
  BY DEF IInv
<1>2. ASSUME NEW d \in Conn PROVE sent[d] \o <<>> \o <<>> = sent[d]
  BY <1>1 DEF TypeOK
<1>3. CASE Deliver(l, early, out)
  <2>1. LinksKept(l, link')
    BY <1>3, DeliverLinks
  <2>2. LinksKept(link, link')
    BY <2>1 DEF LinksKept
  <2>3. ASSUME NEW c \in Conn
        PROVE  /\ link'[c] = "open" <=> l[c] = "open"
               /\ l[c] = "open" => sent'[c] = sent[c] \o early[c] \o out[c]
               /\ l[c] # "open" => sent'[c] = sent[c]
    BY <1>1, <1>3, DeliverAt
  <2>4. ASSUME NEW d \in Conn, early[d] = <<>>, out[d] = <<>> PROVE sent'[d] = sent[d]
    BY <1>2, <2>3, <2>4
  <2>5. ASSUME NEW c \in Conn, Registered(c) PROVE Registered(c)'
    <3>1. sent'[c] = sent[c] \/ sent'[c] = sent[c] \o early[c] \o out[c]
      BY <2>3
    <3> QED BY <1>1, <2>5, <3>1, StaysRegistered DEF TypeOK
  <2> QED BY <2>2, <2>3, <2>4, <2>5 DEF SameOpen
<1>4. CASE Killed(l, early, out)
  <2>1. link' = l
    BY <1>4 DEF Killed
  <2>2. ASSUME NEW d \in Conn, early[d] = <<>>, out[d] = <<>> PROVE sent'[d] = sent[d]
    <3>1. \/ sent'[d] = sent[d]
          \/ sent'[d] = sent[d] \o early[d] \o out[d]
          \/ sent'[d] = sent[d] \o early[d] \o <<>>
      BY <1>4 DEF Killed
    <3> QED BY <1>2, <2>2, <3>1
  <2>3. ASSUME NEW c \in Conn, Registered(c) PROVE Registered(c)'
    <3>1. \/ sent'[c] = sent[c]
          \/ \E w \in {out[c], <<>>} : sent'[c] = sent[c] \o early[c] \o w
      BY <1>4 DEF Killed
    <3>2. out[c] \in Seq(Msg) /\ <<>> \in Seq(Msg) /\ early[c] \in Seq(Msg)
      OBVIOUS
    <3> QED BY <1>1, <2>3, <3>1, <3>2, StaysRegistered DEF TypeOK
  <2> QED BY <2>1, <2>2, <2>3 DEF SameOpen
<1> QED BY <1>3, <1>4

\* Everything the handler of s writes goes to members and to its own client.
LEMMA WrittenInside ==
  ASSUME IInv, NEW s \in Occupied
  PROVE  /\ \A d \in Aside(s) : Nothing[d] = <<>>
         /\ \A w : \A d \in Aside(s) : Only(sock[s], w)[d] = <<>>
         /\ \A m : \A d \in Aside(s) : ToAll(Members, m)[d] = <<>>
         /\ \A n : \A d \in Aside(s) : DepartureNotice(s)[d] = <<>> /\ JoinNotice(s, n)[d] = <<>>
<1>1. \A w : \A d \in Aside(s) : Only(sock[s], w)[d] = <<>>
  BY DEF Only, Aside, Sockets
<1>2. \A T \in SUBSET (Members \cup {s}) : \A m : \A d \in Aside(s) : ToAll(T, m)[d] = <<>>
  BY DEF ToAll, Aside, Sockets
<1>3. \A d \in Aside(s) : Nothing[d] = <<>>
  BY DEF Nothing, Aside
<1>4. \A n : \A d \in Aside(s) : DepartureNotice(s)[d] = <<>> /\ JoinNotice(s, n)[d] = <<>>
  BY <1>2, <1>3 DEF DepartureNotice, JoinNotice
<1>5. Members \in SUBSET (Members \cup {s})
  OBVIOUS
<1> QED BY <1>1, <1>2, <1>3, <1>4, <1>5

\* What new_client does for the connection at the head of the accept queue.
LEMMA NewClientEffects ==
  ASSUME IInv, HandshakeInv, NewClient
  PROVE  LET c == Head(backlog)
         IN /\ c \in Conn \ closed /\ c \notin Accepted /\ \A s \in Occupied : sock[s] # c
            /\ Accepted' = Accepted \cup {c}
            /\ LinksKept(link, link') /\ \A d \in Conn : link'[d] = "open" <=> link[d] = "open"
            /\ inbox' = inbox /\ name' = name /\ \A d \in Conn \ {c} : sent'[d] = sent[d]
            /\ sent'[c] \in Opening
            /\ \/ /\ closed' = closed \cup {c} /\ UNCHANGED table
                  /\ link[c] = "open" => sent'[c] \in Refused
               \/ /\ closed' = closed
                  /\ \E s \in Slot : /\ status[s] = "NONE"
                                     /\ sock' = [sock EXCEPT ![s] = c]
                                     /\ status' = [status EXCEPT ![s] = "CONNECTING"]
<1> DEFINE c == Head(backlog)
<1>1. /\ pc = "accept" /\ pc' = "select" /\ backlog' = Tail(backlog) /\ inbox' = inbox
      /\ link \in [Conn -> Link] /\ TypeOK /\ CountCoversSlots
      /\ AcceptClient(c) \/ RejectClient(c)
  BY DEF NewClient, IInv, TypeOK
<1>2. PICK k \in {"accepted", "rejected"} :
        /\ Deliver(link, Nothing, Only(c, <<Plain(k)>>)) /\ name' = name
        /\ \/ k = "rejected" /\ closed' = closed \cup {c} /\ UNCHANGED table
           \/ /\ closed' = closed
              /\ \E s \in Slot : /\ status[s] = "NONE"
                                 /\ sock' = [sock EXCEPT ![s] = c]
                                 /\ status' = [status EXCEPT ![s] = "CONNECTING"]
  <2>1. CASE RejectClient(c)
    BY <2>1 DEF RejectClient, table
  <2>2. CASE AcceptClient(c)
    <3>1. PICK s \in Slot : status[s] = "NONE" /\ Taken = {s}
      BY <1>1, <2>2, SlotForClient DEF AcceptClient
    <3>2. /\ sock' = [sock EXCEPT ![s] = c] /\ status' = [status EXCEPT ![s] = "CONNECTING"]
          /\ Deliver(link, Nothing, Only(c, <<Plain("accepted")>>)) /\ UNCHANGED <<closed, name>>
      BY <1>1, <2>2, <3>1 DEF AcceptClient, TypeOK
    <3> HIDE DEF c
    <3> QED BY <3>1, <3>2
  <2> QED BY <1>1, <2>1, <2>2
<1>3. LinksKept(link, link')
  BY <1>1, <1>2, DeliverLinks
<1>4. closed' \subseteq closed \cup {c}
  BY <1>2
<1>5. c \in Conn \ closed /\ Accepted' = Accepted \cup {c} /\ \A s \in Occupied : sock[s] # c
  BY <1>1, <1>3, <1>4, QueueHead
<1>6. c \notin Accepted
  <2>1. backlog # <<>> /\ backlog \in Seq(Conn)
    BY <1>1 DEF IInv, QueueOK, TypeOK
  <2>2. 1 \in DOMAIN backlog /\ backlog[1] = c
    BY <2>1
  <2> QED BY <2>2 DEF Accepted
<1> HIDE DEF c
<1>7. <<Plain(k)>> \in Seq(Msg)
  BY MsgTypes
<1>8. /\ \A d \in Conn : link'[d] = "open" <=> link[d] = "open"
      /\ \A d \in Conn \ {c} : sent'[d] = sent[d]
      /\ link[c] = "open" => sent'[c] = sent[c] \o <<Plain(k)>>
      /\ link[c] # "open" => sent'[c] = sent[c]
  <2>1. Deliver(link, Nothing, Only(c, <<Plain(k)>>)) /\ TypeOK /\ link \in [Conn -> Link] /\ c \in Conn
    BY <1>1, <1>2, <1>5
  <2> QED BY <1>7, <2>1, OnlyAt
<1>9. IF link[c] = "open" THEN sent'[c] = <<Plain(k)>> ELSE sent'[c] = <<>>
  <2>1. sent[c] = <<>>
    BY <1>5, <1>6 DEF HandshakeInv
  <2>2. <<>> \o <<Plain(k)>> = <<Plain(k)>>
    BY <1>7
  <2> QED BY <1>8, <2>1, <2>2
<1>10. link[c] = "open" /\ k = "rejected" => sent'[c] \in Refused
  BY <1>9 DEF Refused
<1>11. sent'[c] \in Opening
  BY <1>9 DEF Opening
<1> QED BY <1>1, <1>2, <1>3, <1>5, <1>6, <1>8, <1>10, <1>11 DEF c

\* Whatever the handler of a slot writes, it writes to members and its client.
LEMMA ServeWrites ==
  ASSUME IInv, pc = "scan", NEW s \in ready, ReceiveUsername(s) \/ HandleMessage(s)
  PROVE  /\ LinksKept(link, link')
         /\ \A c \in Conn : link'[c] = "open" <=> link[c] = "open"
         /\ backlog' = backlog
         /\ \A d \in Aside(s) : sent'[d] = sent[d]
         /\ \A d \in Conn : Registered(d) => Registered(d)'
<1> DEFINE c == sock[s]
           n == Stored[Head(inbox[c])]
           reset == [link EXCEPT ![c] = "dead"]
<1>1. s \in Slot /\ s \in Occupied /\ c \in Conn /\ inbox[c] \in Seq(Piece) /\ TypeOK
  <2>1. s \in Slot /\ s \in Occupied
    BY DEF IInv, TypeOK, Occupied, ReceiveUsername, HandleMessage
  <2> QED BY <2>1, SlotSocket DEF IInv, TypeOK
<1>2. link \in [Conn -> Link] /\ LinksKept(link, link) /\ SameOpen(link)
  BY DEF IInv, TypeOK, LinksKept, SameOpen
<1>3. link[c] = "rst" => reset \in [Conn -> Link] /\ LinksKept(link, reset) /\ SameOpen(reset)
  BY <1>1, <1>2 DEF Link, LinksKept, Broken, SameOpen
<1>4. ASSUME NEW l \in [Conn -> Link], LinksKept(link, l), SameOpen(l),
             NEW early \in [Conn -> Seq(Msg)], NEW out \in [Conn -> Seq(Msg)],
             \A d \in Aside(s) : early[d] = <<>> /\ out[d] = <<>>,
             \/ Deliver(l, early, out) /\ backlog' = backlog
             \/ Killed(l, early, out)
      PROVE  /\ LinksKept(link, link')
             /\ \A d \in Conn : link'[d] = "open" <=> link[d] = "open"
             /\ backlog' = backlog
             /\ \A d \in Aside(s) : sent'[d] = sent[d]
             /\ \A d \in Conn : Registered(d) => Registered(d)'
  <2>1. Deliver(l, early, out) \/ Killed(l, early, out)
    BY <1>4
  <2>2. backlog' = backlog
    BY <1>4 DEF Killed
  <2>3. /\ LinksKept(link, link')
        /\ \A d \in Conn : link'[d] = "open" <=> link[d] = "open"
        /\ \A d \in Conn : early[d] = <<>> /\ out[d] = <<>> => sent'[d] = sent[d]
        /\ \A d \in Conn : Registered(d) => Registered(d)'
    BY <1>4, <2>1, WriteEffects
  <2>4. \A d \in Aside(s) : sent'[d] = sent[d]
    BY <1>4, <2>3 DEF Aside
  <2> QED BY <2>2, <2>3, <2>4
<1>5. Nothing \in [Conn -> Seq(Msg)]
  BY OutTypes
<1> HIDE DEF c, n, reset
<1>6. CASE ReceiveUsername(s) /\ inbox[c] # <<>>
  <2>1. n \in Name
    <3>1. Head(inbox[c]) \in Piece
      BY <1>1, <1>6
    <3> QED BY <3>1, ChatAssumption DEF n
  <2>2. Acknowledged(s) \in [Conn -> Seq(Msg)] /\ JoinNotice(s, n) \in [Conn -> Seq(Msg)]
    BY <1>1, <2>1, WelcomeTypes DEF c
  <2>3. Only(c, <<Plain("nameRejected")>>) \in [Conn -> Seq(Msg)]
    BY <1>1, PlainOut
  <2>4. \/ Deliver(link, Nothing, Only(c, <<Plain("nameRejected")>>)) /\ backlog' = backlog
        \/ Deliver(link, Acknowledged(s), JoinNotice(s, n)) /\ backlog' = backlog
        \/ Killed(link, Acknowledged(s), JoinNotice(s, n))
    BY <1>6 DEF ReceiveUsername, RejectName, RegisterName, c, n
  <2>5. /\ \A d \in Aside(s) : Nothing[d] = <<>> /\ Only(c, <<Plain("nameRejected")>>)[d] = <<>>
        /\ \A d \in Aside(s) : Acknowledged(s)[d] = <<>> /\ JoinNotice(s, n)[d] = <<>>
    BY <1>1, WrittenInside DEF c, Acknowledged
  <2> QED BY <1>2, <1>4, <1>5, <2>2, <2>3, <2>4, <2>5
<1>7. ASSUME NEW l \in [Conn -> Link], LinksKept(link, l), SameOpen(l), ClientDisconnected(s, l)
      PROVE  /\ LinksKept(link, link')
             /\ \A d \in Conn : link'[d] = "open" <=> link[d] = "open"
             /\ backlog' = backlog
             /\ \A d \in Aside(s) : sent'[d] = sent[d]
             /\ \A d \in Conn : Registered(d) => Registered(d)'
  <2>1. DepartureNotice(s) \in [Conn -> Seq(Msg)]
    <3>1. About("left", name[s]) \in Msg
      BY <1>1, MsgTypes DEF TypeOK
    <3> QED BY <3>1, OutTypes DEF DepartureNotice, Members
  <2>2. \/ Deliver(l, Nothing, DepartureNotice(s)) /\ backlog' = backlog
        \/ Killed(l, Nothing, DepartureNotice(s))
    BY <1>7 DEF ClientDisconnected
  <2>3. \A d \in Aside(s) : Nothing[d] = <<>> /\ DepartureNotice(s)[d] = <<>>
    BY <1>1, WrittenInside
  <2> QED BY <1>4, <1>5, <1>7, <2>1, <2>2, <2>3
<1>8. ASSUME NEW l \in [Conn -> Link], LinksKept(link, l), SameOpen(l),
             NEW text \in Seq(Piece), NEW k, Answer(s, l, text, k)
      PROVE  /\ LinksKept(link, link')
             /\ \A d \in Conn : link'[d] = "open" <=> link[d] = "open"
             /\ backlog' = backlog
             /\ \A d \in Aside(s) : sent'[d] = sent[d]
             /\ \A d \in Conn : Registered(d) => Registered(d)'
  <2>1. PICK out \in Reply(s, text) :
          \/ Deliver(l, Nothing, out) /\ backlog' = backlog
          \/ Killed(l, Nothing, out)
    BY <1>8 DEF Answer
  <2>2. out \in [Conn -> Seq(Msg)]
    BY <1>1, ReplyTypes DEF c
  <2>3. \A d \in Aside(s) : out[d] = <<>>
    <3>1. \/ \E q \in SlotOrder : out = Only(sock[s], NameList(q))
          \/ out = ToAll(Members, Chat(name[s], text))
      BY DEF Reply
    <3> QED BY <1>1, <3>1, WrittenInside
  <2>4. \A d \in Aside(s) : Nothing[d] = <<>>
    BY <1>1, WrittenInside
  <2> QED BY <1>4, <1>5, <1>8, <2>1, <2>2, <2>3, <2>4
<1>9. CASE ReceiveUsername(s) /\ inbox[c] = <<>>
  <2>1. ClientDisconnected(s, link)
    BY <1>9 DEF ReceiveUsername, c
  <2> QED BY <1>2, <1>7, <2>1
<1>10. CASE HandleMessage(s)
  <2>1. \/ \E k \in 1 .. MaxRead : k <= Len(inbox[c]) /\ Answer(s, link, SubSeq(inbox[c], 1, k), k)
        \/ ClientDisconnected(s, link)
        \/ link[c] = "rst" /\ ClientDisconnected(s, reset)
        \/ link[c] = "rst" /\ \E text \in {<<Junk>>, <<ListCmd>>} : Answer(s, reset, text, 0)
    BY <1>10 DEF HandleMessage, ReadError, c, reset
  <2>2. \A k \in 1 .. MaxRead : k <= Len(inbox[c]) => SubSeq(inbox[c], 1, k) \in Seq(Piece)
    BY <1>1, ChatAssumption
  <2>3. <<Junk>> \in Seq(Piece) /\ <<ListCmd>> \in Seq(Piece)
    BY DEF Piece
  <2> QED BY <1>2, <1>3, <1>7, <1>8, <2>1, <2>2, <2>3
<1> QED BY <1>6, <1>9, <1>10

\* A handler reads from its own connection only, and adds nothing to it.
LEMMA ServeReads ==
  ASSUME IInv, NEW s \in ready, s \in Occupied, ReceiveUsername(s) \/ HandleMessage(s)
  PROVE  /\ \A d \in Conn \ {sock[s]} : inbox'[d] = inbox[d]
         /\ \A d \in Conn : inbox[d] = <<>> => inbox'[d] = <<>>
         /\ closed \subseteq closed' /\ named' = named
<1> DEFINE c == sock[s]
<1>1. c \in Conn /\ inbox \in [Conn -> Seq(Piece)]
  BY SlotSocket DEF IInv, TypeOK
<1>2. \A l : ClientDisconnected(s, l) => inbox' = inbox /\ closed \subseteq closed' /\ named' = named
  BY DEF ClientDisconnected, Killed, peers
<1>3. \A l, text, k : Answer(s, l, text, k) =>
        /\ closed' = closed /\ named' = named
        /\ inbox' = inbox \/ inbox' = [inbox EXCEPT ![c] = SubSeq(@, k + 1, Len(@))]
  BY DEF Answer, Killed, peers
<1>4. CASE ReceiveUsername(s)
  <2>1. CASE inbox[c] = <<>>
    BY <1>2, <1>4, <2>1 DEF ReceiveUsername
  <2>2. CASE inbox[c] # <<>>
    <3>1. /\ closed \subseteq closed' /\ named' = named
          /\ inbox' = inbox \/ inbox' = [inbox EXCEPT ![c] = Tail(@)]
      BY <1>4, <2>2 DEF ReceiveUsername, RejectName, RegisterName, Killed, peers
    <3> QED BY <1>1, <2>2, <3>1
  <2> QED BY <2>1, <2>2
<1>5. CASE HandleMessage(s)
  <2>1. \/ \E l : ClientDisconnected(s, l)
        \/ \E k \in 1 .. MaxRead : \E text : k <= Len(inbox[c]) /\ Answer(s, link, text, k)
        \/ inbox[c] = <<>> /\ \E l, text : Answer(s, l, text, 0)
    BY <1>5 DEF HandleMessage, ReadError
  <2>2. \A k \in 1 .. MaxRead : k <= Len(inbox[c]) => inbox[c] # <<>>
    <3>1. Len(<<>>) = 0 /\ MaxRead \in Nat
      BY ChatAssumption
    <3> QED BY <3>1
  <2>3. SubSeq(<<>>, 0 + 1, Len(<<>>)) = <<>>
    OBVIOUS
  <2>4. CASE \E l : ClientDisconnected(s, l)
    BY <1>2, <2>4
  <2>5. CASE \E k \in 1 .. MaxRead : \E text : k <= Len(inbox[c]) /\ Answer(s, link, text, k)
    BY <1>1, <1>3, <2>2, <2>5
  <2>6. CASE inbox[c] = <<>> /\ \E l, text : Answer(s, l, text, 0)
    BY <1>1, <1>3, <2>3, <2>6
  <2> QED BY <2>1, <2>4, <2>5, <2>6
<1> QED BY <1>4, <1>5

\* While the server runs, a handler answers a member, gives up its slot, or
\* makes its client a member; a live client gives up its slot with a refusal.
LEMMA ServeEffects ==
  ASSUME IInv, HandshakeInv, pc = "scan", NEW s \in ready, s \in Occupied,
         ReceiveUsername(s) \/ HandleMessage(s), ~Stopped'
  PROVE  LET c == sock[s]
         IN \/ s \in Members /\ UNCHANGED <<table, closed>>
            \/ /\ status' = [status EXCEPT ![s] = "NONE"]
               /\ sock' = [sock EXCEPT ![s] = NoSock]
               /\ \A t \in Slot \ {s} : name'[t] = name[t]
               /\ closed' = closed \cup {c}
               /\ link[c] = "open" => status[s] = "CONNECTING" /\ sent'[c] \in Refused
            \/ /\ status[s] = "CONNECTING" /\ inbox[c] # <<>>
               /\ status' = [status EXCEPT ![s] = "CONNECTED"]
               /\ name' = [name EXCEPT ![s] = Stored[Head(inbox[c])]]
               /\ UNCHANGED <<sock, closed>>
<1> DEFINE c == sock[s]
<1>1. s \in Slot /\ c \in Conn /\ TypeOK
  BY SlotSocket DEF IInv
<1>2. pc' # "killed"
  BY DEF Stopped
<1>3. \A l : ClientDisconnected(s, l) =>
        /\ status' = [status EXCEPT ![s] = "NONE"] /\ sock' = [sock EXCEPT ![s] = NoSock]
        /\ name' = name /\ closed' = closed \cup {c}
  BY <1>2 DEF ClientDisconnected, Killed
<1>4. CASE ReceiveUsername(s) /\ inbox[c] = <<>>
  <2>1. ClientDisconnected(s, link) /\ link[c] # "open"
    BY <1>4 DEF ReceiveUsername
  <2> QED BY <1>3, <2>1
<1>5. CASE ReceiveUsername(s) /\ inbox[c] # <<>>
  <2>1. status[s] = "CONNECTING" /\ (RejectName(s) \/ RegisterName(s, Stored[Head(inbox[c])]))
    BY <1>2, <1>5 DEF ReceiveUsername, Killed
  <2>2. ASSUME RejectName(s), link[c] = "open" PROVE sent'[c] \in Refused
    <3>1. sent[c] = <<Plain("accepted")>>
      <4>1. pc # "killed" /\ Told(s)
        BY <2>2 DEF HandshakeInv
      <4> QED BY <2>1, <4>1 DEF Told
    <3>2. Deliver(link, Nothing, Only(c, <<Plain("nameRejected")>>))
      BY <2>2 DEF RejectName
    <3>3. Plain("nameRejected") \in Msg
      BY MsgTypes
    <3>4. <<Plain("nameRejected")>> \in Seq(Msg) /\ link \in [Conn -> Link]
      BY <1>1, <3>3 DEF TypeOK
    <3> HIDE DEF c
    <3>5. sent'[c] = sent[c] \o <<Plain("nameRejected")>>
      BY <1>1, <2>2, <3>2, <3>4, OnlyAt
    <3>6. sent[c] \in Seq(Msg)
      BY <1>1 DEF TypeOK
    <3>7. sent'[c] = <<Plain("accepted"), Plain("nameRejected")>>
      BY <3>1, <3>3, <3>5, <3>6, Pair
    <3> QED BY <3>7 DEF Refused
  <2>3. CASE RejectName(s)
    <3>1. /\ status' = [status EXCEPT ![s] = "NONE"] /\ sock' = [sock EXCEPT ![s] = NoSock]
          /\ \A t \in Slot \ {s} : name'[t] = name[t]
          /\ closed' = closed \cup {c}
      BY <1>1, <2>3 DEF RejectName, TypeOK
    <3> QED BY <2>1, <2>2, <2>3, <3>1
  <2>4. CASE RegisterName(s, Stored[Head(inbox[c])])
    BY <1>5, <2>1, <2>4 DEF RegisterName
  <2> QED BY <2>1, <2>3, <2>4
<1>6. CASE HandleMessage(s)
  <2>1. s \in Members
    BY <1>1, <1>6 DEF HandleMessage, Members
  <2>2. \A l, text, k : Answer(s, l, text, k) => UNCHANGED <<table, closed>>
    BY DEF Answer, Killed
  <2>3. \/ link[c] # "open" /\ \E l : ClientDisconnected(s, l)
        \/ \E l, text, k : Answer(s, l, text, k)
    BY <1>6 DEF HandleMessage, ReadError
  <2> QED BY <1>3, <2>1, <2>2, <2>3
<1> QED BY <1>4, <1>5, <1>6

-------------------------------------------------------------------------------
(* The server's steps, seen by the clients.                                *)

\* Opening, breaking and the input a client has not sent are not the server's.
LEMMA ServerKeeps ==
  ASSUME IInv, HandshakeInv, Server \/ SyscallFails
  PROVE  /\ LinksKept(link, link')
         /\ \A c \in Conn : link'[c] = "open" <=> link[c] = "open"
         /\ \A c \in Conn : inbox[c] = <<>> => inbox'[c] = <<>>
         /\ closed \subseteq closed' /\ Accepted \subseteq Accepted'
         /\ named' = named /\ \A c \in Conn : Registered(c) => Registered(c)'
<1>1. CASE Select \/ SyscallFails
  <2>1. UNCHANGED <<backlog, link, inbox, sent, closed, named>>
    BY <1>1 DEF Select, SyscallFails, peers
  <2>2. LinksKept(link, link')
    BY <2>1 DEF LinksKept
  <2> QED BY <2>1, <2>2, AcceptedKept DEF Registered
<1>2. CASE NewClient
  <2> DEFINE c == Head(backlog)
  <2>1. /\ c \in Conn /\ c \notin Accepted /\ \A d \in Conn \ {c} : sent'[d] = sent[d]
        /\ LinksKept(link, link') /\ \A d \in Conn : link'[d] = "open" <=> link[d] = "open"
        /\ inbox' = inbox /\ closed \subseteq closed' /\ Accepted \subseteq Accepted'
    BY <1>2, NewClientEffects
  <2>2. named' = named
    BY <1>2 DEF NewClient, peers
  <2>3. ~ Registered(c)
    <3>1. Len(<<>>) = 0 /\ sent[c] = <<>>
      BY <2>1 DEF HandshakeInv
    <3> QED BY <3>1 DEF Registered
  <2> HIDE DEF c
  <2>4. \A d \in Conn : Registered(d) => Registered(d)'
    BY <2>1, <2>3 DEF Registered
  <2> QED BY <2>1, <2>2, <2>4
<1>3. CASE Serve
  <2>1. PICK s \in ready : status[s] # "NONE" /\ (ReceiveUsername(s) \/ HandleMessage(s))
    BY <1>3 DEF Serve
  <2>2. s \in Occupied /\ pc = "scan"
    BY <1>3, <2>1 DEF Serve, Occupied, IInv, TypeOK
  <2>3. /\ LinksKept(link, link') /\ backlog' = backlog
        /\ \A c \in Conn : link'[c] = "open" <=> link[c] = "open"
        /\ \A c \in Conn : Registered(c) => Registered(c)'
    BY <2>1, <2>2, ServeWrites
  <2>4. closed \subseteq closed' /\ named' = named /\ \A c \in Conn : inbox[c] = <<>> => inbox'[c] = <<>>
    BY <2>1, <2>2, ServeReads
  <2> QED BY <2>3, <2>4, AcceptedKept
<1> QED BY <1>1, <1>2, <1>3 DEF Server

\* The client processes are where the server's step found them.
LEMMA ServerClients ==
  ASSUME IInv, HandshakeInv, ClientsOK, Server \/ SyscallFails, UNCHANGED clients
  PROVE  ClientsOK'
<1>1. cst' = cst /\ nick' = nick /\ rd' = rd
  BY DEF clients
<1>2. ASSUME NEW c \in Conn
      PROVE  /\ cst[c] = "start" => link'[c] = "new"
             /\ cst[c] \in Live => link'[c] = "open"
             /\ cst[c] = "done" => link'[c] # "new" /\ (link'[c] = "open" => c \in closed')
             /\ cst[c] \in {"start", "awaitAck"} => inbox'[c] = <<>> /\ rd[c] = 0
             /\ cst[c] \in {"awaitReg", "chat"} => c \in Accepted'
             /\ cst[c] \in {"start", "awaitAck"} => c \notin named'
             /\ cst[c] = "chat" => Registered(c)'
  BY ServerKeeps DEF ClientsOK, LinksKept
<1> QED BY <1>1, <1>2 DEF ClientsOK

\* A slot given up before a name came is given up without a word.
LEMMA DepartsUnheard ==
  ASSUME IInv, NEW s \in Occupied, status[s] = "CONNECTING", ClientDisconnected(s, link)
  PROVE  \A d \in Conn : sent'[d] = sent[d]
<1>1. DepartureNotice(s) = Nothing /\ Nothing \in [Conn -> Seq(Msg)]
  BY OutTypes DEF DepartureNotice
<1>2. Deliver(link, Nothing, Nothing) \/ Killed(link, Nothing, Nothing)
  BY <1>1 DEF ClientDisconnected
<1>3. link \in [Conn -> Link] /\ LinksKept(link, link) /\ SameOpen(link)
  BY DEF IInv, TypeOK, LinksKept, SameOpen
<1>4. \A d \in Conn : Nothing[d] = <<>>
  BY DEF Nothing
<1> QED BY <1>1, <1>2, <1>3, <1>4, WriteEffects

\* The server says nothing more to a client that has not said its name than
\* whether it is accepted, and makes no member of it.
LEMMA ServerNamed ==
  ASSUME IInv, HandshakeInv, NamedInv, Server \/ SyscallFails
  PROVE  NamedInv'
<1>1. Opening' = Opening /\ TypeOK
  BY DEF Opening, Plain, IInv
<1>2. CASE Select \/ SyscallFails
  BY <1>1, <1>2 DEF Select, SyscallFails, table, peers, NamedInv, Unnamed, Members
<1>3. CASE NewClient
  <2> DEFINE c == Head(backlog)
  <2>1. /\ c \in Conn /\ sent'[c] \in Opening /\ inbox' = inbox
        /\ \A d \in Conn \ {c} : sent'[d] = sent[d]
        /\ \/ UNCHANGED table
           \/ \E s \in Slot : /\ status[s] = "NONE" /\ sock' = [sock EXCEPT ![s] = c]
                              /\ status' = [status EXCEPT ![s] = "CONNECTING"]
    BY <1>3, NewClientEffects
  <2> HIDE DEF c
  <2>2. named' = named
    BY <1>3 DEF NewClient, peers
  <2>3. \A d \in Conn \ named' : Unnamed(d)'
    BY <1>1, <2>1, <2>2 DEF NamedInv, Unnamed
  <2>4. \A s \in Members' : s \in Members /\ sock'[s] = sock[s]
    BY <1>1, <2>1 DEF Members, table, TypeOK
  <2> QED BY <2>2, <2>3, <2>4 DEF NamedInv
<1>4. CASE Serve
  <2>1. PICK s \in ready : status[s] # "NONE" /\ (ReceiveUsername(s) \/ HandleMessage(s))
    BY <1>4 DEF Serve
  <2>2. s \in Slot /\ s \in Occupied /\ pc = "scan" /\ sock[s] \in Conn
    BY <1>4, <2>1, SlotSocket DEF Serve, Occupied, IInv, TypeOK
  <2>3. /\ named' = named /\ \A d \in Conn : inbox[d] = <<>> => inbox'[d] = <<>>
        /\ \A d \in Aside(s) : sent'[d] = sent[d]
    BY <2>1, <2>2, ServeWrites, ServeReads
  <2>4. CASE sock[s] \in named
    <3>1. \A d \in Conn \ named : d \in Aside(s)
      BY <2>4 DEF NamedInv, Aside, Sockets
    <3>2. \A d \in Conn \ named' : Unnamed(d)'
      BY <1>1, <2>3, <3>1 DEF NamedInv, Unnamed
    <3>3. \A t \in Members' : (t \in Members \/ t = s) /\ sock'[t] = sock[t]
      BY <1>1, <2>1, <2>2, HandlerEffects DEF Members, table, TypeOK
    <3> QED BY <2>3, <2>4, <3>2, <3>3 DEF NamedInv
  <2>5. CASE sock[s] \notin named
    <3>1. inbox[sock[s]] = <<>> /\ s \notin Members
      BY <2>2, <2>5 DEF NamedInv, Unnamed
    <3>2. status[s] = "CONNECTING" /\ ClientDisconnected(s, link)
      BY <2>1, <2>2, <3>1 DEF Members, HandleMessage, ReceiveUsername
    <3>3. \A d \in Conn : sent'[d] = sent[d]
      BY <2>2, <3>2, DepartsUnheard
    <3>4. \A d \in Conn \ named' : Unnamed(d)'
      BY <1>1, <2>3, <3>3 DEF NamedInv, Unnamed
    <3>5. \A t \in Members' : t \in Members /\ sock'[t] = sock[t]
      BY <1>1, <2>2, <3>2 DEF ClientDisconnected, Killed, Members, table, TypeOK
    <3> QED BY <2>3, <3>4, <3>5 DEF NamedInv
  <2> QED BY <2>4, <2>5
<1> QED BY <1>2, <1>3, <1>4 DEF Server

\* A peer's own steps: it says its name first.
LEMMA PeerNamed ==
  ASSUME TypeOK, NamedInv, NEW c \in Conn, [Peer(c)]_vars
  PROVE  NamedInv'
<1>1. UNCHANGED <<table, sent>>
  BY DEF Peer, Connect, SendName, SendLine, Hangup, vars
<1>2. \/ UNCHANGED <<inbox, named>>
      \/ /\ c \in named' /\ named \subseteq named'
         /\ \A d \in Conn \ {c} : inbox'[d] = inbox[d]
  <2>1. CASE \E u \in Username : SendName(c, u)
    BY <2>1 DEF SendName, TypeOK
  <2>2. CASE \E x \in Line : SendLine(c, x)
    <3>1. Registered(c) /\ named' = named /\ \A d \in Conn \ {c} : inbox'[d] = inbox[d]
      BY <2>2 DEF SendLine, TypeOK
    <3>2. Len(<<>>) = 0 /\ Len(<<Plain("accepted")>>) = 1 /\ Len(<<Plain("rejected")>>) = 1
      OBVIOUS
    <3>3. c \in named
      BY <3>1, <3>2 DEF Registered, NamedInv, Unnamed, Opening
    <3> QED BY <3>1, <3>3
  <2>3. CASE Connect(c) \/ Hangup(c) \/ UNCHANGED vars
    BY <2>3 DEF Connect, Hangup, vars, peers
  <2> QED BY <2>1, <2>2, <2>3 DEF Peer
<1>3. Opening' = Opening /\ Members' = Members
  BY <1>1 DEF Opening, Plain, Members, table
<1> QED BY <1>1, <1>2, <1>3 DEF NamedInv, Unnamed, table

\* new_client gives a slot to a client that waits for its answer, or refuses it.
LEMMA NewClientAgrees ==
  ASSUME IInv, HandshakeInv, ClientsOK, Agree, NewClient, UNCHANGED clients
  PROVE  Agree'
<1> DEFINE c == Head(backlog)
<1>1. /\ c \in Conn \ closed /\ c \notin Accepted /\ \A s \in Occupied : sock[s] # c
      /\ \A d \in Conn : link'[d] = "open" <=> link[d] = "open"
      /\ inbox' = inbox /\ name' = name /\ \A d \in Conn \ {c} : sent'[d] = sent[d]
      /\ \/ /\ closed' = closed \cup {c} /\ UNCHANGED table
            /\ link[c] = "open" => sent'[c] \in Refused
         \/ /\ closed' = closed
            /\ \E s \in Slot : /\ status[s] = "NONE"
                               /\ sock' = [sock EXCEPT ![s] = c]
                               /\ status' = [status EXCEPT ![s] = "CONNECTING"]
  BY NewClientEffects
<1> HIDE DEF c
<1>2. cst' = cst /\ nick' = nick /\ TypeOK
  BY DEF clients, IInv
<1>3. RefusedOnly'
  <2>1. ASSUME NEW d \in closed', link'[d] = "open" PROVE sent'[d] \in Refused
    <3>1. CASE d \in closed
      <4>1. d \in Conn /\ d # c /\ link[d] = "open"
        BY <1>1, <1>2, <2>1, <3>1 DEF TypeOK
      <4>2. sent[d] \in Refused /\ sent'[d] = sent[d]
        BY <1>1, <3>1, <4>1 DEF Agree, RefusedOnly
      <4> QED BY <4>2
    <3>2. CASE d \notin closed
      BY <1>1, <2>1, <3>2
    <3> QED BY <3>1, <3>2
  <2>2. Refused' = Refused
    BY DEF Refused, Plain
  <2> QED BY <2>1, <2>2 DEF RefusedOnly
<1>4. ASSUME NEW s \in Occupied
      PROVE  s \in Slot /\ status'[s] = status[s] /\ sock'[s] = sock[s] /\ sock[s] \in Conn
  BY <1>1, <1>2, SlotSocket DEF table, Occupied, TypeOK
<1>5. Seated'
  <2>1. Members \subseteq Occupied /\ \A s \in Members : s \in Members'
    BY <1>4 DEF Members, Occupied
  <2> QED BY <1>2, <1>4, <2>1 DEF Agree, Seated
<1>6. ASSUME NEW s \in Occupied' PROVE SlotAgrees(s)'
  <2>1. CASE s \in Occupied
    <3>1. SlotAgrees(s)
      BY <2>1 DEF Agree
    <3>2. status'[s] = status[s] /\ sock'[s] = sock[s] /\ sock[s] \in Conn
      BY <2>1, <1>4
    <3> QED BY <1>1, <1>2, <3>1, <3>2 DEF SlotAgrees
  <2>2. CASE s \notin Occupied
    <3>1. s \in Slot /\ sock'[s] = c /\ status'[s] = "CONNECTING"
      BY <1>1, <1>2, <2>2 DEF table, Occupied, TypeOK
    <3>2. link[c] = "open" => cst[c] = "awaitAck"
      BY <1>1 DEF ClientsOK, Live
    <3> QED BY <1>1, <1>2, <3>1, <3>2 DEF SlotAgrees
  <2> QED BY <2>1, <2>2
<1> QED BY <1>3, <1>5, <1>6 DEF Agree

\* A handler makes a member of a client that has sent its name, under that
\* name, and gives up the slots of clients it refuses or that are gone.
LEMMA ServeAgrees ==
  ASSUME IInv, HandshakeInv, ClientsOK, Agree, ~Stopped', pc = "scan",
         NEW s \in ready, s \in Occupied, ReceiveUsername(s) \/ HandleMessage(s),
         UNCHANGED clients
  PROVE  Agree'
<1> DEFINE c == sock[s]
<1>1. cst' = cst /\ nick' = nick /\ TypeOK /\ c \in Conn /\ s \in Slot
  BY SlotSocket DEF clients, IInv
<1>2. /\ \A d \in Conn : link'[d] = "open" <=> link[d] = "open"
      /\ \A d \in Aside(s) : sent'[d] = sent[d]
      /\ \A d \in Conn \ {c} : inbox'[d] = inbox[d]
  BY ServeWrites, ServeReads
<1>3. \/ s \in Members /\ UNCHANGED <<table, closed>>
      \/ /\ status' = [status EXCEPT ![s] = "NONE"]
         /\ sock' = [sock EXCEPT ![s] = NoSock]
         /\ \A t \in Slot \ {s} : name'[t] = name[t]
         /\ closed' = closed \cup {c}
         /\ link[c] = "open" => status[s] = "CONNECTING" /\ sent'[c] \in Refused
      \/ /\ status[s] = "CONNECTING" /\ inbox[c] # <<>>
         /\ status' = [status EXCEPT ![s] = "CONNECTED"]
         /\ name' = [name EXCEPT ![s] = Stored[Head(inbox[c])]]
         /\ UNCHANGED <<sock, closed>>
  BY ServeEffects
<1> HIDE DEF c
<1>4. \A d \in closed : d \in Aside(s)
  <2>1. closed \subseteq Conn /\ \A t \in Occupied : sock[t] \notin closed
    BY <1>1 DEF TypeOK, IInv, DescriptorsKept
  <2>2. Members \cup {s} \subseteq Occupied
    BY DEF Members, Occupied
  <2> QED BY <2>1, <2>2 DEF Aside, Sockets
<1>5. RefusedOnly'
  <2>1. ASSUME NEW d \in closed', link'[d] = "open" PROVE sent'[d] \in Refused
    <3>1. CASE d \in closed
      <4>1. d \in Conn /\ link[d] = "open" /\ sent'[d] = sent[d]
        BY <1>2, <1>4, <2>1, <3>1 DEF Aside
      <4> QED BY <3>1, <4>1 DEF Agree, RefusedOnly
    <3>2. CASE d \notin closed
      BY <1>1, <1>2, <1>3, <2>1, <3>2
    <3> QED BY <3>1, <3>2
  <2>2. Refused' = Refused
    BY DEF Refused, Plain
  <2> QED BY <2>1, <2>2 DEF RefusedOnly
<1>6. ASSUME NEW t \in Members, link[sock[t]] = "open"
      PROVE  t \in Members' /\ sock'[t] = sock[t]
  BY <1>1, <1>3, <1>6 DEF Members, table, TypeOK, c
<1>7. Seated'
  <2>1. ASSUME NEW d \in Conn, cst[d] = "chat" PROVE \E t \in Members' : sock'[t] = d
    <3>1. link[d] = "open"
      BY <2>1 DEF ClientsOK, Live
    <3>2. PICK t \in Members : sock[t] = d
      BY <2>1 DEF Agree, Seated
    <3> QED BY <1>6, <3>1, <3>2
  <2> QED BY <1>1, <2>1 DEF Seated
<1>8. ASSUME NEW t \in Occupied', t # s PROVE SlotAgrees(t)'
  <2>1. t \in Slot /\ status'[t] = status[t] /\ sock'[t] = sock[t] /\ name'[t] = name[t]
    BY <1>1, <1>3, <1>8 DEF Occupied, table, TypeOK
  <2>2. t \in Occupied
    BY <2>1 DEF Occupied
  <2>3. sock[t] \in Conn /\ sock[t] # c /\ SlotAgrees(t)
    BY <1>8, <2>2, SlotSocket DEF Agree, c
  <2> QED BY <1>1, <1>2, <2>1, <2>3 DEF SlotAgrees
<1>9. ASSUME s \in Occupied' PROVE SlotAgrees(s)'
  <2>1. SlotAgrees(s)
    BY DEF Agree
  <2>2. CASE s \in Members /\ UNCHANGED <<table, closed>>
    <3>1. status[s] = "CONNECTED" /\ UNCHANGED <<status, sock, name>>
      BY <2>2 DEF Members, table
    <3> QED BY <1>1, <1>2, <2>1, <3>1 DEF SlotAgrees, c
  <2>3. CASE status' = [status EXCEPT ![s] = "NONE"]
    BY <1>1, <1>9, <2>3 DEF Occupied, TypeOK
  <2>4. CASE /\ status[s] = "CONNECTING" /\ inbox[c] # <<>>
             /\ status' = [status EXCEPT ![s] = "CONNECTED"]
             /\ name' = [name EXCEPT ![s] = Stored[Head(inbox[c])]]
             /\ UNCHANGED <<sock, closed>>
    <3>1. status'[s] = "CONNECTED" /\ name'[s] = Stored[Head(inbox[c])] /\ sock'[s] = c
      BY <1>1, <2>4 DEF TypeOK, c
    <3>2. CASE link[c] = "open"
      <4>1. cst[c] = "awaitReg" /\ inbox[c] = NameLine(nick[c])
        BY <1>1, <2>1, <2>4, <3>2 DEF SlotAgrees, ClientsOK, c
      <4>2. Head(inbox[c]) = nick[c]
        BY <4>1 DEF NameLine
      <4> QED BY <1>1, <3>1, <4>1, <4>2 DEF SlotAgrees
    <3>3. CASE link[c] # "open"
      BY <1>1, <1>2, <3>1, <3>3 DEF SlotAgrees
    <3> QED BY <3>2, <3>3
  <2> QED BY <1>3, <2>2, <2>3, <2>4
<1> QED BY <1>5, <1>7, <1>8, <1>9 DEF Agree

\* The server's step keeps the ends in agreement, unless it stops.
LEMMA ServerAgrees ==
  ASSUME IInv, HandshakeInv, ClientsOK, ~Stopped => Agree, ServerStep
  PROVE  ~Stopped' => Agree'
<1> SUFFICES ASSUME ~Stopped' PROVE Agree'
  OBVIOUS
<1>1. ~Stopped
  BY DEF ServerStep, Server, Select, NewClient, Serve, SyscallFails, Stopped
<1>2. UNCHANGED clients /\ (Server \/ SyscallFails)
  BY DEF ServerStep
<1>3. CASE Select \/ SyscallFails
  <2>1. UNCHANGED <<sock, name, status, link, inbox, sent, closed>> /\ cst' = cst /\ nick' = nick
    BY <1>2, <1>3 DEF Select, SyscallFails, table, clients
  <2>2. Agree
    BY <1>1
  <2> QED BY <2>1, <2>2 DEF Agree, SlotAgrees, Seated, RefusedOnly, Refused, Occupied, Members,
                           NameLine, Plain
<1>4. CASE NewClient
  BY <1>1, <1>2, <1>4, NewClientAgrees
<1>5. CASE Serve
  <2>1. PICK s \in ready : status[s] # "NONE" /\ (ReceiveUsername(s) \/ HandleMessage(s))
    BY <1>5 DEF Serve
  <2>2. s \in Occupied /\ pc = "scan"
    BY <1>5, <2>1 DEF Serve, Occupied, IInv, TypeOK
  <2> QED BY <1>1, <1>2, <2>1, <2>2, ServeAgrees
<1> QED BY <1>2, <1>3, <1>4, <1>5 DEF Server

-------------------------------------------------------------------------------
(* The clients' steps, seen by the server.                                 *)

\* While it is open, a connection that has been told REGISTERED is a member's.
LEMMA RegisteredIsMember ==
  ASSUME IInv, HandshakeInv, ~Stopped, Agree, NEW c \in Conn, link[c] = "open",
         c \in Accepted, Len(sent[c]) > 1, sent[c][2] = Plain("registered")
  PROVE  \E s \in Members : sock[s] = c
<1>1. sent[c] \notin Refused
  <2>1. Len(<<Plain("rejected")>>) = 1
        /\ <<Plain("accepted"), Plain("nameRejected")>>[2] = Plain("nameRejected")
    OBVIOUS
  <2> QED BY <2>1 DEF Refused, Plain
<1>2. c \in Accepted \ closed
  BY <1>1 DEF Agree, RefusedOnly
<1>3. PICK s \in Occupied : sock[s] = c
  BY <1>2 DEF IInv, DescriptorsKept
<1>4. Told(s)
  BY <1>3 DEF HandshakeInv, Stopped
<1>5. Len(<<Plain("accepted")>>) = 1
  OBVIOUS
<1>6. status[s] # "CONNECTING"
  BY <1>3, <1>4, <1>5 DEF Told
<1> QED BY <1>3, <1>6 DEF Occupied, Members, IInv, TypeOK

\* A client's read of an unread message looks at what was delivered to it.
LEMMA UnreadHead ==
  ASSUME TypeOK, ClientsOK, NEW c \in Conn, Unread(c) # <<>>
  PROVE  /\ rd[c] \in Nat /\ Len(sent[c]) \in Nat /\ rd[c] < Len(sent[c])
         /\ Head(Unread(c)) = sent[c][rd[c] + 1]
         /\ Len(Unread(c)) = Len(sent[c]) - rd[c]
<1> DEFINE m == sent[c]
           r == rd[c]
<1>1. m \in Seq(Msg) /\ r \in Nat
  BY DEF TypeOK, ClientsOK
<1> HIDE DEF m, r
<1>2. Len(m) \in Nat
  BY <1>1
<1>3. r < Len(m)
  <2>1. CASE r >= Len(m)
    <3>1. SubSeq(m, r + 1, Len(m)) = <<>>
      BY <1>1, <1>2, <2>1
    <3> QED BY <3>1 DEF Unread, m, r
  <2> QED BY <1>1, <1>2, <2>1
<1>4. /\ SubSeq(m, r + 1, Len(m)) \in Seq(Msg)
      /\ Len(SubSeq(m, r + 1, Len(m))) = Len(m) - r
      /\ SubSeq(m, r + 1, Len(m))[1] = m[r + 1]
  BY <1>1, <1>2, <1>3
<1>5. Head(SubSeq(m, r + 1, Len(m))) = m[r + 1]
  BY <1>1, <1>2, <1>3, <1>4
<1> QED BY <1>1, <1>2, <1>3, <1>4, <1>5 DEF Unread, m, r

\* A client that ends closes its connection, if the server has not: a hangup.
LEMMA EndIsHangup ==
  ASSUME IInv, ClientsOK, NEW c \in Conn, cst[c] \in Live, NEW r \in Nat, End(c, r)
  PROVE  [Hangup(c)]_vars
<1>1. link[c] = "open" /\ sent[c] \in Seq(Msg) /\ link \in [Conn -> Link]
  BY DEF ClientsOK, IInv, TypeOK
<1>2. UNCHANGED <<table, loop, backlog, inbox, sent, closed, peers>>
  BY DEF End
<1>3. CASE c \in closed
  BY <1>2, <1>3 DEF End, vars
<1>4. CASE c \notin closed
  <2>1. link' = [link EXCEPT ![c] = IF r < Len(sent[c]) THEN "rst" ELSE "fin"]
    BY <1>4 DEF End
  <2>2. r < Len(sent[c]) => sent[c] # <<>>
    <3>1. Len(<<>>) = 0
      OBVIOUS
    <3> QED BY <3>1
  <2>3. CASE r < Len(sent[c])
    BY <1>1, <1>2, <1>4, <2>1, <2>2, <2>3 DEF Hangup
  <2>4. CASE ~ (r < Len(sent[c]))
    BY <1>1, <1>2, <1>4, <2>1, <2>4 DEF Hangup
  <2> QED BY <2>3, <2>4
<1> QED BY <1>3, <1>4

\* The steps a client can make: it connects, sends its name in turn, is
\* registered, sends a line as a registered peer may, shows what it reads, or ends.
ClientEffects(c) ==
  \/ ClientConnect(c)
  \/ /\ cst[c] = "awaitAck" /\ SendName(c, nick[c])
     /\ cst' = [cst EXCEPT ![c] = "awaitReg"] /\ rd' = [rd EXCEPT ![c] = 1] /\ nick' = nick
  \/ /\ cst[c] = "awaitReg" /\ Len(sent[c]) > 1 /\ sent[c][2] = Plain("registered")
     /\ cst' = [cst EXCEPT ![c] = "chat"] /\ rd' \in [Conn -> Nat] /\ UNCHANGED <<vars, nick>>
     /\ \A d \in Conn \ {c} : rd'[d] = rd[d]
  \/ cst[c] = "chat" /\ (\E x \in Line : SendLine(c, x)) /\ UNCHANGED clients
  \/ /\ cst[c] = "chat" /\ rd' \in [Conn -> Nat] /\ UNCHANGED <<vars, cst, nick>>
     /\ \A d \in Conn \ {c} : rd'[d] = rd[d]
  \/ cst[c] \in Live /\ \E r \in Nat : End(c, r)

LEMMA ClientSteps ==
  ASSUME IInv, NamedInv, ClientsOK, NEW c \in Conn, ClientReads(c) \/ User(c)
  PROVE  ClientEffects(c)
<1>1. TypeOK /\ rd \in [Conn -> Nat] /\ rd[c] \in Nat
  BY DEF IInv, ClientsOK
<1>2. \A k \in 1 .. Len(Unread(c)) : Unread(c) # <<>>
  <2>1. Len(<<>>) = 0
    OBVIOUS
  <2> QED BY <2>1
<1>3. ASSUME NEW k \in 1 .. Len(Unread(c))
      PROVE  rd[c] + k \in Nat /\ [rd EXCEPT ![c] = @ + k] \in [Conn -> Nat]
  <2>1. k \in Nat
    OBVIOUS
  <2> QED BY <1>1, <2>1
<1>4. CASE ReadAck(c)
  <2>1. cst[c] = "awaitAck" /\ Unread(c) # <<>> /\ link[c] = "open" /\ c \notin named /\ rd[c] = 0
    BY <1>4 DEF ReadAck, ClientsOK, Live
  <2>2. CASE Head(Unread(c)) = Plain("accepted")
    <3>1. 0 < Len(sent[c]) /\ sent[c][1] = Plain("accepted")
      BY <1>1, <2>1, <2>2, UnreadHead
    <3>2. sent[c] = <<Plain("accepted")>>
      <4>1. sent[c] \in Opening
        BY <2>1 DEF NamedInv, Unnamed
      <4>2. Len(<<>>) = 0 /\ <<Plain("rejected")>>[1] = Plain("rejected")
            /\ Plain("rejected") # Plain("accepted")
        BY DEF Plain
      <4> QED BY <3>1, <4>1, <4>2 DEF Opening
    <3>3. SendName(c, nick[c])
      BY <1>4, <2>1, <2>2, <3>2 DEF ReadAck, Writes, SendName
    <3> QED BY <1>4, <2>1, <2>2, <3>3 DEF ReadAck, ClientEffects
  <2>3. CASE Head(Unread(c)) # Plain("accepted")
    BY <1>4, <2>1, <2>3 DEF ReadAck, ClientEffects, Live
  <2> QED BY <2>2, <2>3
<1>5. CASE ReadReg(c)
  <2>1. PICK k \in 1 .. Len(Unread(c)) :
          \/ /\ Head(Unread(c)) = Plain("registered")
             /\ cst' = [cst EXCEPT ![c] = "chat"]
             /\ rd' = [rd EXCEPT ![c] = @ + k]
             /\ UNCHANGED <<vars, nick>>
          \/ End(c, rd[c] + k)
    BY <1>5 DEF ReadReg
  <2>2. cst[c] = "awaitReg" /\ rd[c] = 1
    BY <1>5 DEF ReadReg, ClientsOK
  <2>3. CASE End(c, rd[c] + k)
    BY <1>3, <2>2, <2>3 DEF ClientEffects, Live
  <2>4. CASE ~ End(c, rd[c] + k)
    <3>1. Len(sent[c]) > 1 /\ Head(Unread(c)) = sent[c][2]
      BY <1>1, <1>2, <2>2, UnreadHead
    <3>2. /\ Head(Unread(c)) = Plain("registered") /\ cst' = [cst EXCEPT ![c] = "chat"]
          /\ UNCHANGED <<vars, nick>> /\ rd' = [rd EXCEPT ![c] = @ + k]
      BY <2>1, <2>4
    <3>3. rd' \in [Conn -> Nat] /\ \A d \in Conn \ {c} : rd'[d] = rd[d]
      BY <1>1, <1>3, <3>2
    <3> QED BY <2>2, <3>1, <3>2, <3>3 DEF ClientEffects
  <2> QED BY <2>3, <2>4
<1>6. CASE ShowText(c)
  <2>1. PICK k \in 1 .. Len(Unread(c)) : rd' = [rd EXCEPT ![c] = @ + k]
    BY <1>6 DEF ShowText
  <2>2. rd' \in [Conn -> Nat] /\ \A d \in Conn \ {c} : rd'[d] = rd[d]
    BY <1>1, <1>3, <2>1
  <2> QED BY <1>6, <2>2 DEF ShowText, ClientEffects
<1>7. CASE EndOfFile(c) \/ Quit(c)
  BY <1>1, <1>7 DEF EndOfFile, Quit, ClientEffects, Live
<1>8. ASSUME NEW x \in Line, TypeLine(c, x) PROVE ClientEffects(c)
  <2>1. cst[c] = "chat" /\ link[c] = "open" /\ Registered(c)
    BY <1>8 DEF TypeLine, ClientsOK, Live
  <2>2. inbox[c] \o <<x>> = Append(inbox[c], x)
    <3>1. inbox[c] \in Seq(Piece) /\ x \in Piece
      BY <1>1 DEF TypeOK, Piece
    <3> QED BY <3>1
  <2>3. SendLine(c, x) /\ UNCHANGED clients
    BY <1>8, <2>1, <2>2 DEF TypeLine, Writes, SendLine
  <2> QED BY <2>1, <2>3 DEF ClientEffects
<1> QED BY <1>4, <1>5, <1>6, <1>7, <1>8 DEF ClientReads, User, ClientEffects

\* A client process is a peer: each of its steps is one, or is not seen.
LEMMA ClientIsPeer ==
  ASSUME IInv, ClientsOK, NEW c \in Conn, ClientEffects(c)
  PROVE  [Peer(c)]_vars
<1>1. nick[c] \in Username
  BY DEF ClientsOK
<1>2. CASE ClientConnect(c)
  BY <1>2 DEF ClientConnect, Peer
<1>3. CASE SendName(c, nick[c])
  BY <1>1, <1>3 DEF Peer
<1>4. CASE \E x \in Line : SendLine(c, x)
  BY <1>4 DEF Peer
<1>5. CASE cst[c] \in Live /\ \E r \in Nat : End(c, r)
  BY <1>5, EndIsHangup DEF Peer
<1> QED BY <1>2, <1>3, <1>4, <1>5 DEF ClientEffects

\* Only the client's own link, input and place change.
LEMMA ClientFrame ==
  ASSUME IInv, ClientsOK, NEW c \in Conn, ClientEffects(c)
  PROVE  /\ UNCHANGED <<sock, name, status, pc, sent, closed, nick>>
         /\ cst' \in [Conn -> {"start", "done"} \cup Live] /\ rd' \in [Conn -> Nat]
         /\ \A d \in Conn \ {c} : /\ link'[d] = link[d] /\ inbox'[d] = inbox[d]
                                  /\ cst'[d] = cst[d] /\ rd'[d] = rd[d]
         /\ \A d \in Conn : link'[d] # "new" <=> (link[d] # "new" \/ (d = c /\ cst[c] = "start"))
         /\ named' \subseteq named \cup {c} /\ (cst[c] # "awaitAck" => named' = named)
<1>1. /\ cst \in [Conn -> {"start", "done"} \cup Live] /\ rd \in [Conn -> Nat]
      /\ link \in [Conn -> Link] /\ inbox \in [Conn -> Seq(Piece)]
      /\ cst[c] \in Live => link[c] = "open"
  BY DEF IInv, TypeOK, ClientsOK
<1>2. CASE ClientConnect(c)
  BY <1>1, <1>2 DEF ClientConnect, Connect, table, loop, peers, Live
<1>3. CASE /\ cst[c] = "awaitAck" /\ SendName(c, nick[c])
           /\ cst' = [cst EXCEPT ![c] = "awaitReg"] /\ rd' = [rd EXCEPT ![c] = 1] /\ nick' = nick
  BY <1>1, <1>3 DEF SendName, table, loop, peers, Live
<1>4. CASE /\ cst[c] = "awaitReg" /\ Len(sent[c]) > 1 /\ sent[c][2] = Plain("registered")
           /\ cst' = [cst EXCEPT ![c] = "chat"] /\ rd' \in [Conn -> Nat] /\ UNCHANGED <<vars, nick>>
           /\ \A d \in Conn \ {c} : rd'[d] = rd[d]
  BY <1>1, <1>4 DEF vars, table, loop, peers, Live
<1>5. CASE (\E x \in Line : SendLine(c, x)) /\ UNCHANGED clients
  BY <1>1, <1>5 DEF SendLine, clients, table, loop, peers, Live
<1>6. CASE /\ cst[c] = "chat" /\ rd' \in [Conn -> Nat] /\ UNCHANGED <<vars, cst, nick>>
           /\ \A d \in Conn \ {c} : rd'[d] = rd[d]
  BY <1>1, <1>6 DEF vars, table, loop, peers
<1>7. CASE cst[c] \in Live /\ \E r \in Nat : End(c, r)
  BY <1>1, <1>7 DEF End, table, loop, peers, Live
<1> QED BY <1>2, <1>3, <1>4, <1>5, <1>6, <1>7 DEF ClientEffects

\* Where the client itself arrives, and what it had reached before.
LEMMA ClientArrives ==
  ASSUME IInv, HandshakeInv, ClientsOK, NEW c \in Conn, ClientEffects(c)
  PROVE  \/ cst[c] = "start" /\ cst'[c] = "awaitAck" /\ link'[c] = "open" /\ UNCHANGED <<inbox, rd>>
         \/ /\ cst[c] = "awaitAck" /\ cst'[c] = "awaitReg" /\ rd'[c] = 1 /\ c \in Accepted
            /\ link' = link /\ inbox'[c] = NameLine(nick[c])
         \/ /\ cst[c] = "awaitReg" /\ cst'[c] = "chat" /\ link' = link /\ inbox' = inbox
            /\ Len(sent[c]) > 1 /\ sent[c][2] = Plain("registered")
         \/ cst[c] = "chat" /\ cst'[c] = "chat" /\ link' = link
         \/ /\ cst[c] \in Live /\ cst'[c] = "done" /\ inbox' = inbox
            /\ link'[c] = "open" => c \in closed
<1>1. /\ cst \in [Conn -> {"start", "done"} \cup Live] /\ rd \in [Conn -> Nat]
      /\ link \in [Conn -> Link] /\ inbox \in [Conn -> Seq(Piece)]
      /\ Username \subseteq Piece /\ Rest \in Piece /\ nick[c] \in Username
  BY DEF IInv, TypeOK, ClientsOK, Piece
<1>2. CASE ClientConnect(c)
  BY <1>1, <1>2 DEF ClientConnect, Connect, clients
<1>3. CASE /\ cst[c] = "awaitAck" /\ SendName(c, nick[c])
           /\ cst' = [cst EXCEPT ![c] = "awaitReg"] /\ rd' = [rd EXCEPT ![c] = 1] /\ nick' = nick
  <2>1. sent[c] # <<>>
    <3>1. <<Plain("accepted")>> # <<>>
      OBVIOUS
    <3> QED BY <1>3, <3>1 DEF SendName
  <2>2. c \in Accepted
    BY <2>1 DEF HandshakeInv
  <2>3. inbox[c] = <<>> /\ NameLine(nick[c]) \in Seq(Piece)
    BY <1>1, <1>3 DEF ClientsOK, NameLine
  <2>4. inbox'[c] = NameLine(nick[c])
    <3>1. <<>> \o NameLine(nick[c]) = NameLine(nick[c])
      BY <2>3
    <3> QED BY <1>1, <1>3, <2>3, <3>1 DEF SendName
  <2> QED BY <1>1, <1>3, <2>2, <2>4 DEF SendName
<1>4. CASE /\ cst[c] = "awaitReg" /\ Len(sent[c]) > 1 /\ sent[c][2] = Plain("registered")
           /\ cst' = [cst EXCEPT ![c] = "chat"] /\ rd' \in [Conn -> Nat] /\ UNCHANGED <<vars, nick>>
  BY <1>1, <1>4 DEF vars
<1>5. CASE cst[c] = "chat" /\ (\E x \in Line : SendLine(c, x)) /\ UNCHANGED clients
  BY <1>5 DEF SendLine, clients
<1>6. CASE cst[c] = "chat" /\ UNCHANGED <<vars, cst, nick>>
  BY <1>6 DEF vars
<1>7. CASE cst[c] \in Live /\ \E r \in Nat : End(c, r)
  BY <1>1, <1>7 DEF End
<1> QED BY <1>2, <1>3, <1>4, <1>5, <1>6, <1>7 DEF ClientEffects

LEMMA ClientClients ==
  ASSUME IInv, IInv', HandshakeInv, ClientsOK, NEW c \in Conn, ClientEffects(c)
  PROVE  ClientsOK'
<1>1. /\ UNCHANGED <<sent, closed, nick>>
      /\ cst' \in [Conn -> {"start", "done"} \cup Live] /\ rd' \in [Conn -> Nat]
      /\ \A d \in Conn \ {c} : /\ link'[d] = link[d] /\ inbox'[d] = inbox[d]
                               /\ cst'[d] = cst[d] /\ rd'[d] = rd[d]
      /\ \A d \in Conn : link'[d] # "new" <=> (link[d] # "new" \/ (d = c /\ cst[c] = "start"))
      /\ named' \subseteq named \cup {c} /\ (cst[c] # "awaitAck" => named' = named)
  BY ClientFrame
<1>2. Accepted \subseteq Accepted'
  <2>1. CASE ClientConnect(c)
    <3>1. link[c] = "new" /\ backlog' = Append(backlog, c) /\ backlog \in Seq(Conn)
      BY <2>1 DEF ClientConnect, Connect, IInv, TypeOK
    <3>2. ASSUME NEW d \in Accepted PROVE \A i \in DOMAIN backlog' : backlog'[i] # d
      <4>1. d # c /\ \A i \in DOMAIN backlog : backlog[i] # d
        BY <3>1 DEF Accepted
      <4> QED BY <3>1, <4>1
    <3> QED BY <1>1, <3>2 DEF Accepted
  <2>2. CASE ~ ClientConnect(c)
    <3>1. backlog' = backlog
      BY <2>2 DEF ClientEffects, SendName, SendLine, End, vars
    <3> QED BY <1>1, <3>1 DEF Accepted
  <2> QED BY <2>1, <2>2
<1>3. ASSUME NEW d \in Conn, d # c
      PROVE  /\ cst'[d] = "start" => link'[d] = "new"
             /\ cst'[d] \in Live => link'[d] = "open"
             /\ cst'[d] = "done" => link'[d] # "new" /\ (link'[d] = "open" => d \in closed')
             /\ cst'[d] \in {"start", "awaitAck"} => inbox'[d] = <<>> /\ rd'[d] = 0
             /\ cst'[d] = "awaitReg" => rd'[d] = 1
             /\ cst'[d] \in {"awaitReg", "chat"} => d \in Accepted'
             /\ cst'[d] \in {"start", "awaitAck"} => d \notin named'
             /\ cst'[d] = "chat" => Registered(d)'
  BY <1>1, <1>2, <1>3 DEF ClientsOK, Registered
<1>4. /\ cst'[c] = "start" => link'[c] = "new"
      /\ cst'[c] \in Live => link'[c] = "open"
      /\ cst'[c] = "done" => link'[c] # "new" /\ (link'[c] = "open" => c \in closed')
      /\ cst'[c] \in {"start", "awaitAck"} => inbox'[c] = <<>> /\ rd'[c] = 0
      /\ cst'[c] = "awaitReg" => rd'[c] = 1
      /\ cst'[c] \in {"awaitReg", "chat"} => c \in Accepted'
      /\ cst'[c] \in {"start", "awaitAck"} => c \notin named'
  BY <1>1, <1>2, ClientArrives DEF ClientsOK, Live
<1>6. cst'[c] = "chat" => Registered(c)'
  <2>1. Plain("registered").kind = "registered"
    BY DEF Plain
  <2>2. cst'[c] = "chat" => Registered(c)
    BY <2>1, ClientArrives DEF ClientsOK, Registered
  <2> QED BY <1>1, <2>2 DEF Registered
<1>5. nick' \in [Conn -> Username]
  BY <1>1 DEF ClientsOK
<1> QED BY <1>1, <1>3, <1>4, <1>5, <1>6 DEF ClientsOK

LEMMA ClientAgrees ==
  ASSUME IInv, HandshakeInv, ClientsOK, ~Stopped => Agree, NEW c \in Conn, ClientEffects(c)
  PROVE  ~Stopped' => Agree'
<1> SUFFICES ASSUME ~Stopped' PROVE Agree'
  OBVIOUS
<1>1. /\ UNCHANGED <<sock, name, status, pc, sent, closed, nick>>
      /\ \A d \in Conn \ {c} : link'[d] = link[d] /\ inbox'[d] = inbox[d] /\ cst'[d] = cst[d]
      /\ \A d \in Conn : link'[d] # "new" <=> (link[d] # "new" \/ (d = c /\ cst[c] = "start"))
  BY ClientFrame
<1>2. ~Stopped /\ Agree
  <2>1. ~Stopped
    BY <1>1 DEF Stopped
  <2> QED BY <2>1
<1>3. \/ cst[c] = "start" /\ cst'[c] = "awaitAck"
      \/ cst[c] = "awaitAck" /\ cst'[c] = "awaitReg" /\ inbox'[c] = NameLine(nick[c]) /\ link' = link
      \/ /\ cst[c] = "awaitReg" /\ cst'[c] = "chat" /\ link' = link
         /\ Len(sent[c]) > 1 /\ sent[c][2] = Plain("registered")
      \/ cst[c] = "chat" /\ cst'[c] = "chat" /\ link' = link
      \/ cst[c] \in Live /\ cst'[c] = "done" /\ (link'[c] = "open" => c \in closed)
  BY ClientArrives
<1>4. /\ cst[c] = "start" => link[c] = "new"
      /\ cst[c] \in Live => link[c] = "open"
      /\ cst[c] \in {"awaitReg", "chat"} => c \in Accepted
  BY DEF ClientsOK
<1>5. cst'[c] = "chat" => \E s \in Members : sock[s] = c
  <2>1. CASE cst[c] = "chat"
    BY <1>2, <2>1 DEF Agree, Seated
  <2>2. CASE cst[c] # "chat" /\ cst'[c] = "chat"
    BY <1>2, <1>3, <1>4, <2>2, RegisteredIsMember DEF Live
  <2> QED BY <2>1, <2>2
<1>6. Seated'
  <2>1. Members' = Members
    BY <1>1 DEF Members
  <2>2. ASSUME NEW d \in Conn, d # c, cst'[d] = "chat" PROVE \E s \in Members : sock[s] = d
    BY <1>1, <1>2, <2>2 DEF Agree, Seated
  <2> QED BY <1>1, <1>5, <2>1, <2>2 DEF Seated
<1>7. RefusedOnly'
  <2>1. Refused' = Refused
    BY DEF Refused, Plain
  <2>2. ASSUME NEW d \in closed, link'[d] = "open" PROVE link[d] = "open"
    <3>1. d \in Conn /\ link[d] # "new"
      BY DEF IInv, TypeOK, QueueOK
    <3> QED BY <1>1, <1>3, <1>4, <2>2, <3>1
  <2> QED BY <1>1, <1>2, <2>1, <2>2 DEF Agree, RefusedOnly
<1>8. ASSUME NEW s \in Occupied' PROVE SlotAgrees(s)'
  <2>1. s \in Occupied
    BY <1>1 DEF Occupied
  <2>2. /\ SlotAgrees(s) /\ sock[s] \in Conn /\ sock[s] \in Accepted /\ sock[s] \notin closed
        /\ link[sock[s]] # "new"
    BY <1>2, <2>1, SlotSocket DEF Agree, IInv, DescriptorsKept
  <2>3. CASE sock[s] # c
    BY <1>1, <2>2, <2>3 DEF SlotAgrees
  <2>4. CASE sock[s] = c
    <3>1. CASE cst[c] \in Live /\ cst'[c] = "done"
      BY <1>1, <1>3, <2>2, <2>4, <3>1 DEF SlotAgrees, Live
    <3>2. CASE cst[c] = "awaitAck" /\ cst'[c] = "awaitReg" /\ inbox'[c] = NameLine(nick[c]) /\ link' = link
      <4>1. status[s] = "CONNECTING"
        BY <1>4, <2>2, <2>4, <3>2 DEF SlotAgrees, Live
      <4>2. NameLine(nick[c])' = NameLine(nick[c])
        BY <1>1 DEF NameLine
      <4> QED BY <1>1, <2>4, <3>2, <4>1, <4>2 DEF SlotAgrees
    <3>3. CASE /\ cst[c] \in {"awaitReg", "chat"} /\ cst'[c] = "chat" /\ link' = link
               /\ \E t \in Members : sock[t] = c
      <4>1. status[s] = "CONNECTED"
        <5>1. PICK t \in Members : sock[t] = c
          BY <3>3
        <5>2. t = s
          BY <2>1, <2>4, <5>1, SlotSocket DEF Members, Occupied
        <5> QED BY <5>1, <5>2 DEF Members
      <4> QED BY <1>1, <1>4, <2>2, <2>4, <3>3, <4>1 DEF SlotAgrees, Live
    <3> QED BY <1>3, <1>4, <1>5, <2>2, <2>4, <3>1, <3>2, <3>3
  <2> QED BY <2>3, <2>4
<1> QED BY <1>6, <1>7, <1>8 DEF Agree

-------------------------------------------------------------------------------
(* The theorems.                                                           *)

LEMMA SystemInitOK == SystemInit => SysInv
<1> SUFFICES ASSUME SystemInit PROVE SysInv
  OBVIOUS
<1>1. IInv /\ HandshakeInv
  BY InitIInv DEF SystemInit, Init, HandshakeInv, HandshakeOrder, Occupied
<1>2. ClientsOK /\ NamedInv
  BY DEF SystemInit, Init, ClientsOK, Live, NamedInv, Unnamed, Opening, Members
<1>3. Agree
  <2>1. Occupied = {} /\ closed = {} /\ \A c \in Conn : cst[c] = "start"
    BY DEF SystemInit, Init, Occupied
  <2> QED BY <2>1 DEF Agree, Seated, RefusedOnly
<1> QED BY <1>1, <1>2, <1>3 DEF SysInv

\* A step of the system is a step the server's own specification allows.
LEMMA SystemStepIsNext ==
  ASSUME SysInv, [SystemNext]_system
  PROVE  [Next]_vars
<1>1. CASE ServerStep
  BY <1>1 DEF ServerStep, Next
<1>2. ASSUME NEW c \in Conn, ClientReads(c) \/ User(c) PROVE [Next]_vars
  <2>1. [Peer(c)]_vars
    BY <1>2, ClientSteps, ClientIsPeer DEF SysInv
  <2> QED BY <2>1 DEF Next
<1>3. CASE UNCHANGED system
  BY <1>3 DEF system
<1> QED BY <1>1, <1>2, <1>3 DEF SystemNext

LEMMA SystemNextOK ==
  ASSUME SysInv, [SystemNext]_system
  PROVE  SysInv'
<1>1. IInv' /\ HandshakeInv'
  BY SystemStepIsNext, NextIInv, NextHandshake DEF SysInv
<1>2. CASE ServerStep
  BY <1>1, <1>2, ServerNamed, ServerClients, ServerAgrees DEF SysInv, ServerStep
<1>3. ASSUME NEW c \in Conn, ClientReads(c) \/ User(c) PROVE SysInv'
  <2>1. IInv /\ TypeOK /\ HandshakeInv /\ NamedInv /\ ClientsOK /\ (~Stopped => Agree)
    BY DEF SysInv, IInv
  <2>2. ClientEffects(c)
    BY <1>3, <2>1, ClientSteps
  <2>3. NamedInv'
    BY <2>1, <2>2, ClientIsPeer, PeerNamed
  <2> QED BY <1>1, <2>1, <2>2, <2>3, ClientClients, ClientAgrees DEF SysInv
<1>4. CASE UNCHANGED system
  <2>1. UNCHANGED <<sock, name, status, pc, backlog, link, inbox, sent, closed, named, cst, nick, rd>>
    BY <1>4 DEF system, vars, table, loop, peers, clients
  <2>2. ClientsOK' /\ NamedInv'
    BY <2>1 DEF SysInv, ClientsOK, Accepted, Registered, NamedInv, Unnamed, Opening, Plain, Members
  <2>3. ~Stopped' => Agree'
    BY <2>1 DEF SysInv, Stopped, Agree, SlotAgrees, Seated, RefusedOnly, Refused, Occupied, Members,
                NameLine, Plain
  <2> QED BY <1>1, <2>2, <2>3 DEF SysInv
<1> QED BY <1>2, <1>3, <1>4 DEF SystemNext

\* The server's invariants and the agreement of the two ends hold of the server
\* with its clients, until SIGPIPE stops it.
THEOREM SystemInvariant == SystemSpec => []SysInv
BY SystemInitOK, SystemNextOK, PTL DEF SystemSpec

\* The processes that run chatclient.c are the peers ChatServer is specified
\* with: although their writes depend only on what they have read, they are always
\* in turn, so every behaviour of the system is one of the server's specification
\* and all that is proved of it holds with these clients.
THEOREM PeersAreClientsHolds == SystemSpec => PeersAreClients
<1>1. SystemInit => Init
  BY DEF SystemInit
<1> QED BY <1>1, SystemStepIsNext, SystemInvariant, PTL DEF SystemSpec, PeersAreClients, Spec

\* The two ends agree, whatever either reads late, in pieces or not at all.
THEOREM EndsAgreeHolds == SystemSpec => []EndsAgree
<1>1. ASSUME SysInv PROVE EndsAgree
  <2> SUFFICES ASSUME ~Stopped
               PROVE  /\ \A c \in Conn : cst[c] = "chat" =>
                           \E s \in Members : sock[s] = c /\ name[s] = Stored[nick[c]]
                      /\ \A s \in Members : link[sock[s]] = "open" =>
                           \/ cst[sock[s]] = "chat"
                           \/ cst[sock[s]] = "awaitReg" /\ Plain("registered") = Head(Unread(sock[s]))
    BY DEF EndsAgree
  <2>1. IInv /\ HandshakeInv /\ ClientsOK /\ Agree
    BY <1>1 DEF SysInv
  <2>2. ASSUME NEW s \in Members
        PROVE  s \in Occupied /\ status[s] = "CONNECTED" /\ sock[s] \in Conn /\ SlotAgrees(s)
    BY <2>1, SlotSocket DEF Members, Occupied, Agree
  <2>3. ASSUME NEW c \in Conn, cst[c] = "chat"
        PROVE  \E s \in Members : sock[s] = c /\ name[s] = Stored[nick[c]]
    <3>1. link[c] = "open"
      BY <2>1, <2>3 DEF ClientsOK, Live
    <3>2. PICK s \in Members : sock[s] = c
      BY <2>1, <2>3 DEF Agree, Seated
    <3> QED BY <2>2, <3>1, <3>2 DEF SlotAgrees
  <2>4. ASSUME NEW s \in Members, link[sock[s]] = "open", cst[sock[s]] # "chat"
        PROVE  cst[sock[s]] = "awaitReg" /\ Plain("registered") = Head(Unread(sock[s]))
    <3> DEFINE c == sock[s]
    <3>1. c \in Conn /\ cst[c] = "awaitReg" /\ rd[c] = 1 /\ sent[c] \in Seq(Msg)
      BY <2>1, <2>2, <2>4 DEF SlotAgrees, ClientsOK, IInv, TypeOK
    <3>2. Greeted(sent[c])
      <4>1. Told(s)
        BY <2>1, <2>2, <2>4 DEF HandshakeInv, Stopped
      <4> QED BY <2>2, <4>1 DEF Told
    <3> HIDE DEF c
    <3>3. Len(sent[c]) > 2 /\ SubSeq(sent[c], 1, 2)[2] = Plain("registered")
      <4>1. <<Plain("accepted"), Plain("registered")>>[2] = Plain("registered")
        OBVIOUS
      <4> QED BY <3>2, <4>1 DEF Greeted
    <3>4. sent[c][2] = Plain("registered")
      BY <3>1, <3>3
    <3>5. Unread(c) # <<>>
      <4>1. Unread(c) = SubSeq(sent[c], 2, Len(sent[c]))
        BY <3>1 DEF Unread
      <4>2. Len(SubSeq(sent[c], 2, Len(sent[c]))) = Len(sent[c]) - 1 /\ Len(sent[c]) \in Nat
        BY <3>1, <3>3
      <4>3. Len(Unread(c)) > 0
        BY <3>3, <4>1, <4>2
      <4> QED BY <4>3
    <3>6. Head(Unread(c)) = sent[c][2]
      BY <2>1, <3>1, <3>5, UnreadHead DEF IInv
    <3> QED BY <3>1, <3>4, <3>6 DEF c
  <2> QED BY <2>3, <2>4
<1> QED BY <1>1, SystemInvariant, PTL

\* What HandshakeEnds rests on, without fairness: a client in the handshake
\* never waits for a server that waits for it.  It has something to read, or
\* the connection's end, or the server has its connection or its name to take.
SomebodysTurn(c) ==
  \/ Unread(c) # <<>>
  \/ ServerGone(c)
  \/ \E i \in DOMAIN backlog : backlog[i] = c
  \/ inbox[c] # <<>> /\ \E s \in Occupied : sock[s] = c /\ status[s] = "CONNECTING"

\* No read() of chatclient.c's handshake and no select() of the server's can
\* wait for each other, however the two interleave.
THEOREM HandshakeNeverStuck ==
  SystemSpec => [](\A c \in Conn : cst[c] \in {"awaitAck", "awaitReg"} => SomebodysTurn(c))
<1>1. ASSUME SysInv, NEW c \in Conn, cst[c] \in {"awaitAck", "awaitReg"}
      PROVE  SomebodysTurn(c)
  <2> SUFFICES ASSUME ~Stopped, c \notin closed, \A i \in DOMAIN backlog : backlog[i] # c
               PROVE  SomebodysTurn(c)
    BY DEF SomebodysTurn, ServerGone
  <2>1. IInv /\ HandshakeInv /\ ClientsOK /\ Agree
    BY <1>1 DEF SysInv
  <2>2. link[c] = "open" /\ c \in Accepted /\ sent[c] \in Seq(Msg) /\ rd[c] \in Nat
    BY <1>1, <2>1 DEF ClientsOK, Live, Accepted, IInv, TypeOK
  <2>3. PICK s \in Occupied : sock[s] = c
    BY <2>1, <2>2 DEF IInv, DescriptorsKept
  <2>4. SlotAgrees(s) /\ Told(s)
    BY <2>1, <2>2, <2>3 DEF Agree, HandshakeInv, Stopped
  <2>5. CASE cst[c] = "awaitAck"
    <3>1. status[s] = "CONNECTING" /\ rd[c] = 0
      BY <1>1, <2>1, <2>2, <2>3, <2>4, <2>5 DEF SlotAgrees, ClientsOK
    <3>2. sent[c] = <<Plain("accepted")>>
      BY <2>3, <2>4, <3>1 DEF Told
    <3>3. Len(sent[c]) = 1
      BY <3>2
    <3>4. SubSeq(sent[c], 0 + 1, Len(sent[c])) # <<>>
      <4>1. Len(SubSeq(sent[c], 1, 1)) = 1
        BY <2>2, <3>3
      <4> QED BY <3>3, <4>1
    <3>5. Unread(c) # <<>>
      BY <3>1, <3>4 DEF Unread
    <3> QED BY <3>5 DEF SomebodysTurn
  <2>6. CASE cst[c] = "awaitReg" /\ status[s] = "CONNECTING"
    <3>1. inbox[c] = NameLine(nick[c])
      BY <2>2, <2>3, <2>4, <2>6 DEF SlotAgrees
    <3>2. inbox[c] # <<>>
      BY <3>1 DEF NameLine
    <3> QED BY <2>3, <2>6, <3>2 DEF SomebodysTurn
  <2>7. CASE cst[c] = "awaitReg" /\ status[s] # "CONNECTING"
    <3>1. Len(sent[c]) > 2 /\ rd[c] = 1
      BY <2>1, <2>3, <2>4, <2>7 DEF Told, Greeted, ClientsOK
    <3>2. Len(SubSeq(sent[c], 2, Len(sent[c]))) = Len(sent[c]) - 1
      BY <2>2, <3>1
    <3>3. SubSeq(sent[c], 1 + 1, Len(sent[c])) # <<>>
      <4> DEFINE u == SubSeq(sent[c], 2, Len(sent[c]))
      <4>1. Len(u) > 0
        BY <2>2, <3>1, <3>2
      <4> HIDE DEF u
      <4>2. u # <<>>
        BY <4>1
      <4> QED BY <4>2 DEF u
    <3>4. Unread(c) # <<>>
      BY <3>1, <3>3 DEF Unread
    <3> QED BY <3>4 DEF SomebodysTurn
  <2> QED BY <1>1, <2>5, <2>6, <2>7
<1>2. SysInv => \A c \in Conn : cst[c] \in {"awaitAck", "awaitReg"} => SomebodysTurn(c)
  BY <1>1
<1> QED BY <1>2, SystemInvariant, PTL

\* What is proved of the server for any peers is so for the users of
\* chatclient.c: what they read is in order and makes a coherent story, in which
\* a name is one user's, and all of them are in one room.
COROLLARY ServedByChatServer ==
  SystemSpec => [](HandshakeOrder /\ StoryCoherent /\ UniqueNames) /\ RefinesRoom
BY PeersAreClientsHolds, HandshakeCorrect, StoryCorrect, NamesCorrect, ImplementsRoom, PTL
   DEF PeersAreClients

===============================================================================

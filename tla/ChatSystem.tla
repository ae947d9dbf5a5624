------------------------------ MODULE ChatSystem ------------------------------
(***************************************************************************)
(* The chat server with the clients it was written for: the peers of       *)
(* ChatServer are processes that run kadai4/chatclient.c, one connection   *)
(* each.  The kernel keeps what the server wrote until the client reads;   *)
(* one read() returns any number of the messages that have arrived, since  *)
(* TCP keeps no boundaries.                                                *)
(***************************************************************************)
EXTENDS ChatServer

VARIABLES
  cst,   \* where each client process is: start, awaitAck, awaitReg, chat, done
  nick,  \* its user name argument
  rd     \* messages it has read

clients == <<cst, nick, rd>>
system  == <<vars, clients>>

Unread(c) == SubSeq(sent[c], rd[c] + 1, Len(sent[c]))

\* The server has closed the connection, or died.
ServerGone(c) == c \in closed \/ Stopped

SystemInit ==
  /\ Init
  /\ cst = [c \in Conn |-> "start"]
  /\ nick \in [Conn -> Username]
  /\ rd = [c \in Conn |-> 0]

-------------------------------------------------------------------------------
ClientConnect(c) ==
  /\ cst[c] = "start"
  /\ Connect(c)
  /\ cst' = [cst EXCEPT ![c] = "awaitAck"]
  /\ UNCHANGED <<nick, rd>>

\* The process ends after reading r messages in all: its kernel sends RST if
\* some are unread, FIN otherwise.
End(c, r) ==
  /\ cst' = [cst EXCEPT ![c] = "done"]
  /\ rd' = [rd EXCEPT ![c] = r]
  /\ link' = IF c \in closed THEN link
             ELSE [link EXCEPT ![c] = IF r < Len(sent[c]) THEN "rst" ELSE "fin"]
  /\ UNCHANGED <<table, loop, backlog, inbox, sent, closed, peers, nick>>

\* write(): the kernel takes the bytes ps whatever the server has said or done;
\* nobody will read those on a connection the server has closed.
Writes(c, ps) == inbox' = [inbox EXCEPT ![c] = @ \o ps]

\* Mutant: the answer is not compared with ACK_MSG.
ReadAck_NoCompare(c) ==
  /\ cst[c] = "awaitAck"
  /\ Unread(c) # <<>>
  /\ Writes(c, NameLine(nick[c]))
  /\ named' = named \cup {c}
  /\ cst' = [cst EXCEPT ![c] = "awaitReg"]
  /\ rd' = [rd EXCEPT ![c] = 1]
  /\ UNCHANGED <<table, loop, backlog, link, sent, closed, typed, nick>>

\* The first read(): if what it returns begins with REQUEST ACCEPTED, the user
\* name is written.  It asks for one byte more than that message has.
ReadAck(c) ==
  /\ cst[c] = "awaitAck"
  /\ Unread(c) # <<>>
  /\ \/ /\ Head(Unread(c)) = Plain("accepted")
        /\ Writes(c, NameLine(nick[c]))
        /\ named' = named \cup {c}
        /\ cst' = [cst EXCEPT ![c] = "awaitReg"]
        /\ rd' = [rd EXCEPT ![c] = 1]
        /\ UNCHANGED <<table, loop, backlog, link, sent, closed, typed, nick>>
     \/ /\ Head(Unread(c)) # Plain("accepted")
        /\ End(c, 1)

\* Mutant: the answer is not compared with USERNAME_ACK_MSG.
ReadReg_NoCompare(c) ==
  /\ cst[c] = "awaitReg"
  /\ Unread(c) # <<>>
  /\ cst' = [cst EXCEPT ![c] = "chat"]
  /\ rd' = [rd EXCEPT ![c] = 2]
  /\ UNCHANGED <<vars, nick>>

\* The second read(): only its first 20 bytes are looked at, the other
\* messages it returned are never printed.
ReadReg(c) ==
  /\ cst[c] = "awaitReg"
  /\ \E k \in 1 .. Len(Unread(c)) :
       \/ /\ Head(Unread(c)) = Plain("registered")
          /\ cst' = [cst EXCEPT ![c] = "chat"]
          /\ rd' = [rd EXCEPT ![c] = @ + k]
          /\ UNCHANGED <<vars, nick>>
       \/ /\ Head(Unread(c)) # Plain("registered")
          /\ End(c, rd[c] + k)

\* The select loop: a line from the user, or text from the server to print.
TypeLine(c, x) ==
  /\ cst[c] = "chat"
  /\ typed[c] < MaxLines
  /\ Writes(c, <<x>>)
  /\ typed' = [typed EXCEPT ![c] = @ + 1]
  /\ UNCHANGED <<table, loop, backlog, link, sent, closed, named, clients>>

ShowText(c) ==
  /\ cst[c] = "chat"
  /\ \E k \in 1 .. Len(Unread(c)) : rd' = [rd EXCEPT ![c] = @ + k]
  /\ UNCHANGED <<vars, cst, nick>>

\* Mutant: the two reads of the handshake do not look for end of file.
EndOfFile_ChatOnly(c) ==
  /\ cst[c] = "chat"
  /\ Unread(c) = <<>>
  /\ ServerGone(c)
  /\ End(c, rd[c])

\* read() returns 0 or -1.
EndOfFile(c) ==
  /\ cst[c] \in {"awaitAck", "awaitReg", "chat"}
  /\ Unread(c) = <<>>
  /\ ServerGone(c)
  /\ End(c, rd[c])

\* The user ends the program, or SIGPIPE does in a write().
Quit(c) ==
  /\ cst[c] \in {"awaitAck", "awaitReg", "chat"}
  /\ End(c, rd[c])

\* What the client does by itself, and what its user may do.
ClientReads(c) == ReadAck(c) \/ ReadReg(c) \/ ShowText(c) \/ EndOfFile(c)

User(c) == ClientConnect(c) \/ (\E x \in Line : TypeLine(c, x)) \/ Quit(c)

ServerStep == (Server \/ SyscallFails) /\ UNCHANGED clients

SystemNext == ServerStep \/ \E c \in Conn : ClientReads(c) \/ User(c)

SystemSpec == SystemInit /\ [][SystemNext]_system

\* Every process that can run does; nothing obliges the users.
FairSystem ==
  /\ SystemSpec
  /\ WF_system(Server /\ UNCHANGED clients)
  /\ \A c \in Conn : WF_system(ClientReads(c))

-------------------------------------------------------------------------------
(* Properties.                                                             *)

\* The clients are the peers ChatServer assumes.  What they write depends only
\* on what they have read: that this keeps them in turn, so that a user name
\* comes once and first, when the server has said REQUEST ACCEPTED and nothing
\* more (the first read() would swallow a byte of it), and lines come only after
\* USERNAME REGISTERED, is for the two programs together to ensure.
PeersAreClients == Spec

\* The two ends agree: a client that lets its user chat is a member under its
\* own name, cut to 15 bytes, and the socket of every member leads to a client
\* that is chatting or has its REGISTERED to read, unless it has gone.
EndsAgree ==
  ~Stopped =>
    /\ \A c \in Conn : cst[c] = "chat" =>
         \E s \in Members : sock[s] = c /\ name[s] = Stored[nick[c]]
    /\ \A s \in Members : link[sock[s]] = "open" =>
         \/ cst[sock[s]] = "chat"
         \/ cst[sock[s]] = "awaitReg" /\ Plain("registered") = Head(Unread(sock[s]))

\* Nobody hangs in the handshake: a client that has connected ends up chatting
\* or is told why not and ends.
HandshakeEnds ==
  \A c \in Conn : (cst[c] \in {"awaitAck", "awaitReg"}) ~> (cst[c] \in {"chat", "done"})
===============================================================================

------------------------------- MODULE ChatFlow -------------------------------
(***************************************************************************)
(* The flow of lines between chatclient.c and chatserver.c once all have   *)
(* their names: sockets hold CAP lines each way and write() waits for      *)
(* room, in the only thread of the server too; fgets() of the client reads *)
(* ahead into the buffer of stdio, which select() knows nothing of. Lines  *)
(* are counted, not told apart. The handshake is in ChatSystem.            *)
(***************************************************************************)
EXTENDS Integers, Sequences, FiniteSets, SequencesExt

CONSTANTS
  MAXCLIENT, \* slots of the server; the client in a slot has its number
  CAP,       \* lines a socket holds in each direction
  MaxLines   \* bound: lines each user types

ASSUME FlowAssumption ==
  MAXCLIENT \in Nat \ {0} /\ CAP \in Nat \ {0} /\ MaxLines \in Nat

Client == 1 .. MAXCLIENT

VARIABLES
  alive,  \* the server runs
  member, \* slots that are CONNECTED
  ready,  \* slots its last select() found readable and it has not served
  tell,   \* lines it is writing: whom to, in order
  cpc,    \* where each client is in its loop
  seen,   \* what the last select() of each client found
  tty,    \* whether a client's standard input is a terminal
  keys,   \* lines waiting there
  eof,    \* and the end of them
  stdio,  \* lines fgets() has read ahead
  typed,  \* lines each user has typed
  up,     \* lines on their way to the server
  down    \* lines on their way to each client

server == <<alive, member, ready, tell>>
loop   == <<cpc, seen>>
input  == <<tty, keys, eof, stdio, typed>>
net    == <<up, down>>
vars   == <<server, loop, input, net>>

Init ==
  /\ alive = TRUE /\ member = Client /\ ready = {} /\ tell = << >>
  /\ cpc = [c \in Client |-> "select"]
  /\ seen = [c \in Client |-> {}]
  /\ tty \in [Client -> BOOLEAN]
  /\ keys = [c \in Client |-> 0]
  /\ eof = [c \in Client |-> FALSE]
  /\ stdio = [c \in Client |-> 0]
  /\ typed = [c \in Client |-> 0]
  /\ up = [c \in Client |-> 0]
  /\ down = [c \in Client |-> 0]

-------------------------------------------------------------------------------
(* The users. After the end of input fgets() returns nothing more.         *)

Type(c) ==
  /\ cpc[c] # "done" /\ ~eof[c] /\ typed[c] < MaxLines
  /\ keys' = [keys EXCEPT ![c] = @ + 1]
  /\ typed' = [typed EXCEPT ![c] = @ + 1]
  /\ UNCHANGED <<server, loop, tty, eof, stdio, net>>

EndInput(c) ==
  /\ cpc[c] # "done" /\ ~eof[c]
  /\ eof' = [eof EXCEPT ![c] = TRUE]
  /\ UNCHANGED <<server, loop, tty, keys, stdio, typed, net>>

-------------------------------------------------------------------------------
(* The server.                                                             *)

Gone(c) == cpc[c] = "done"

Select ==
  /\ alive /\ ready = {} /\ tell = << >>
  /\ ready' = {c \in member : up[c] > 0 \/ Gone(c)}
  /\ ready' # {}
  /\ UNCHANGED <<alive, member, tell, loop, input, net>>

InOrder(S) == SetToSortSeq(S, <)

\* write_all_clients() with a text of n lines.
ToAll(S, n) == FlattenSeq([i \in 1 .. Cardinality(S) |-> [j \in 1 .. n |-> InOrder(S)[i]]])

\* all_username(): a line for every member.
List(c) == [i \in 1 .. Cardinality(member) |-> c]

\* One read() for each slot in turn: what is there is one text, or it is /list.
\* At the end of the connection the others are told.
HandleMassage ==
  /\ alive /\ ready # {} /\ tell = << >>
  /\ LET c == Head(InOrder(ready)) IN
     /\ ready' = ready \ {c}
     /\ \/ \E n \in 1 .. up[c] :
             /\ up' = [up EXCEPT ![c] = @ - n]
             /\ \/ tell' = ToAll(member, n)
                \/ n = 1 /\ tell' = List(c)
             /\ UNCHANGED member
        \/ /\ up[c] = 0
           /\ member' = member \ {c}
           /\ tell' = ToAll(member', 1)
           /\ UNCHANGED up
  /\ UNCHANGED <<alive, loop, input, down>>

\* The next line of a write(), when there is room for it. To a client that has
\* gone it is lost or, after an RST, raises SIGPIPE.
Write ==
  /\ alive /\ tell # << >>
  /\ LET d == Head(tell) IN
     \/ /\ ~Gone(d) /\ down[d] < CAP
        /\ down' = [down EXCEPT ![d] = @ + 1]
        /\ tell' = Tail(tell)
        /\ UNCHANGED alive
     \/ /\ Gone(d)
        /\ \/ tell' = Tail(tell) /\ UNCHANGED alive
           \/ alive' = FALSE /\ tell' = << >>
        /\ UNCHANGED down
  /\ UNCHANGED <<member, ready, loop, input, up>>

ServerStep == Select \/ HandleMassage \/ Write

-------------------------------------------------------------------------------
(* The clients.                                                            *)

\* Mutant: once its input has ended a client watches it no longer.
StdinReady_NoEof(c) == {keys[c] > 0}

\* What select() says of standard input: a file or pipe stays readable at its
\* end, a terminal may be asked for more.
StdinReady(c) ==
  IF keys[c] > 0 THEN {TRUE} ELSE IF ~eof[c] THEN {FALSE} ELSE IF tty[c] THEN BOOLEAN ELSE {TRUE}

ClientSelect(c) ==
  /\ cpc[c] = "select"
  /\ \E i \in StdinReady(c) :
       seen' = [seen EXCEPT ![c] = (IF i THEN {"stdin"} ELSE {}) \cup
                                   (IF down[c] > 0 \/ ~alive THEN {"sock"} ELSE {})]
  /\ seen'[c] # {}
  /\ cpc' = [cpc EXCEPT ![c] = IF "stdin" \in seen'[c] THEN "stdin" ELSE "sock"]
  /\ UNCHANGED <<server, input, net>>

\* Mutant: the socket is looked at only in turns without input.
AfterStdin_Else(c) == "select"

AfterStdin(c) == IF "sock" \in seen[c] THEN "sock" ELSE "select"

\* A line of the buffer; when that is empty, one read() of a line of a terminal
\* or of as much as there is. At the end nothing is sent and the loop goes on.
Fgets(c) ==
  /\ cpc[c] = "stdin"
  /\ \/ /\ stdio[c] > 0
        /\ stdio' = [stdio EXCEPT ![c] = @ - 1]
        /\ cpc' = [cpc EXCEPT ![c] = "write"]
        /\ UNCHANGED keys
     \/ /\ stdio[c] = 0 /\ keys[c] > 0
        /\ \E n \in IF tty[c] THEN {1} ELSE 1 .. keys[c] :
             /\ keys' = [keys EXCEPT ![c] = @ - n]
             /\ stdio' = [stdio EXCEPT ![c] = n - 1]
        /\ cpc' = [cpc EXCEPT ![c] = "write"]
     \/ /\ stdio[c] = 0 /\ keys[c] = 0
        /\ cpc' = [cpc EXCEPT ![c] = AfterStdin(c)]
        /\ UNCHANGED <<keys, stdio>>
  /\ UNCHANGED <<server, seen, tty, eof, typed, net>>

\* With lines unread an RST goes out, and what is on its way may be lost.
Ends(c) ==
  /\ cpc' = [cpc EXCEPT ![c] = "done"]
  /\ \E n \in IF down[c] > 0 THEN {0, up[c]} ELSE {up[c]} : up' = [up EXCEPT ![c] = n]
  /\ down' = [down EXCEPT ![c] = 0]

\* write() waits for room; without a server it raises SIGPIPE.
ClientWrite(c) ==
  /\ cpc[c] = "write"
  /\ \/ /\ up[c] < CAP
        /\ up' = [up EXCEPT ![c] = @ + 1]
        /\ cpc' = [cpc EXCEPT ![c] = AfterStdin(c)]
        /\ UNCHANGED down
     \/ ~alive /\ Ends(c)
  /\ UNCHANGED <<server, seen, input>>

\* read() of some of the lines; without a server the end of the connection or an error.
ClientRead(c) ==
  /\ cpc[c] = "sock"
  /\ \/ /\ \E n \in 1 .. down[c] : down' = [down EXCEPT ![c] = @ - n]
        /\ cpc' = [cpc EXCEPT ![c] = "select"]
        /\ UNCHANGED up
     \/ ~alive /\ Ends(c)
  /\ UNCHANGED <<server, seen, input>>

ClientStep(c) == ClientSelect(c) \/ Fgets(c) \/ ClientWrite(c) \/ ClientRead(c)

\* The user interrupts it.
Quit(c) ==
  /\ ~Gone(c)
  /\ Ends(c)
  /\ UNCHANGED <<server, seen, input>>

-------------------------------------------------------------------------------
Next ==
  \/ ServerStep
  \/ \E c \in Client : ClientStep(c) \/ Type(c) \/ EndInput(c) \/ Quit(c)

Spec == Init /\ [][Next]_vars

\* Every process that can run does; nothing obliges the users.
FairSpec == Spec /\ WF_vars(ServerStep) /\ \A c \in Client : WF_vars(ClientStep(c))

-------------------------------------------------------------------------------
(* Properties.                                                             *)

\* The server waits in write() for a client that waits in write() for the
\* server: no program of the system can end it.
Stuck ==
  /\ alive /\ tell # << >>
  /\ LET d == Head(tell) IN
     cpc[d] = "write" /\ up[d] = CAP /\ down[d] = CAP

\* The blocking writes of the server end, unless one member types faster than
\* the sockets empty and the two wait for each other: a member that only listens,
\* has come to the end of its input or has gone never holds up the others.
WritesEnd == (tell # << >>) ~> (tell = << >> \/ ~alive \/ Stuck)

\* What was typed at a terminal is sent, and so is what fgets() has read ahead
\* from a file or pipe, at the latest when that ends.
TypedSent ==
  \A c \in Client :
    (keys[c] + stdio[c] > 0 /\ (tty[c] \/ eof[c])) ~>
      (keys[c] + stdio[c] = 0 \/ Gone(c) \/ Stuck)
===============================================================================

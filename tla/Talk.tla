---------------------------------- MODULE Talk ----------------------------------
(***************************************************************************)
(* kadai2/simple-talk-server.c, which talks to one client after another,   *)
(* with clients of three programs: kadai2/simple-talk-client.c ("talk"),   *)
(* kadai3/simple-talk-client.c, the same with a timer ("timed"), and       *)
(* kadai3/alarm.c ("alarm"), which has the timer but no server. The timer  *)
(* is a child process that sleeps and then sends SIGALRM to its parent.    *)
(* Texts are counted, not told apart.                                      *)
(***************************************************************************)
EXTENDS Integers, Sequences, FiniteSets, SequencesExt

CONSTANTS
  Client,   \* the client processes
  NoClient, \* the server has none
  TIMEOUT,  \* seconds a timer sleeps
  MaxLines, \* bound: lines each user types before the end of its input
  CAP       \* bound: texts the kernel keeps for a reader, at least MaxLines

Server == "server"

ASSUME TalkAssumption ==
  /\ NoClient \notin Client /\ Server \notin Client
  /\ TIMEOUT \in Nat \ {0} /\ MaxLines \in Nat /\ CAP \in Nat \ {0}

Program == {"talk", "timed", "alarm"}

\* Who has a keyboard.
User == Client \cup {Server}

VARIABLES
  spc,     \* where the server is
  cur,     \* the client it talks to
  queue,   \* connections it has not accepted yet
  kind,    \* which program each client is
  cpc,     \* where each client is
  ready,   \* what the last select() of each process found
  stdin,   \* what waits at each keyboard: a "blank" line, a "text", the "eof" or "none"
  typed,   \* lines each user has typed
  buffer,  \* what is in each buffer[]: it is "fresh", begins with a newline
           \* or NUL ("blank"), or holds "text"
  link,    \* each connection: "none", "open", "fin" and "rst" when the client has gone
  up,      \* texts a client has sent and the server not read
  down,    \* texts the server has sent and a client not read
  flag,    \* TIMEOUT_FLAG of each client
  timers,  \* seconds left to sleep for the live children of myalarm(), newest last
  gap,     \* seconds since a running client started its last timer, up to TIMEOUT
  stray    \* SIGALRMs sent to whoever adopted a timer

server == <<spc, cur, queue>>
clients == <<kind, cpc>>
input  == <<ready, stdin, typed, buffer>>
net    == <<link, up, down>>
clock  == <<flag, timers, gap, stray>>
vars   == <<server, clients, input, net, clock>>

HasTimer(c) == kind[c] \in {"timed", "alarm"}

Init ==
  /\ spc = "accept" /\ cur = NoClient /\ queue = << >>
  /\ kind \in [Client -> Program]
  /\ cpc = [c \in Client |-> "start"]
  /\ ready = [u \in User |-> {}]
  /\ stdin = [u \in User |-> "none"]
  /\ typed = [u \in User |-> 0]
  /\ buffer = [u \in User |-> "fresh"]
  /\ link = [c \in Client |-> "none"]
  /\ up = [c \in Client |-> 0]
  /\ down = [c \in Client |-> 0]
  /\ flag = [c \in Client |-> FALSE]
  /\ timers = [c \in Client |-> << >>]
  /\ gap = [c \in Client |-> 0]
  /\ stray = [c \in Client |-> 0]

-------------------------------------------------------------------------------
(* The users.                                                              *)

AtWork(u) == IF u = Server THEN spc # "dead" ELSE cpc[u] \notin {"start", "done"}

Type(u) ==
  /\ AtWork(u)
  /\ stdin[u] = "none" /\ typed[u] < MaxLines
  /\ \E x \in {"blank", "text"} : stdin' = [stdin EXCEPT ![u] = x]
  /\ typed' = [typed EXCEPT ![u] = @ + 1]
  /\ UNCHANGED <<server, clients, ready, buffer, net, clock>>

EndInput(u) ==
  /\ AtWork(u)
  /\ stdin[u] = "none"
  /\ stdin' = [stdin EXCEPT ![u] = "eof"]
  /\ UNCHANGED <<server, clients, ready, typed, buffer, net, clock>>

\* What select() may say of standard input: at the end of a file it is always
\* readable, a terminal may be asked for more.
StdinReady(u) ==
  CASE stdin[u] = "none" -> {FALSE}
    [] stdin[u] = "eof" -> BOOLEAN
    [] OTHER -> {TRUE}

\* buffer[] after fgets(): unchanged at the end of the file.
Fetched(u) == IF stdin[u] = "eof" THEN buffer[u] ELSE stdin[u]

\* Whether buffer[] makes write() send something.
Sends(b) == CASE b = "text" -> {TRUE} [] b = "blank" -> {FALSE} [] OTHER -> BOOLEAN

Taken(u) == IF stdin[u] = "eof" THEN "eof" ELSE "none"

-------------------------------------------------------------------------------
(* The server.                                                             *)

Accept ==
  /\ spc = "accept"
  /\ queue # << >>
  /\ cur' = Head(queue)
  /\ queue' = Tail(queue)
  /\ spc' = "select"
  /\ UNCHANGED <<clients, input, net, clock>>

\* Data, the end of file or an error.
Readable(c) == up[c] > 0 \/ link[c] \in {"fin", "rst"}

Select ==
  /\ spc = "select"
  /\ \E i \in StdinReady(Server) :
       ready' = [ready EXCEPT ![Server] =
                   (IF i THEN {"stdin"} ELSE {}) \cup (IF Readable(cur) THEN {"sock"} ELSE {})]
  /\ ready'[Server] # {}
  /\ spc' = IF "stdin" \in ready'[Server] THEN "stdin" ELSE "sock"
  /\ UNCHANGED <<cur, queue, clients, stdin, typed, buffer, net, clock>>

\* write() to the client: SIGPIPE once its RST has arrived; the answer to a
\* text sent after its FIN is such an RST.
Tell ==
  \/ /\ link[cur] = "open" /\ down[cur] < CAP
     /\ down' = [down EXCEPT ![cur] = @ + 1]
     /\ spc' = "sock"
     /\ UNCHANGED <<link, up>>
  \/ /\ link[cur] = "fin"
     /\ \E l \in {"fin", "rst"} : link' = [link EXCEPT ![cur] = l]
     /\ spc' = "sock"
     /\ UNCHANGED <<up, down>>
  \/ /\ link[cur] = "rst"
     /\ spc' = "dead"
     /\ UNCHANGED net

\* A blank line is not sent, and the client not looked at in this turn.
ServerStdin ==
  /\ spc = "stdin"
  /\ buffer' = [buffer EXCEPT ![Server] = Fetched(Server)]
  /\ stdin' = [stdin EXCEPT ![Server] = Taken(Server)]
  /\ \/ /\ Fetched(Server) \in {"blank", "fresh"}
        /\ spc' = "select"
        /\ UNCHANGED net
     \/ /\ Fetched(Server) \in {"text", "fresh"}
        /\ \/ Tell
           \/ /\ Fetched(Server) = "fresh" \* it may be empty
              /\ spc' = "sock"
              /\ UNCHANGED net
  /\ UNCHANGED <<cur, queue, clients, ready, typed, clock>>

\* Mutant: the end of file is taken for an empty text.
ServerSock_NoEof ==
  /\ spc = "sock"
  /\ up' = IF "sock" \in ready[Server] THEN [up EXCEPT ![cur] = 0] ELSE up
  /\ spc' = "select"
  /\ UNCHANGED <<cur, queue, clients, input, link, down, clock>>

\* Some of the texts there are, or the end of the connection; after an RST either.
ServerSock ==
  /\ spc = "sock"
  /\ \/ /\ "sock" \notin ready[Server]
        /\ spc' = "select"
        /\ UNCHANGED <<cur, buffer, up>>
     \/ /\ "sock" \in ready[Server] /\ up[cur] > 0
        /\ \E k \in 0 .. up[cur] - 1 : up' = [up EXCEPT ![cur] = k]
        /\ buffer' = [buffer EXCEPT ![Server] = "text"]
        /\ spc' = "select"
        /\ UNCHANGED cur
     \/ /\ "sock" \in ready[Server] /\ (up[cur] = 0 \/ link[cur] = "rst")
        /\ cur' = NoClient
        /\ spc' = "accept"
        /\ UNCHANGED <<buffer, up>>
  /\ ready' = [ready EXCEPT ![Server] = {}]
  /\ UNCHANGED <<queue, clients, stdin, typed, link, down, clock>>

ServerStep == Accept \/ Select \/ ServerStdin \/ ServerSock

\* Its user interrupts it; accept() fails or the host has no name.
ServerDies ==
  /\ spc # "dead"
  /\ spc' = "dead"
  /\ UNCHANGED <<cur, queue, clients, input, net, clock>>

-------------------------------------------------------------------------------
(* myalarm() and its child processes.                                      *)

\* Mutant: the running timer is not killed.
Rearmed_NoKill(c) == Append(timers[c], TIMEOUT)

\* The newest timer, if it still runs, is killed and a new one forked.
Rearmed(c) == Append(IF timers[c] = << >> THEN << >> ELSE Front(timers[c]), TIMEOUT)

\* The kernel closes the socket of a process that ends: RST if texts are unread.
Ends(c) ==
  /\ cpc' = [cpc EXCEPT ![c] = "done"]
  /\ link' = IF link[c] # "open" THEN link
             ELSE [link EXCEPT ![c] = IF down[c] > 0 THEN "rst" ELSE "fin"]
  /\ down' = [down EXCEPT ![c] = 0]

\* At the start and after each input; when fork() fails the client exits.
MyAlarm(c) ==
  /\ cpc[c] = "arm"
  /\ \/ /\ timers' = [timers EXCEPT ![c] = Rearmed(c)]
        /\ gap' = [gap EXCEPT ![c] = 0]
        /\ cpc' = [cpc EXCEPT ![c] =
             IF kind[c] = "alarm" THEN "fgets"
             ELSE IF "stdin" \in ready[c] THEN "stdin"
             ELSE IF "sock" \in ready[c] THEN "sock" ELSE "select"]
        /\ UNCHANGED <<link, down>>
     \/ /\ timers' = [timers EXCEPT ![c] = IF @ = << >> THEN @ ELSE Front(@)]
        /\ Ends(c)
        /\ UNCHANGED gap
  /\ UNCHANGED <<server, kind, input, up, flag, stray>>

\* The child's sleep() is over: SIGALRM for its parent, if that is still there.
Fires(c) ==
  /\ \E t \in DOMAIN timers[c] :
       timers[c][t] = 0 /\ timers' = [timers EXCEPT ![c] = RemoveAt(@, t)]
  /\ CASE cpc[c] = "done" ->
            stray' = [stray EXCEPT ![c] = @ + 1] /\ UNCHANGED <<flag, cpc, link, down>>
       [] cpc[c] # "done" /\ kind[c] = "timed" ->
            flag' = [flag EXCEPT ![c] = TRUE] /\ UNCHANGED <<stray, cpc, link, down>>
       [] OTHER -> Ends(c) /\ UNCHANGED <<stray, flag>>
  /\ UNCHANGED <<server, kind, input, up, gap>>

\* One second.
Tick ==
  /\ \E c \in Client : timers[c] # << >>
  /\ timers' = [c \in Client |->
       [t \in DOMAIN timers[c] |-> IF timers[c][t] = 0 THEN 0 ELSE timers[c][t] - 1]]
  /\ gap' = [c \in Client |->
       IF timers[c] = << >> \/ cpc[c] = "done" \/ gap[c] = TIMEOUT THEN gap[c] ELSE gap[c] + 1]
  /\ UNCHANGED <<server, clients, input, net, flag, stray>>

-------------------------------------------------------------------------------
(* The clients.                                                            *)

\* The kernel completes the connection, before accept() does; alarm.c has none.
Start(c) ==
  /\ cpc[c] = "start"
  /\ IF kind[c] = "alarm" \/ spc = "dead" THEN UNCHANGED <<queue, link>>
     ELSE /\ queue' = Append(queue, c)
          /\ link' = [link EXCEPT ![c] = "open"]
  /\ cpc' = [cpc EXCEPT ![c] =
       IF kind[c] # "alarm" /\ spc = "dead" THEN "done"
       ELSE IF HasTimer(c) THEN "arm" ELSE "select"]
  /\ UNCHANGED <<spc, cur, kind, input, up, down, clock>>

\* When nothing of it is left, somebody starts another program in its place.
Again(c) ==
  /\ cpc[c] = "done" /\ timers[c] = << >>
  /\ c # cur /\ c \notin Range(queue)
  /\ \E k \in Program : kind' = [kind EXCEPT ![c] = k]
  /\ cpc' = [cpc EXCEPT ![c] = "start"]
  /\ link' = [link EXCEPT ![c] = "none"]
  /\ up' = [up EXCEPT ![c] = 0]
  /\ ready' = [ready EXCEPT ![c] = {}]
  /\ stdin' = [stdin EXCEPT ![c] = "none"]
  /\ typed' = [typed EXCEPT ![c] = 0]
  /\ buffer' = [buffer EXCEPT ![c] = "fresh"]
  /\ flag' = [flag EXCEPT ![c] = FALSE]
  /\ gap' = [gap EXCEPT ![c] = 0]
  /\ stray' = [stray EXCEPT ![c] = 0]
  /\ UNCHANGED <<server, down, timers>>

ServerGone == spc = "dead"

ClientReadable(c) == down[c] > 0 \/ ServerGone

\* select() finds something; when it does not, the loop only tests the flag.
ClientSelect(c) ==
  /\ cpc[c] = "select"
  /\ \E i \in StdinReady(c) :
       ready' = [ready EXCEPT ![c] =
                   (IF i THEN {"stdin"} ELSE {}) \cup (IF ClientReadable(c) THEN {"sock"} ELSE {})]
  /\ ready'[c] # {}
  /\ cpc' = [cpc EXCEPT ![c] =
       IF HasTimer(c) THEN "arm" ELSE IF "stdin" \in ready'[c] THEN "stdin" ELSE "sock"]
  /\ UNCHANGED <<server, kind, stdin, typed, buffer, net, clock>>

\* An empty buffer[] is written too, which sends nothing.
ClientStdin(c) ==
  /\ cpc[c] = "stdin"
  /\ buffer' = [buffer EXCEPT ![c] = Fetched(c)]
  /\ stdin' = [stdin EXCEPT ![c] = Taken(c)]
  /\ \/ /\ FALSE \in Sends(Fetched(c))
        /\ cpc' = [cpc EXCEPT ![c] = "sock"]
        /\ UNCHANGED <<link, up, down>>
     \/ /\ TRUE \in Sends(Fetched(c)) /\ up[c] < CAP
        /\ up' = [up EXCEPT ![c] = @ + 1]
        /\ cpc' = [cpc EXCEPT ![c] = "sock"]
        /\ UNCHANGED <<link, down>>
     \/ /\ TRUE \in Sends(Fetched(c)) /\ ServerGone \* SIGPIPE
        /\ Ends(c)
        /\ UNCHANGED up
  /\ UNCHANGED <<server, kind, ready, typed, clock>>

ClientSock(c) ==
  /\ cpc[c] = "sock"
  /\ \/ /\ "sock" \notin ready[c]
        /\ cpc' = [cpc EXCEPT ![c] = "check"]
        /\ UNCHANGED <<link, buffer, down>>
     \/ /\ "sock" \in ready[c] /\ down[c] > 0
        /\ \E k \in 0 .. down[c] - 1 : down' = [down EXCEPT ![c] = k]
        /\ buffer' = [buffer EXCEPT ![c] = "text"]
        /\ cpc' = [cpc EXCEPT ![c] = "check"]
        /\ UNCHANGED link
     \/ /\ "sock" \in ready[c] /\ ServerGone
        /\ Ends(c)
        /\ UNCHANGED buffer
  /\ ready' = [ready EXCEPT ![c] = {}]
  /\ UNCHANGED <<server, kind, stdin, typed, up, clock>>

\* Mutant: TIMEOUT_FLAG is tested only after an input.
Check_AfterInput(c) ==
  /\ cpc[c] = "check"
  /\ \/ /\ flag[c]
        /\ Ends(c)
     \/ /\ ~flag[c]
        /\ cpc' = [cpc EXCEPT ![c] = "select"]
        /\ UNCHANGED <<link, down>>
  /\ UNCHANGED <<server, kind, input, up, clock>>

\* The end of the loop; select() that found nothing leads here too.
Check(c) ==
  /\ cpc[c] \in {"check", "select"}
  /\ \/ /\ flag[c]
        /\ Ends(c)
     \/ /\ ~flag[c] /\ cpc[c] = "check"
        /\ cpc' = [cpc EXCEPT ![c] = "select"]
        /\ UNCHANGED <<link, down>>
  /\ UNCHANGED <<server, kind, input, up, clock>>

\* alarm.c: fgets() waits for a line, which is echoed; at the end of file it is over.
Echo(c) ==
  /\ cpc[c] = "fgets"
  /\ stdin[c] # "none"
  /\ IF stdin[c] = "eof" THEN Ends(c)
     ELSE cpc' = [cpc EXCEPT ![c] = "arm"] /\ UNCHANGED <<link, down>>
  /\ stdin' = [stdin EXCEPT ![c] = Taken(c)]
  /\ UNCHANGED <<server, kind, ready, typed, buffer, up, clock>>

ClientStep(c) ==
  MyAlarm(c) \/ ClientSelect(c) \/ ClientStdin(c) \/ ClientSock(c) \/ Check(c) \/ Echo(c)

\* The user interrupts it; a timer in the same terminal dies too.
Quit(c) ==
  /\ cpc[c] \notin {"start", "done"}
  /\ Ends(c)
  /\ \E t \in {timers[c], << >>} : timers' = [timers EXCEPT ![c] = t]
  /\ UNCHANGED <<server, kind, input, up, flag, gap, stray>>

-------------------------------------------------------------------------------
Next ==
  \/ ServerStep \/ ServerDies \/ Tick
  \/ \E u \in User : Type(u) \/ EndInput(u)
  \/ \E c \in Client : Start(c) \/ Again(c) \/ ClientStep(c) \/ Fires(c) \/ Quit(c)

Spec == Init /\ [][Next]_vars

\* Time passes and every process that can run does; nothing obliges the users.
FairSpec ==
  /\ Spec
  /\ WF_vars(ServerStep) /\ WF_vars(Tick)
  /\ \A c \in Client : WF_vars(ClientStep(c)) /\ WF_vars(Fires(c))

-------------------------------------------------------------------------------
(* Properties.                                                             *)

\* The type invariant; the server has a client but in accept().
TypeOK ==
  /\ spc \in {"accept", "select", "stdin", "sock", "dead"}
  /\ cur \in Client \cup {NoClient}
  /\ spc \in {"select", "stdin", "sock"} => cur \in Client
  /\ queue \in Seq(Client)
  /\ kind \in [Client -> Program]
  /\ cpc \in [Client -> {"start", "arm", "select", "stdin", "sock", "check", "fgets", "done"}]
  /\ ready \in [User -> SUBSET {"stdin", "sock"}]
  /\ stdin \in [User -> {"none", "blank", "text", "eof"}]
  /\ typed \in [User -> 0 .. MaxLines]
  /\ buffer \in [User -> {"fresh", "blank", "text"}]
  /\ link \in [Client -> {"none", "open", "fin", "rst"}]
  /\ up \in [Client -> 0 .. CAP] /\ down \in [Client -> 0 .. CAP]
  /\ flag \in [Client -> BOOLEAN]
  /\ timers \in [Client -> Seq(0 .. TIMEOUT)] /\ gap \in [Client -> 0 .. TIMEOUT]
  /\ stray \in [Client -> Nat]

\* An alarm that reaches a client comes TIMEOUT seconds after the last input it
\* restarted its timer for: none of an earlier timer gets through.
NoEarlyAlarm ==
  [][\A c \in Client : Fires(c) /\ cpc[c] # "done" => gap[c] = TIMEOUT]_vars

\* There is at most one timer process, and it sends at most one SIGALRM to a
\* process that is not its parent, after the client has ended otherwise.
OneTimer == \A c \in Client : Len(timers[c]) + stray[c] <= 1

\* A client with a timer ends when its users fall silent, wherever in its loop
\* the alarm comes. (At the end of a file standard input is always readable,
\* which restarts the timer for ever; and an alarm does not end a write() that
\* waits for a full socket, which takes more lines than the kernel keeps.)
IdleEnds ==
  \A c \in Client :
    (HasTimer(c) /\ cpc[c] # "start") ~> (cpc[c] = "done" \/ "eof" \in {stdin[c], stdin[Server]})

\* When its client has gone the server turns to the next one, except in the one
\* case that its own input ended after a blank line: then it never reads again.
ClientReleased ==
  \A c \in Client :
    (cur = c /\ cpc[c] = "done") ~>
      (cur # c \/ spc = "dead" \/ (stdin[Server] = "eof" /\ buffer[Server] \in {"blank", "fresh"}))
===============================================================================

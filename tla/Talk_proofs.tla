------------------------------- MODULE Talk_proofs -------------------------------
(***************************************************************************)
(* Proofs about the timer of myalarm(), for any number of clients, any     *)
(* timeout and wherever in its loop the alarm reaches a client.            *)
(***************************************************************************)
EXTENDS Talk, SequenceTheorems, TLAPS

\* What select() has announced is still there when fgets() reads it: nobody else does.
InputOK ==
  /\ spc = "stdin" => stdin[Server] # "none"
  /\ \A c \in Client :
       /\ cpc[c] = "stdin" => stdin[c] # "none"
       /\ cpc[c] = "arm" /\ "stdin" \in ready[c] => stdin[c] # "none"
       /\ cpc[c] = "start" \/ kind[c] = "alarm" => ready[c] = {}
       /\ kind[c] = "alarm" => cpc[c] \in {"start", "arm", "fgets", "done"}
       /\ cpc[c] = "fgets" => kind[c] = "alarm"

\* A running client is the parent of its timer, which was started gap seconds ago.
TimerOK(c) ==
  /\ cpc[c] # "done" => stray[c] = 0
  /\ Len(timers[c]) + stray[c] <= 1
  /\ cpc[c] # "done" /\ timers[c] # << >> => timers[c][1] + gap[c] = TIMEOUT

IInv == TypeOK /\ InputOK /\ \A c \in Client : TimerOK(c)

-------------------------------------------------------------------------------
(* Lists of timers.                                                        *)

Timers == Seq(0 .. TIMEOUT)

LEMMA FrontOne ==
  ASSUME NEW S, NEW s \in Seq(S), Len(s) <= 1
  PROVE  (IF s = << >> THEN s ELSE Front(s)) = << >>
BY SMT DEF Front

LEMMA RemoveOne ==
  ASSUME NEW S, NEW s \in Seq(S), Len(s) <= 1, NEW t \in DOMAIN s
  PROVE  Len(s) = 1 /\ t = 1 /\ RemoveAt(s, t) = << >>
<1>1. Len(s) = 1 /\ t = 1
  <2>1. Len(s) \in Nat /\ DOMAIN s = 1 .. Len(s)
    BY LenProperties
  <2> QED BY <2>1
<1>2. SubSeq(s, 1, 0) = << >> /\ SubSeq(s, 2, 1) = << >>
  BY SubSeqEmpty
<1> QED BY <1>1, <1>2 DEF RemoveAt

\* A second passes for every timer of a list.
LEMMA TickedOne ==
  ASSUME NEW s \in Timers
  PROVE  LET r == [t \in DOMAIN s |-> IF s[t] = 0 THEN 0 ELSE s[t] - 1]
         IN r \in Timers /\ Len(r) = Len(s)
<1> DEFINE r == [t \in DOMAIN s |-> IF s[t] = 0 THEN 0 ELSE s[t] - 1]
<1>1. DOMAIN s = 1 .. Len(s) /\ Len(s) \in Nat
  BY DEF Timers
<1>2. \A t \in DOMAIN s : s[t] \in 0 .. TIMEOUT
  BY <1>1, ElementOfSeq DEF Timers
<1>3. \A t \in 1 .. Len(s) : (IF s[t] = 0 THEN 0 ELSE s[t] - 1) \in 0 .. TIMEOUT
  BY <1>1, <1>2, TalkAssumption
<1>4. r \in [1 .. Len(s) -> 0 .. TIMEOUT]
  BY <1>1, <1>3
<1>5. r \in Seq(0 .. TIMEOUT)
  BY <1>1, <1>4, SeqDef
<1> QED BY <1>1, <1>4, <1>5, LenProperties DEF Timers

\* The newest timer is the only one.
LEMMA RearmedOne ==
  ASSUME NEW c \in Client, timers[c] \in Timers, Len(timers[c]) <= 1
  PROVE  Rearmed(c) = <<TIMEOUT>> /\ Rearmed(c) \in Timers
<1>1. (IF timers[c] = << >> THEN timers[c] ELSE Front(timers[c])) = << >>
  BY FrontOne DEF Timers
<1>2. Append(<< >>, TIMEOUT) = <<TIMEOUT>> /\ TIMEOUT \in 0 .. TIMEOUT
  BY TalkAssumption
<1>3. Rearmed(c) = <<TIMEOUT>>
  BY <1>1, <1>2 DEF Rearmed
<1> QED BY <1>2, <1>3 DEF Timers

-------------------------------------------------------------------------------
LEMMA InitIInv == Init => IInv
<1> SUFFICES ASSUME Init PROVE IInv
  OBVIOUS
<1> USE TalkAssumption
<1>1. TypeOK
  BY DEF Init, TypeOK
<1>2. InputOK
  BY DEF Init, InputOK, User, Server
<1>3. \A c \in Client : TimerOK(c)
  BY DEF Init, TimerOK
<1> QED BY <1>1, <1>2, <1>3 DEF IInv

\* The actions that do not touch the timers.
LEMMA TimersKept ==
  ASSUME \A c \in Client : TimerOK(c), UNCHANGED <<timers, gap, stray>>,
         \A c \in Client : cpc[c] = "done" => cpc'[c] = "done"
  PROVE  \A c \in Client : TimerOK(c)'
BY DEF TimerOK

LEMMA ServerIInv == IInv /\ (ServerStep \/ ServerDies) => IInv'
<1> SUFFICES ASSUME IInv, ServerStep \/ ServerDies PROVE IInv'
  OBVIOUS
<1> USE TalkAssumption DEF IInv
<1>0. \A c \in Client : TimerOK(c)'
  BY TimersKept DEF ServerStep, ServerDies, Accept, Select, ServerStdin, ServerSock, clock, clients
<1>1. CASE Accept
  <2>1. Head(queue) \in Client /\ Tail(queue) \in Seq(Client)
    BY <1>1 DEF Accept, TypeOK
  <2> QED BY <1>0, <1>1, <2>1 DEF Accept, TypeOK, InputOK, clients, input, net, clock
<1>2. CASE Select
  <2>1. TypeOK'
    BY SMTT(20), <1>2 DEF Select, TypeOK, clients, net, clock, User
  <2>2. Server \in User /\ \A c \in Client : c \in User /\ c # Server
    BY DEF User
  <2>3. \A c \in Client : ready'[c] = ready[c]
    BY <1>2, <2>2 DEF Select, TypeOK
  <2>4. spc' = "stdin" => stdin[Server] # "none"
    <3>1. PICK i \in StdinReady(Server) :
            ready' = [ready EXCEPT ![Server] =
              (IF i THEN {"stdin"} ELSE {}) \cup (IF Readable(cur) THEN {"sock"} ELSE {})]
      BY <1>2 DEF Select
    <3>2. ready'[Server] =
            (IF i THEN {"stdin"} ELSE {}) \cup (IF Readable(cur) THEN {"sock"} ELSE {})
      BY <2>2, <3>1 DEF TypeOK
    <3>3. stdin[Server] = "none" => i = FALSE
      BY DEF StdinReady
    <3>4. stdin[Server] = "none" => "stdin" \notin ready'[Server]
      BY <3>2, <3>3
    <3> QED BY <1>2, <3>4 DEF Select
  <2>5. InputOK'
    BY <1>2, <2>3, <2>4 DEF Select, InputOK, clients
  <2> QED BY <1>0, <2>1, <2>5
<1>3. CASE ServerStdin
  <2>1. cur \in Client /\ Server \in User /\ stdin[Server] # "none"
    BY <1>3 DEF ServerStdin, TypeOK, InputOK, User
  <2>2. Fetched(Server) \in {"fresh", "blank", "text"} /\ Taken(Server) \in {"eof", "none"}
    BY <2>1 DEF Fetched, Taken, TypeOK
  <2>3. spc' \in {"select", "sock", "dead"}
    BY <1>3 DEF ServerStdin, Tell
  <2>4. up' \in [Client -> 0 .. CAP] /\ down' \in [Client -> 0 .. CAP]
        /\ link' \in [Client -> {"none", "open", "fin", "rst"}]
    <3>1. CASE UNCHANGED net
      BY <3>1 DEF net, TypeOK
    <3>2. CASE Tell /\ ~UNCHANGED net
      <4>1. CASE link[cur] = "open"
        <5>1. down[cur] \in 0 .. CAP /\ down[cur] < CAP /\ down' = [down EXCEPT ![cur] = @ + 1]
              /\ UNCHANGED <<link, up>>
          BY <2>1, <3>2, <4>1 DEF Tell, TypeOK
        <5>2. down[cur] + 1 \in 0 .. CAP
          BY <5>1
        <5> QED BY <2>1, <5>1, <5>2 DEF TypeOK
      <4>2. CASE link[cur] # "open"
        <5>1. PICK l \in {"fin", "rst"} : link' = [link EXCEPT ![cur] = l] /\ UNCHANGED <<up, down>>
          BY <3>2, <4>2 DEF Tell
        <5> QED BY <2>1, <5>1 DEF TypeOK
      <4> QED BY <4>1, <4>2
    <3> QED BY <1>3, <3>1, <3>2 DEF ServerStdin
  <2>5. TypeOK'
    BY <1>3, <2>1, <2>2, <2>3, <2>4 DEF ServerStdin, TypeOK, clients, clock
  <2>6. InputOK'
    BY <1>3, <2>3 DEF ServerStdin, TypeOK, InputOK, clients
  <2> QED BY <1>0, <2>5, <2>6
<1>4. CASE ServerSock
  <2>1. cur \in Client /\ Server \in User
    BY <1>4 DEF ServerSock, TypeOK, User
  <2>5. up' \in [Client -> 0 .. CAP] /\ buffer' \in [User -> {"fresh", "blank", "text"}]
    <3>1. CASE UNCHANGED <<up, buffer>>
      BY <3>1 DEF TypeOK
    <3>2. CASE ~UNCHANGED <<up, buffer>>
      <4>1. PICK k \in 0 .. up[cur] - 1 : up' = [up EXCEPT ![cur] = k]
        BY <1>4, <3>2 DEF ServerSock
      <4>2. k \in 0 .. CAP
        BY <2>1, <4>1 DEF TypeOK
      <4>3. buffer' = [buffer EXCEPT ![Server] = "text"]
        BY <1>4, <3>2 DEF ServerSock
      <4> QED BY <2>1, <4>1, <4>2, <4>3 DEF TypeOK
    <3> QED BY <3>1, <3>2
  <2>6. cur' \in Client \cup {NoClient} /\ spc' \in {"select", "accept"}
         /\ (spc' = "select" => cur' \in Client)
    BY <1>4, <2>1 DEF ServerSock
  <2>7. ready' \in [User -> SUBSET {"stdin", "sock"}]
    BY <1>4, <2>1 DEF ServerSock, TypeOK
  <2>2. TypeOK'
    BY <1>4, <2>5, <2>6, <2>7 DEF ServerSock, TypeOK, clients, clock
  <2>3. InputOK'
    BY <1>4 DEF ServerSock, TypeOK, InputOK, clients
  <2> QED BY <1>0, <2>2, <2>3
<1>5. CASE ServerDies
  BY <1>0, <1>5 DEF ServerDies, TypeOK, InputOK, clients, input, net, clock
<1> QED BY <1>1, <1>2, <1>3, <1>4, <1>5 DEF ServerStep

LEMMA UserIInv == ASSUME NEW u \in User PROVE IInv /\ (Type(u) \/ EndInput(u)) => IInv'
<1> SUFFICES ASSUME IInv, Type(u) \/ EndInput(u) PROVE IInv'
  OBVIOUS
<1> USE TalkAssumption DEF IInv
<1>0. \A c \in Client : TimerOK(c)'
  BY TimersKept DEF Type, EndInput, clock, clients
<1>1. TypeOK'
  <2>1. typed' \in [User -> 0 .. MaxLines]
    <3>1. CASE Type(u)
      <4>1. typed[u] \in 0 .. MaxLines /\ typed[u] < MaxLines
        BY <3>1 DEF Type, TypeOK
      <4>2. typed[u] + 1 \in 0 .. MaxLines
        BY <4>1
      <4> QED BY <3>1, <4>2 DEF Type, TypeOK
    <3>2. CASE EndInput(u)
      BY <3>2 DEF EndInput, TypeOK
    <3> QED BY <3>1, <3>2
  <2>2. stdin' \in [User -> {"none", "blank", "text", "eof"}]
    BY DEF Type, EndInput, TypeOK
  <2> QED BY <2>1, <2>2 DEF Type, EndInput, TypeOK, server, clients, net, clock
<1>2. InputOK'
  BY ZenonT(20) DEF Type, EndInput, TypeOK, InputOK, server, clients, User
<1> QED BY <1>0, <1>1, <1>2

\* A client that ends: its timer may still run, and is not its child any more.
LEMMA EndsTypes ==
  ASSUME NEW c \in Client, TypeOK, Ends(c)
  PROVE  /\ cpc' = [cpc EXCEPT ![c] = "done"]
         /\ link' \in [Client -> {"none", "open", "fin", "rst"}]
         /\ down' \in [Client -> 0 .. CAP]
<1>1. 0 \in 0 .. CAP
  BY TalkAssumption
<1> QED BY <1>1 DEF Ends, TypeOK

\* A step of one client.
LEMMA InputStep ==
  ASSUME NEW c \in Client, TypeOK, InputOK, UNCHANGED <<spc, kind>>,
         stdin'[Server] = stdin[Server],
         \A d \in Client \ {c} : stdin'[d] = stdin[d] /\ cpc'[d] = cpc[d] /\ ready'[d] = ready[d],
         /\ cpc'[c] = "stdin" => stdin'[c] # "none"
         /\ cpc'[c] = "arm" /\ "stdin" \in ready'[c] => stdin'[c] # "none"
         /\ cpc'[c] = "start" \/ kind[c] = "alarm" => ready'[c] = {}
         /\ kind[c] = "alarm" => cpc'[c] \in {"start", "arm", "fgets", "done"}
         /\ cpc'[c] = "fgets" => kind[c] = "alarm"
  PROVE  InputOK'
<1> DEFINE P(d) == /\ cpc'[d] = "stdin" => stdin'[d] # "none"
                   /\ cpc'[d] = "arm" /\ "stdin" \in ready'[d] => stdin'[d] # "none"
                   /\ cpc'[d] = "start" \/ kind'[d] = "alarm" => ready'[d] = {}
                   /\ kind'[d] = "alarm" => cpc'[d] \in {"start", "arm", "fgets", "done"}
                   /\ cpc'[d] = "fgets" => kind'[d] = "alarm"
<1>1. P(c)
  OBVIOUS
<1>2. ASSUME NEW d \in Client, d # c PROVE P(d)
  BY <1>2 DEF InputOK
<1>3. spc' = "stdin" => stdin'[Server] # "none"
  BY DEF InputOK
<1> QED BY <1>1, <1>2, <1>3 DEF InputOK

\* It ends.
LEMMA InputEnds ==
  ASSUME NEW c \in Client, TypeOK, InputOK, UNCHANGED <<spc, kind, ready, stdin>>,
         cpc' = [cpc EXCEPT ![c] = "done"]
  PROVE  InputOK'
<1>1. cpc'[c] = "done" /\ \A d \in Client \ {c} : cpc'[d] = cpc[d]
  BY DEF TypeOK
<1>2. kind[c] = "alarm" => ready'[c] = {}
  BY DEF InputOK
<1> QED BY <1>1, <1>2, InputStep

LEMMA MyAlarmIInv == ASSUME NEW c \in Client, IInv, MyAlarm(c) PROVE IInv'
<1> USE TalkAssumption
<1>1. TypeOK /\ InputOK /\ cpc[c] = "arm" /\ TimerOK(c) /\ c \in User
  BY DEF IInv, MyAlarm, User
<1>2. timers[c] \in Timers /\ Len(timers[c]) <= 1 /\ stray[c] = 0
  BY <1>1 DEF TypeOK, TimerOK, Timers
<1>3. UNCHANGED <<server, kind, input, up, flag, stray>>
  BY DEF MyAlarm
<1>4. CASE /\ timers' = [timers EXCEPT ![c] = Rearmed(c)]
           /\ gap' = [gap EXCEPT ![c] = 0]
           /\ cpc' = [cpc EXCEPT ![c] =
                IF kind[c] = "alarm" THEN "fgets"
                ELSE IF "stdin" \in ready[c] THEN "stdin"
                ELSE IF "sock" \in ready[c] THEN "sock" ELSE "select"]
           /\ UNCHANGED <<link, down>>
  <2>1. Rearmed(c) = <<TIMEOUT>> /\ Rearmed(c) \in Timers
    BY <1>2, RearmedOne
  <2>2. timers' \in [Client -> Timers] /\ gap' \in [Client -> 0 .. TIMEOUT]
    BY <1>1, <1>4, <2>1 DEF TypeOK, Timers
  <2>3. cpc' \in [Client -> {"start", "arm", "select", "stdin", "sock", "check", "fgets", "done"}]
    BY <1>1, <1>4 DEF TypeOK
  <2>4. TypeOK'
    BY <1>1, <1>3, <1>4, <2>2, <2>3 DEF TypeOK, Timers, server, input
  <2>5. InputOK'
    BY <1>1, <1>3, <1>4 DEF TypeOK, InputOK, server, input
  <2>6. ASSUME NEW d \in Client PROVE TimerOK(d)'
    <3>1. CASE d = c
      <4>1. timers'[d] = <<TIMEOUT>> /\ gap'[d] = 0 /\ stray'[d] = 0
        BY <1>1, <1>2, <1>3, <1>4, <2>1, <3>1 DEF TypeOK
      <4>2. Len(<<TIMEOUT>>) = 1 /\ <<TIMEOUT>>[1] = TIMEOUT
        OBVIOUS
      <4> QED BY <4>1, <4>2 DEF TimerOK
    <3>2. CASE d # c
      BY <1>1, <1>3, <1>4, <3>2 DEF IInv, TimerOK, TypeOK
    <3> QED BY <3>1, <3>2
  <2> QED BY <2>4, <2>5, <2>6 DEF IInv
<1>5. CASE /\ timers' = [timers EXCEPT ![c] = IF @ = << >> THEN @ ELSE Front(@)]
           /\ Ends(c)
           /\ UNCHANGED gap
  <2>1. timers' = [timers EXCEPT ![c] = << >>] /\ << >> \in Timers
    <3>1. (IF timers[c] = << >> THEN timers[c] ELSE Front(timers[c])) = << >>
      BY <1>2, FrontOne DEF Timers
    <3>2. << >> \in Seq(0 .. TIMEOUT)
      OBVIOUS
    <3> QED BY <1>5, <3>1, <3>2 DEF Timers
  <2>2. timers' \in [Client -> Timers]
    BY <1>1, <2>1 DEF TypeOK, Timers
  <2>3. TypeOK'
    BY <1>1, <1>3, <1>5, <2>2, EndsTypes DEF TypeOK, Timers, server, input
  <2>4. InputOK'
    BY <1>1, <1>3, <1>5, EndsTypes, InputEnds DEF server, input
  <2>5. ASSUME NEW d \in Client PROVE TimerOK(d)'
    <3>1. CASE d = c
      <4>1. timers'[d] = << >> /\ stray'[d] = 0 /\ Len(<< >>) = 0
        BY <1>1, <1>2, <1>3, <2>1, <3>1 DEF TypeOK
      <4> QED BY <4>1 DEF TimerOK
    <3>2. CASE d # c
      BY <1>1, <1>3, <1>5, <2>1, <3>2, EndsTypes DEF IInv, TimerOK, TypeOK
    <3> QED BY <3>1, <3>2
  <2> QED BY <2>3, <2>4, <2>5 DEF IInv
<1> QED BY <1>4, <1>5 DEF MyAlarm

LEMMA FiresIInv == ASSUME NEW c \in Client, IInv, Fires(c) PROVE IInv'
<1> USE TalkAssumption
<1>1. TypeOK /\ InputOK /\ TimerOK(c) /\ c \in User
  BY DEF IInv, User
<1>2. PICK t \in DOMAIN timers[c] : timers[c][t] = 0 /\ timers' = [timers EXCEPT ![c] = RemoveAt(@, t)]
  BY DEF Fires
<1>3. Len(timers[c]) = 1 /\ stray[c] = 0 /\ RemoveAt(timers[c], t) = << >>
  <2>1. timers[c] \in Seq(0 .. TIMEOUT) /\ Len(timers[c]) <= 1 /\ stray[c] \in Nat
    BY <1>1, LenProperties DEF TypeOK, TimerOK
  <2>2. Len(timers[c]) = 1 /\ RemoveAt(timers[c], t) = << >>
    BY <2>1, RemoveOne
  <2> QED BY <1>1, <2>1, <2>2 DEF TimerOK
<1>4. timers' = [timers EXCEPT ![c] = << >>] /\ << >> \in Seq(0 .. TIMEOUT) /\ Len(<< >>) = 0
  BY <1>2, <1>3
<1>5. UNCHANGED <<server, kind, input, up, gap>>
  BY DEF Fires
<1>6. \/ cpc[c] = "done" /\ stray' = [stray EXCEPT ![c] = @ + 1] /\ UNCHANGED <<flag, cpc, link, down>>
      \/ cpc[c] # "done" /\ flag' = [flag EXCEPT ![c] = TRUE] /\ UNCHANGED <<stray, cpc, link, down>>
      \/ cpc[c] # "done" /\ Ends(c) /\ UNCHANGED <<stray, flag>>
  BY DEF Fires
<1>7. timers' \in [Client -> Seq(0 .. TIMEOUT)]
  BY <1>1, <1>4 DEF TypeOK
<1>8. ASSUME NEW d \in Client, d # c PROVE TimerOK(d)'
  BY ZenonT(20), <1>1, <1>4, <1>5, <1>6, <1>8, EndsTypes DEF IInv, TimerOK, TypeOK
<1>9. CASE cpc[c] = "done" /\ stray' = [stray EXCEPT ![c] = @ + 1] /\ UNCHANGED <<flag, cpc, link, down>>
  <2>1. stray' \in [Client -> Nat] /\ stray'[c] = 1
    BY <1>1, <1>3, <1>9 DEF TypeOK
  <2>2. TypeOK' /\ InputOK'
    BY <1>1, <1>5, <1>7, <1>9, <2>1 DEF TypeOK, InputOK, server, input
  <2>3. TimerOK(c)'
    BY <1>1, <1>4, <1>9, <2>1 DEF TimerOK, TypeOK
  <2> QED BY <1>8, <2>2, <2>3 DEF IInv
<1>10. CASE cpc[c] # "done" /\ flag' = [flag EXCEPT ![c] = TRUE] /\ UNCHANGED <<stray, cpc, link, down>>
  <2>1. TypeOK' /\ InputOK'
    BY <1>1, <1>5, <1>7, <1>10 DEF TypeOK, InputOK, server, input
  <2>2. TimerOK(c)'
    BY <1>1, <1>3, <1>4, <1>10 DEF TimerOK, TypeOK
  <2> QED BY <1>8, <2>1, <2>2 DEF IInv
<1>11. CASE cpc[c] # "done" /\ Ends(c) /\ UNCHANGED <<stray, flag>>
  <2>1. TypeOK' /\ InputOK'
    <3>1. TypeOK'
      BY <1>1, <1>5, <1>7, <1>11, EndsTypes DEF TypeOK, server, input
    <3>2. InputOK'
      BY <1>1, <1>5, <1>11, EndsTypes, InputEnds DEF server, input
    <3> QED BY <3>1, <3>2
  <2>2. TimerOK(c)'
    BY <1>1, <1>3, <1>4, <1>11 DEF TimerOK, TypeOK
  <2> QED BY <1>8, <2>1, <2>2 DEF IInv
<1> QED BY <1>6, <1>9, <1>10, <1>11

LEMMA TickIInv == IInv /\ Tick => IInv'
<1> SUFFICES ASSUME IInv, Tick PROVE IInv'
  OBVIOUS
<1> USE TalkAssumption
<1>1. TypeOK /\ InputOK /\ UNCHANGED <<server, clients, input, net, flag, stray>>
  BY DEF IInv, Tick
<1>2. ASSUME NEW c \in Client
      PROVE  /\ timers'[c] \in Timers /\ Len(timers'[c]) = Len(timers[c])
             /\ gap'[c] \in 0 .. TIMEOUT
             /\ TimerOK(c)'
  <2>1. timers[c] \in Timers /\ gap[c] \in 0 .. TIMEOUT /\ stray[c] \in Nat
    BY <1>1 DEF TypeOK, Timers
  <2>2. timers'[c] = [t \in DOMAIN timers[c] |-> IF timers[c][t] = 0 THEN 0 ELSE timers[c][t] - 1]
    BY DEF Tick
  <2>3. timers'[c] \in Timers /\ Len(timers'[c]) = Len(timers[c])
    BY <2>1, <2>2, TickedOne
  <2>4. gap'[c] = IF timers[c] = << >> \/ cpc[c] = "done" \/ gap[c] = TIMEOUT THEN gap[c] ELSE gap[c] + 1
    BY DEF Tick
  <2>5. gap'[c] \in 0 .. TIMEOUT
    BY <2>1, <2>4
  <2>6. TimerOK(c) /\ UNCHANGED <<cpc, stray>>
    BY <1>1 DEF IInv, clients
  <2>7. ASSUME cpc'[c] # "done", timers'[c] # << >> PROVE timers'[c][1] + gap'[c] = TIMEOUT
    <3>1. Len(timers[c]) = 1 /\ timers[c] # << >>
      <4>1. Len(timers'[c]) \in Nat \ {0}
        BY <2>3, <2>7, EmptySeq DEF Timers
      <4>2. Len(timers[c]) = 1
        <5>1. Len(timers[c]) \in Nat \ {0} /\ Len(timers[c]) + stray[c] <= 1
          BY <2>3, <2>6, <4>1 DEF TimerOK
        <5>2. stray[c] \in Nat
          BY <2>1
        <5>3. \A a \in Nat \ {0}, b \in Nat : a + b <= 1 => a = 1
          OBVIOUS
        <5> QED BY <5>1, <5>2, <5>3
      <4> QED BY <4>2, EmptySeq
    <3>2. 1 \in DOMAIN timers[c] /\ timers[c][1] \in 0 .. TIMEOUT
      BY <2>1, <3>1, LenProperties, ElementOfSeq DEF Timers
    <3>3. timers[c][1] + gap[c] = TIMEOUT
      BY <2>6, <2>7, <3>1 DEF TimerOK
    <3>4. timers'[c][1] = IF timers[c][1] = 0 THEN 0 ELSE timers[c][1] - 1
      BY <2>2, <3>2
    <3>5. gap'[c] = IF gap[c] = TIMEOUT THEN gap[c] ELSE gap[c] + 1
      BY <2>4, <2>6, <2>7, <3>1
    <3> QED BY <2>1, <3>2, <3>3, <3>4, <3>5
  <2> QED BY <2>3, <2>5, <2>6, <2>7 DEF TimerOK
<1>3. timers' \in [Client -> Seq(0 .. TIMEOUT)] /\ gap' \in [Client -> 0 .. TIMEOUT]
  BY <1>2 DEF Tick, Timers
<1>4. TypeOK' /\ InputOK'
  BY <1>1, <1>3 DEF TypeOK, InputOK, server, clients, input, net
<1> QED BY <1>2, <1>4 DEF IInv

LEMMA StartIInv == ASSUME NEW c \in Client, IInv, Start(c) PROVE IInv'
<1> USE TalkAssumption DEF IInv
<1>1. \A d \in Client : TimerOK(d)'
  BY DEF Start, TimerOK, TypeOK, clock
<1>2. Append(queue, c) \in Seq(Client)
  BY DEF TypeOK
<1>3. queue' \in Seq(Client) /\ link' \in [Client -> {"none", "open", "fin", "rst"}]
  BY <1>2 DEF Start, TypeOK
<1>4. TypeOK'
  BY <1>3 DEF Start, TypeOK, input, clock
<1>5. InputOK'
  <2>1. ready[c] = {} /\ UNCHANGED <<spc, kind, stdin, ready>> /\ cpc[c] = "start"
    BY DEF Start, InputOK, input
  <2>2. cpc'[c] = IF kind[c] # "alarm" /\ spc = "dead" THEN "done"
                  ELSE IF HasTimer(c) THEN "arm" ELSE "select"
    BY DEF Start, TypeOK
  <2>3. \A d \in Client \ {c} : cpc'[d] = cpc[d]
    BY DEF Start, TypeOK
  <2>4. kind[c] = "alarm" => HasTimer(c)
    BY DEF HasTimer
  <2> QED BY <2>1, <2>2, <2>3, <2>4, InputStep
<1> QED BY <1>1, <1>4, <1>5

LEMMA AgainIInv == ASSUME NEW c \in Client, IInv, Again(c) PROVE IInv'
<1> USE TalkAssumption DEF IInv
<1>0. c \in User /\ c # Server
  BY DEF User
<1>1. PICK k \in Program : kind' = [kind EXCEPT ![c] = k]
  BY DEF Again
<1>2. 0 \in 0 .. CAP /\ 0 \in 0 .. MaxLines /\ 0 \in 0 .. TIMEOUT
  OBVIOUS
<1>3. TypeOK'
  BY <1>0, <1>1, <1>2 DEF Again, TypeOK, server
<1>4. InputOK'
  BY <1>0, <1>1 DEF Again, TypeOK, InputOK, server, User
<1>5. Len(<< >>) = 0
  OBVIOUS
<1>6. \A d \in Client : TimerOK(d)'
  BY <1>5 DEF Again, TimerOK, TypeOK
<1> QED BY <1>3, <1>4, <1>6

\* The steps of a client's loop leave its timer alone.
LEMMA LoopTimers ==
  ASSUME NEW c \in Client, IInv,
         ClientSelect(c) \/ ClientStdin(c) \/ ClientSock(c) \/ Check(c) \/ Echo(c)
  PROVE  \A d \in Client : TimerOK(d)'
<1>1. UNCHANGED <<timers, gap, stray>>
  BY DEF ClientSelect, ClientStdin, ClientSock, Check, Echo, clock
<1>2. cpc[c] # "done"
  BY DEF ClientSelect, ClientStdin, ClientSock, Check, Echo
<1>3. ASSUME NEW d \in Client, d # c PROVE cpc'[d] = cpc[d]
  BY <1>3 DEF IInv, TypeOK, ClientSelect, ClientStdin, ClientSock, Check, Echo, Ends
<1> QED BY <1>1, <1>2, <1>3 DEF IInv, TimerOK

LEMMA ClientSelectIInv == ASSUME NEW c \in Client, IInv, ClientSelect(c) PROVE IInv'
<1> USE TalkAssumption DEF IInv
<1>0. c \in User /\ c # Server /\ Client \subseteq User
  BY DEF User
<1>1. PICK i \in StdinReady(c) :
        ready' = [ready EXCEPT ![c] =
          (IF i THEN {"stdin"} ELSE {}) \cup (IF ClientReadable(c) THEN {"sock"} ELSE {})]
  BY DEF ClientSelect
<1>2. ready'[c] = (IF i THEN {"stdin"} ELSE {}) \cup (IF ClientReadable(c) THEN {"sock"} ELSE {})
  BY <1>0, <1>1 DEF TypeOK
<1>3. stdin[c] = "none" => i = FALSE
  BY DEF StdinReady
<1>4. "stdin" \in ready'[c] => stdin[c] # "none"
  BY <1>2, <1>3
<1>5. TypeOK'
  BY <1>0, <1>1, <1>2 DEF ClientSelect, TypeOK, server, net, clock
<1>6. UNCHANGED <<spc, kind, stdin>> /\ \A d \in Client : d # c => ready'[d] = ready[d] /\ cpc'[d] = cpc[d]
  BY <1>0, <1>1 DEF ClientSelect, TypeOK, server
<1>7. cpc'[c] \in {"arm", "stdin", "sock"} /\ (cpc'[c] = "stdin" => "stdin" \in ready'[c])
      /\ kind[c] # "alarm"
  BY <1>0 DEF ClientSelect, TypeOK, InputOK
<1>8. InputOK'
  BY <1>4, <1>6, <1>7 DEF InputOK
<1> QED BY <1>5, <1>8, LoopTimers

LEMMA ClientStdinIInv == ASSUME NEW c \in Client, IInv, ClientStdin(c) PROVE IInv'
<1> USE TalkAssumption DEF IInv
<1>0. c \in User /\ c # Server /\ Server \in User /\ Client \subseteq User /\ cpc[c] = "stdin"
  BY DEF User, ClientStdin
<1>1. Fetched(c) \in {"fresh", "blank", "text"} /\ Taken(c) \in {"eof", "none"}
  BY <1>0 DEF Fetched, Taken, TypeOK, InputOK
<1>2. /\ up' \in [Client -> 0 .. CAP] /\ down' \in [Client -> 0 .. CAP]
      /\ link' \in [Client -> {"none", "open", "fin", "rst"}]
      /\ cpc' = [cpc EXCEPT ![c] = "sock"] \/ cpc' = [cpc EXCEPT ![c] = "done"]
  <2>1. CASE UNCHANGED <<link, up, down>> /\ cpc' = [cpc EXCEPT ![c] = "sock"]
    BY <2>1 DEF TypeOK
  <2>2. CASE up[c] < CAP /\ up' = [up EXCEPT ![c] = @ + 1] /\ UNCHANGED <<link, down>>
             /\ cpc' = [cpc EXCEPT ![c] = "sock"]
    <3>1. up[c] + 1 \in 0 .. CAP
      BY <2>2 DEF TypeOK
    <3> QED BY <2>2, <3>1 DEF TypeOK
  <2>3. CASE Ends(c) /\ UNCHANGED up
    BY <2>3, EndsTypes DEF TypeOK
  <2> QED BY <2>1, <2>2, <2>3 DEF ClientStdin
<1>3. TypeOK'
  BY <1>0, <1>1, <1>2 DEF ClientStdin, TypeOK, server, clock
<1>4. InputOK'
  <2>1. UNCHANGED <<spc, kind, ready>> /\ stdin'[Server] = stdin[Server]
        /\ \A d \in Client \ {c} : stdin'[d] = stdin[d] /\ cpc'[d] = cpc[d] /\ ready'[d] = ready[d]
    BY SMTT(20), <1>0, <1>2 DEF ClientStdin, TypeOK, server
  <2>2. cpc'[c] \in {"sock", "done"} /\ kind[c] # "alarm"
    BY <1>0, <1>2 DEF TypeOK, InputOK
  <2> QED BY <2>1, <2>2, InputStep
<1> QED BY <1>3, <1>4, LoopTimers

LEMMA ClientSockIInv == ASSUME NEW c \in Client, IInv, ClientSock(c) PROVE IInv'
<1> USE TalkAssumption DEF IInv
<1>0. c \in User /\ c # Server /\ Client \subseteq User /\ cpc[c] = "sock"
  BY DEF User, ClientSock
<1>1. /\ down' \in [Client -> 0 .. CAP] /\ buffer' \in [User -> {"fresh", "blank", "text"}]
      /\ link' \in [Client -> {"none", "open", "fin", "rst"}]
      /\ cpc' = [cpc EXCEPT ![c] = "check"] \/ cpc' = [cpc EXCEPT ![c] = "done"]
  <2>1. CASE UNCHANGED <<link, buffer, down>> /\ cpc' = [cpc EXCEPT ![c] = "check"]
    BY <2>1 DEF TypeOK
  <2>2. CASE /\ \E k \in 0 .. down[c] - 1 : down' = [down EXCEPT ![c] = k]
             /\ buffer' = [buffer EXCEPT ![c] = "text"]
             /\ cpc' = [cpc EXCEPT ![c] = "check"] /\ UNCHANGED link
    <3>1. PICK k \in 0 .. down[c] - 1 : down' = [down EXCEPT ![c] = k]
      BY <2>2
    <3>2. k \in 0 .. CAP
      BY <3>1 DEF TypeOK
    <3> QED BY <1>0, <2>2, <3>1, <3>2 DEF TypeOK
  <2>3. CASE Ends(c) /\ UNCHANGED buffer
    BY <2>3, EndsTypes DEF TypeOK
  <2> QED BY <2>1, <2>2, <2>3 DEF ClientSock
<1>2. TypeOK'
  BY <1>0, <1>1 DEF ClientSock, TypeOK, server, clock
<1>3. InputOK'
  <2>1. UNCHANGED <<spc, kind, stdin>>
        /\ \A d \in Client \ {c} : cpc'[d] = cpc[d] /\ ready'[d] = ready[d]
    BY SMTT(20), <1>0, <1>1 DEF ClientSock, TypeOK, server
  <2>2. cpc'[c] \in {"check", "done"} /\ kind[c] # "alarm"
    BY ZenonT(20), <1>0, <1>1 DEF TypeOK, InputOK
  <2> QED BY <2>1, <2>2, InputStep
<1> QED BY <1>2, <1>3, LoopTimers

LEMMA CheckIInv == ASSUME NEW c \in Client, IInv, Check(c) PROVE IInv'
<1> USE TalkAssumption DEF IInv
<1>1. /\ down' \in [Client -> 0 .. CAP]
      /\ link' \in [Client -> {"none", "open", "fin", "rst"}]
      /\ cpc' = [cpc EXCEPT ![c] = "select"] \/ cpc' = [cpc EXCEPT ![c] = "done"]
  BY EndsTypes DEF Check, TypeOK
<1>2. TypeOK'
  BY <1>1 DEF Check, TypeOK, server, input, clock
<1>3. InputOK'
  <2>1. UNCHANGED <<spc, kind, stdin, ready>> /\ \A d \in Client \ {c} : cpc'[d] = cpc[d]
    BY <1>1 DEF Check, TypeOK, server, input
  <2>2. cpc'[c] \in {"select", "done"} /\ kind[c] # "alarm"
    BY <1>1 DEF Check, TypeOK, InputOK
  <2> QED BY <2>1, <2>2, InputStep
<1> QED BY <1>2, <1>3, LoopTimers

LEMMA EchoIInv == ASSUME NEW c \in Client, IInv, Echo(c) PROVE IInv'
<1> USE TalkAssumption DEF IInv
<1>0. c \in User /\ c # Server /\ Server \in User /\ Client \subseteq User /\ kind[c] = "alarm"
  BY DEF User, Echo, InputOK
<1>1. /\ down' \in [Client -> 0 .. CAP]
      /\ link' \in [Client -> {"none", "open", "fin", "rst"}]
      /\ cpc' = [cpc EXCEPT ![c] = "arm"] \/ cpc' = [cpc EXCEPT ![c] = "done"]
  BY EndsTypes DEF Echo, TypeOK
<1>2. Taken(c) \in {"eof", "none"}
  BY DEF Taken
<1>3. TypeOK'
  BY <1>0, <1>1, <1>2 DEF Echo, TypeOK, server, clock
<1>4. InputOK'
  <2>1. UNCHANGED <<spc, kind, ready>> /\ stdin'[Server] = stdin[Server]
        /\ \A d \in Client \ {c} : stdin'[d] = stdin[d] /\ cpc'[d] = cpc[d]
    BY <1>0, <1>1 DEF Echo, TypeOK, server
  <2>2. cpc'[c] \in {"arm", "done"} /\ ready[c] = {}
    BY <1>0, <1>1 DEF TypeOK, InputOK
  <2> QED BY <1>0, <2>1, <2>2, InputStep
<1> QED BY <1>3, <1>4, LoopTimers

LEMMA QuitIInv == ASSUME NEW c \in Client, IInv, Quit(c) PROVE IInv'
<1> USE TalkAssumption DEF IInv
<1>1. PICK t \in {timers[c], << >>} : timers' = [timers EXCEPT ![c] = t]
  BY DEF Quit
<1>2. << >> \in Seq(0 .. TIMEOUT) /\ Len(<< >>) = 0
  OBVIOUS
<1>3. timers' \in [Client -> Seq(0 .. TIMEOUT)]
  BY <1>1, <1>2 DEF TypeOK
<1>4. TypeOK'
  BY <1>3, EndsTypes DEF Quit, TypeOK, server, input
<1>5. InputOK'
  BY EndsTypes, InputEnds DEF Quit, server, input
<1>6. stray' = stray /\ gap' = gap /\ cpc' = [cpc EXCEPT ![c] = "done"] /\ cpc[c] # "done"
  BY EndsTypes DEF Quit
<1>7. ASSUME NEW d \in Client PROVE TimerOK(d)'
  <2>1. CASE d = c
    <3>1. timers'[c] = timers[c] \/ timers'[c] = << >>
      BY <1>1 DEF TypeOK
    <3>2. stray'[c] = 0 /\ cpc'[c] = "done" /\ Len(timers[c]) + 0 <= 1
      BY <1>6 DEF TimerOK, TypeOK
    <3> QED BY <1>2, <2>1, <3>1, <3>2 DEF TimerOK
  <2>2. CASE d # c
    BY <1>1, <1>6, <2>2 DEF TimerOK, TypeOK
  <2> QED BY <2>1, <2>2
<1> QED BY <1>4, <1>5, <1>7

LEMMA NextIInv == IInv /\ [Next]_vars => IInv'
<1> SUFFICES ASSUME IInv, [Next]_vars PROVE IInv'
  OBVIOUS
<1>1. CASE UNCHANGED vars
  BY <1>1 DEF IInv, TypeOK, InputOK, TimerOK, vars, server, clients, input, net, clock
<1>2. CASE ServerStep \/ ServerDies
  BY <1>2, ServerIInv
<1>3. CASE Tick
  BY <1>3, TickIInv
<1>4. CASE \E u \in User : Type(u) \/ EndInput(u)
  BY <1>4, UserIInv
<1>5. CASE \E c \in Client : Start(c) \/ Again(c) \/ ClientStep(c) \/ Fires(c) \/ Quit(c)
  BY <1>5, StartIInv, AgainIInv, MyAlarmIInv, ClientSelectIInv, ClientStdinIInv,
     ClientSockIInv, CheckIInv, EchoIInv, FiresIInv, QuitIInv DEF ClientStep
<1> QED BY <1>1, <1>2, <1>3, <1>4, <1>5 DEF Next

-------------------------------------------------------------------------------
(* The theorems.                                                           *)

\* Type correctness, with a client in every state of the server that reads one.
THEOREM TypeCorrect == Spec => []TypeOK
<1>1. IInv => TypeOK
  BY DEF IInv
<1> QED BY InitIInv, NextIInv, <1>1, PTL DEF Spec

\* The timers of myalarm() never pile up, whatever the timeout and however often
\* one is restarted.
THEOREM OneTimerHolds == Spec => []OneTimer
<1>1. IInv => OneTimer
  BY DEF IInv, TimerOK, OneTimer
<1> QED BY InitIInv, NextIInv, <1>1, PTL DEF Spec

\* A SIGALRM reaches a client exactly TIMEOUT seconds after it last restarted its timer.
THEOREM NoEarlyAlarmHolds == Spec => NoEarlyAlarm
<1>1. IInv /\ [Next]_vars => [\A c \in Client : Fires(c) /\ cpc[c] # "done" => gap[c] = TIMEOUT]_vars
  <2> SUFFICES ASSUME IInv, NEW c \in Client, Fires(c), cpc[c] # "done" PROVE gap[c] = TIMEOUT
    OBVIOUS
  <2>1. PICK t \in DOMAIN timers[c] : timers[c][t] = 0
    BY DEF Fires
  <2>2. timers[c] \in Seq(0 .. TIMEOUT) /\ Len(timers[c]) <= 1 /\ gap[c] \in 0 .. TIMEOUT
    BY LenProperties DEF IInv, TypeOK, TimerOK
  <2>3. t = 1 /\ timers[c] # << >>
    BY <2>1, <2>2, RemoveOne, EmptySeq
  <2>4. timers[c][1] + gap[c] = TIMEOUT
    BY <2>3 DEF IInv, TimerOK
  <2> QED BY <2>1, <2>2, <2>3, <2>4, TalkAssumption
<1> QED BY InitIInv, NextIInv, <1>1, PTL DEF Spec, NoEarlyAlarm

===============================================================================

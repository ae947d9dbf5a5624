------------------------------- MODULE ChatRoom -------------------------------
(***************************************************************************)
(* What a chat server promises its users: one room.  Everybody in the room *)
(* and not gone hears every event of the room, in the order it happens,    *)
(* from its own arrival on; nobody outside the room hears any.  Names are  *)
(* unique in the room, and only somebody who has gone leaves it.  The room *)
(* may close in the middle of one last event, which then only some hear.   *)
(* Private messages (answers to one user) may come in between.             *)
(***************************************************************************)
EXTENDS Naturals, Sequences

CONSTANTS
  Conn,   \* the users' connections
  Name,   \* what they can be called
  Text,   \* what can be said in one message
  NoName  \* the name field of a message about nobody

VARIABLES
  who,    \* who[c]: the name of c, for the connections in the room
  gone,   \* connections that no longer hear anything
  heard,  \* everything each connection has heard
  open    \* the room is open

vars == <<who, gone, heard, open>>

Events == {"join", "left", "chat"}

Join(n)    == [kind |-> "join", name |-> n, text |-> <<>>]
Left(n)    == [kind |-> "left", name |-> n, text |-> <<>>]
Chat(n, t) == [kind |-> "chat", name |-> n, text |-> t]
Welcome    == [kind |-> "registered", name |-> NoName, text |-> <<>>]

Inside == DOMAIN who

Names == {who[c] : c \in Inside}

Init ==
  /\ who = [c \in {} |-> NoName]
  /\ gone = {}
  /\ heard = [c \in Conn |-> <<>>]
  /\ open = TRUE

\* Everybody in T who is still there hears e, after what is in before[c].
Announce(T, before, e) ==
  heard' = [c \in Conn |->
              IF c \in gone THEN heard[c]
              ELSE heard[c] \o before[c] \o IF c \in T THEN <<e>> ELSE <<>>]

Silence == [c \in Conn |-> <<>>]

Greeting(c) == [d \in Conn |-> IF d = c THEN <<Welcome>> ELSE <<>>]

Enter(c, n) ==
  /\ c \notin Inside
  /\ n \notin Names
  /\ who' = [d \in Inside \cup {c} |-> IF d = c THEN n ELSE who[d]]
  /\ Announce(Inside \cup {c}, Greeting(c), Join(n))
  /\ UNCHANGED <<gone, open>>

Speak(c, t) ==
  /\ c \in Inside
  /\ Announce(Inside, Silence, Chat(who[c], t))
  /\ UNCHANGED <<who, gone, open>>

Leave(c) ==
  /\ c \in Inside \cap gone
  /\ who' = [d \in Inside \ {c} |-> who[d]]
  /\ Announce(Inside \ {c}, Silence, Left(who[c]))
  /\ UNCHANGED <<gone, open>>

\* Somebody is told something that is no event of the room.
Whisper(c) ==
  /\ c \notin gone
  /\ \A d \in Conn \ {c} : heard'[d] = heard[d]
  /\ Len(heard'[c]) >= Len(heard[c])
  /\ SubSeq(heard'[c], 1, Len(heard[c])) = heard[c]
  /\ \A i \in Len(heard[c]) + 1 .. Len(heard'[c]) : heard'[c][i].kind \notin Events
  /\ UNCHANGED <<who, gone, open>>

Close ==
  /\ open' = FALSE
  /\ \/ UNCHANGED heard
     \/ \E c \in Conn \ Inside, n \in Name \ Names :
          \E T \in SUBSET (Inside \cup {c}) : Announce(T, Greeting(c), Join(n))
     \/ \E c \in Inside, t \in Text :
          \E T \in SUBSET Inside : Announce(T, Silence, Chat(who[c], t))
     \/ \E c \in Inside :
          \E T \in SUBSET (Inside \ {c}) : Announce(T, Silence, Left(who[c]))
  /\ UNCHANGED <<who, gone>>

Go(c) ==
  /\ gone' = gone \cup {c}
  /\ UNCHANGED <<who, heard, open>>

InRoom(c) ==
  \/ \E n \in Name : Enter(c, n)
  \/ \E t \in Text : Speak(c, t)
  \/ Leave(c)
  \/ Whisper(c)

Next ==
  \/ open /\ (Close \/ \E c \in Conn : InRoom(c))
  \/ \E c \in Conn : Go(c)

Spec == Init /\ [][Next]_vars

===============================================================================

----------------------------- MODULE MCChatSystem -----------------------------
(* A small instance of ChatSystem for TLC.                                   *)
EXTENDS ChatSystem, TLC

CONSTANTS c1, c2, c3, a, b, ca, hi, list, tail, stale, none, noname

MCStored == [x \in Piece |-> IF x \in Name THEN x ELSE ca]

\* Two of the users have the same name; the third may be of that name too.
MCInit == SystemInit /\ nick[c1] = a /\ nick[c2] = a

\* Of the three, one of the two users of that name may quit.
MCNext == SystemNext /\ \A c \in Conn \ {c1} : Quit(c) => EndOfFile(c)

MCFairSystem ==
  /\ MCInit
  /\ [][MCNext]_system
  /\ WF_system(Server /\ UNCHANGED clients)
  /\ \A c \in Conn : WF_system(ClientReads(c))
===============================================================================

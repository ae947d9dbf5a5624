------------------------------- MODULE MCChatFlow -------------------------------
(***************************************************************************)
(* Instance of ChatFlow: one client at a terminal, one with a file or pipe.*)
(***************************************************************************)
EXTENDS ChatFlow

MCInit == Init /\ tty[1] /\ ~tty[2]

MCFairSpec ==
  /\ MCInit /\ [][Next]_vars
  /\ WF_vars(ServerStep)
  /\ \A c \in Client : WF_vars(ClientStep(c))
===============================================================================

------------------------------- MODULE MCChatUdp -------------------------------
(* Small instances of ChatUdp for TLC.                                       *)
EXTENDS ChatUdp, TLC

CONSTANTS p1, p2, p3, a, hello, hi, list, noaddr, noname

\* All datagrams are short lines: their own stored form.
MCStored == [x \in Body |-> x]

\* Once the server has stopped only the clients move; that is not explored.
Running == up

Processes == Permutations(Client)
===============================================================================

----------------------------- MODULE MCChatServer -----------------------------
(* Small instances of ChatServer and ChatServerRoom for TLC.                 *)
EXTENDS ChatServerRoom, TLC

CONSTANTS c1, c2, c3, a, b, long, ca, hi, list, tail, stale, none, noname

\* Names are their own stored form; anything longer is cut to ca.
MCStored == [x \in Piece |-> IF x \in Name THEN x ELSE ca]

\* Once the server has stopped only the peers move; their moves are not explored.
Running == ~Stopped

Connections == Permutations(Conn)
===============================================================================

---------------------------- MODULE ChatServerRoom ----------------------------
(* chatserver.c keeps the promise of ChatRoom: the refinement mapping.       *)
EXTENDS ChatServer

SlotOf(c) == CHOOSE s \in Members : sock[s] = c

\* The users in the room are the members, under the names of their slots.
Who == [c \in {sock[s] : s \in Members} |-> name[SlotOf(c)]]

\* What is written to a connection that is broken is heard by nobody.
Gone == {c \in Conn : link[c] \notin {"new", "open"}}

Room ==
  INSTANCE ChatRoom WITH
    Text  <- UNION {[1 .. k -> Piece] : k \in 1 .. MaxRead},
    who   <- Who,
    gone  <- Gone,
    heard <- sent,
    open  <- ~Stopped

\* One room for everybody: the members hear the same events in the same order,
\* whole, whatever connections come, break or are reset while handlers write;
\* only the handler that SIGPIPE interrupts is heard by some and not by others.
RefinesRoom == Room!Spec

===============================================================================

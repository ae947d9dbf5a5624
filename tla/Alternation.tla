------------------------------ MODULE Alternation ------------------------------
(***************************************************************************)
(* What two parties that take turns promise: First speaks first, and while *)
(* both are there each line of one is followed by a line of the other.     *)
(* A party whose partner has left says at most one line more.              *)
(***************************************************************************)
EXTENDS Naturals

CONSTANTS
  First,   \* who begins
  Second   \* who answers

VARIABLES
  lines,   \* lines each party has to say
  said,    \* lines each party has said
  gone     \* parties that will say no more

Party == {First, Second}

InTurn(p) == IF p = First THEN said[First] = said[Second] ELSE said[First] = said[Second] + 1

Init ==
  /\ lines \in Nat
  /\ said = [p \in Party |-> 0]
  /\ gone = {}

Say(p) ==
  /\ said[p] < lines
  /\ said' = [said EXCEPT ![p] = @ + 1]
  /\ UNCHANGED lines

Speak(p) ==
  /\ gone = {}
  /\ InTurn(p)
  /\ Say(p)
  /\ UNCHANGED gone

\* Nobody is left to wait for: one line, perhaps out of turn, and that was it.
LastLine(p) ==
  /\ gone = Party \ {p}
  /\ Say(p)
  /\ gone' = Party

Leave(S) ==
  /\ gone' = gone \cup S
  /\ UNCHANGED <<lines, said>>

Next ==
  \/ \E p \in Party : Speak(p) \/ LastLine(p)
  \/ \E S \in SUBSET Party : Leave(S)

Spec == Init /\ [][Next]_<<lines, said, gone>>
===============================================================================

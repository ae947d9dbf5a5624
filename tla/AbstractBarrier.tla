---------------------------- MODULE AbstractBarrier ----------------------------
(***************************************************************************)
(* What a barrier promises: nobody goes on before everybody who has to     *)
(* come has come.                                                          *)
(***************************************************************************)
CONSTANTS
  Party,   \* who has to come
  Waiter   \* who waits until they all have come

VARIABLES
  here,    \* who has come
  through  \* who has gone on

Init == here = {} /\ through = {}

Come(p) ==
  /\ here' = here \cup {p}
  /\ UNCHANGED through

GoOn(w) ==
  /\ here = Party
  /\ through' = through \cup {w}
  /\ UNCHANGED here

Next == (\E p \in Party : Come(p)) \/ (\E w \in Waiter : GoOn(w))

Spec == Init /\ [][Next]_<<here, through>>
===============================================================================

----------------------------- MODULE AtomicCounter -----------------------------
(***************************************************************************)
(* What a shared counter promises: each process increments it at most      *)
(* once, in one step, and gets the new value.                              *)
(***************************************************************************)
EXTENDS Naturals

CONSTANT Proc

VARIABLES
  value,  \* the counter
  result  \* what each process got, 0 before it did

Init == value = 0 /\ result = [p \in Proc |-> 0]

Increment(p) ==
  /\ result[p] = 0
  /\ value' = value + 1
  /\ result' = [result EXCEPT ![p] = value + 1]

Next == \E p \in Proc : Increment(p)

Spec == Init /\ [][Next]_<<value, result>>
===============================================================================

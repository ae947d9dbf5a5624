--------------------------------- MODULE Merge ---------------------------------
(***************************************************************************)
(* merge() of kadai3/mergesort.c and conc_merge_sort.c, one element at a   *)
(* time: the memory of a process holds the two arrays and the variables of *)
(* the call that runs. The last loop turns once too often; the element     *)
(* before an array is a cell of its own, as in the committed executables,  *)
(* which have padding there.                                               *)
(***************************************************************************)
EXTENDS Integers

\* The variables of merge() when no call is running.
NoCall(numbers, temp) ==
  [numbers |-> numbers, temp |-> temp, left |-> 0, left_end |-> -1, mid |-> 0,
   right |-> -1, tmp_pos |-> 0, num_elements |-> 0, i |-> 1]

\* The call merge(numbers, temp, left, mid, right).
Call(m, left, mid, right) ==
  [m EXCEPT !.left = left, !.left_end = mid - 1, !.mid = mid, !.right = right,
            !.tmp_pos = left, !.num_elements = right - left + 1, !.i = 0]

\* The next element comes from the left half, which the other one may have left alone.
LeftIsNext(m) ==
  /\ m.left <= m.left_end
  /\ m.mid <= m.right => m.numbers[m.left] <= m.numbers[m.mid]

Merging(m) == m.left <= m.left_end \/ m.mid <= m.right

\* Mutant: another turn too many.
Copying_Long(m) == ~Merging(m) /\ m.i <= m.num_elements + 1

\* i = 0, 1, ..., num_elements: one turn more than there are elements.
Copying(m) == ~Merging(m) /\ m.i <= m.num_elements

Busy(m) == Merging(m) \/ Copying(m)

TakeLeft(m) ==
  [m EXCEPT !.temp[m.tmp_pos] = m.numbers[m.left], !.tmp_pos = @ + 1, !.left = @ + 1]

TakeRight(m) ==
  [m EXCEPT !.temp[m.tmp_pos] = m.numbers[m.mid], !.tmp_pos = @ + 1, !.mid = @ + 1]

CopyBack(m) ==
  [m EXCEPT !.numbers[m.right] = m.temp[m.right], !.right = @ - 1, !.i = @ + 1]

Step(m) ==
  IF Copying(m) THEN CopyBack(m) ELSE IF LeftIsNext(m) THEN TakeLeft(m) ELSE TakeRight(m)
===============================================================================

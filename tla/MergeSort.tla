------------------------------- MODULE MergeSort -------------------------------
(***************************************************************************)
(* kadai3/mergesort.c: a child sorts the left half of an array and sends   *)
(* it through a pipe to its parent, which has sorted the right half and    *)
(* merges the two. kadai3/conc_merge_sort.c: the same sort in one process  *)
(* (NUM_PROCS is 0). The recursion of m_sort() is a stack of what is still *)
(* to be done.                                                             *)
(***************************************************************************)
EXTENDS Merge, Sequences, FiniteSets

CONSTANTS
  Sizes,   \* array sizes to consider (the code: 10)
  Values,  \* what rand() may return
  Failures \* TRUE: fork() may fail and the child be killed

ASSUME MergeSortAssumption ==
  /\ Sizes \subseteq Nat \ {0}
  /\ Values \subseteq Int
  /\ Failures \in BOOLEAN

Proc == {"parent", "child"}

VARIABLES
  program,    \* which of the two programs it is
  array_size, \* the size of both arrays
  input,      \* the numbers as they were filled in
  pc,         \* where each process is
  mem,        \* the memory of each process, see Merge
  todo,       \* calls of m_sort() and merge() each process has still to begin
  pipe,       \* what is in the pipe: nothing, or the one array the child writes
  failed      \* fork() failed or the child was killed

vars == <<program, array_size, input, pc, mem, todo, pipe, failed>>

Item == 0 .. array_size - 1

\* The elements and the cell before them.
Cell == -1 .. array_size - 1

Middle == (array_size - 1) \div 2

Sort(left, right) == [call |-> "m_sort", left |-> left, mid |-> left, right |-> right]

MergeOf(left, mid, right) == [call |-> "merge", left |-> left, mid |-> mid, right |-> right]

Init ==
  /\ program \in {"mergesort", "conc_merge_sort"}
  /\ array_size \in Sizes
  /\ input \in [Item -> Values]
  /\ pc = [p \in Proc |-> IF p = "parent" THEN "mergeSort" ELSE "none"]
  /\ mem = [p \in Proc |-> NoCall([c \in Cell |-> IF c = -1 THEN 0 ELSE input[c]],
                                  [c \in Cell |-> 0])]
  /\ todo = [p \in Proc |-> << >>]
  /\ pipe = << >>
  /\ failed = FALSE

-------------------------------------------------------------------------------
\* The loop that would fork NUM_PROCS = 0 processes does not turn.
SortAlone ==
  /\ program = "conc_merge_sort"
  /\ pc["parent"] = "mergeSort"
  /\ pc' = [pc EXCEPT !["parent"] = "last"]
  /\ todo' = [todo EXCEPT !["parent"] = <<Sort(0, array_size - 1)>>]
  /\ UNCHANGED <<program, array_size, input, mem, pipe, failed>>

\* Mutant: the child sorts one element less than it sends.
LeftHalf_Short == <<Sort(0, Middle - 1)>>

LeftHalf == <<Sort(0, Middle)>>

\* fork() copies the memory; a fork() that fails is not noticed.
Fork ==
  /\ program = "mergesort"
  /\ pc["parent"] = "mergeSort"
  /\ \/ /\ pc' = [pc EXCEPT !["parent"] = "half", !["child"] = "half"]
        /\ todo' = [p \in Proc |-> IF p = "parent" THEN <<Sort(Middle + 1, array_size - 1)>> ELSE LeftHalf]
        /\ UNCHANGED failed
     \/ /\ Failures
        /\ pc' = [pc EXCEPT !["parent"] = "half"]
        /\ todo' = [todo EXCEPT !["parent"] = <<Sort(Middle + 1, array_size - 1)>>]
        /\ failed' = TRUE
  /\ UNCHANGED <<program, array_size, input, mem, pipe>>

-------------------------------------------------------------------------------
\* Mutant: the left half is the smaller one.
Mid_Small(left, right) == (left + right - 1) \div 2

Mid(left, right) == (left + right) \div 2

Idle(p) == pc[p] \in {"half", "last"} /\ ~Busy(mem[p])

\* m_sort() calls itself for both halves and then merge().
MSort(p) ==
  /\ Idle(p) /\ todo[p] # << >>
  /\ LET t == Head(todo[p]) IN
     /\ t.call = "m_sort"
     /\ todo' = [todo EXCEPT ![p] =
          (IF t.right > t.left
           THEN <<Sort(t.left, Mid(t.left, t.right)), Sort(Mid(t.left, t.right) + 1, t.right),
                  MergeOf(t.left, Mid(t.left, t.right) + 1, t.right)>>
           ELSE << >>) \o Tail(todo[p])]
  /\ UNCHANGED <<program, array_size, input, pc, mem, pipe, failed>>

CallMerge(p) ==
  /\ Idle(p) /\ todo[p] # << >>
  /\ LET t == Head(todo[p]) IN
     /\ t.call = "merge"
     /\ mem' = [mem EXCEPT ![p] = Call(@, t.left, t.mid, t.right)]
     /\ todo' = [todo EXCEPT ![p] = Tail(@)]
  /\ UNCHANGED <<program, array_size, input, pc, pipe, failed>>

MergeStep(p) ==
  /\ pc[p] \in {"half", "last"}
  /\ Busy(mem[p])
  /\ mem' = [mem EXCEPT ![p] = Step(@)]
  /\ UNCHANGED <<program, array_size, input, pc, todo, pipe, failed>>

\* The child sends its half, in one piece, and exits.
ChildWrites ==
  /\ pc["child"] = "half" /\ Idle("child") /\ todo["child"] = << >>
  /\ pipe' = <<[c \in 0 .. Middle |-> mem["child"].numbers[c]]>>
  /\ pc' = [pc EXCEPT !["child"] = "ended"]
  /\ UNCHANGED <<program, array_size, input, mem, todo, failed>>

\* Mutant: the parent has not closed its own write end.
PipeEof_OwnEnd == FALSE

PipeEof == pc["child"] # "half"

\* The child's half, or the end of file: then numbers[] stays as it is.
ParentReads ==
  /\ pc["parent"] = "half" /\ Idle("parent") /\ todo["parent"] = << >>
  /\ \/ /\ pipe # << >>
        /\ mem' = [mem EXCEPT !["parent"].numbers =
                     [c \in Cell |-> IF c \in 0 .. Middle THEN Head(pipe)[c] ELSE @[c]]]
        /\ pipe' = << >>
     \/ /\ pipe = << >> /\ PipeEof
        /\ UNCHANGED <<mem, pipe>>
  /\ pc' = [pc EXCEPT !["parent"] = "last"]
  /\ todo' = [todo EXCEPT !["parent"] = <<MergeOf(0, Middle + 1, array_size - 1)>>]
  /\ UNCHANGED <<program, array_size, input, failed>>

\* Back in main().
ParentEnds ==
  /\ pc["parent"] = "last" /\ Idle("parent") /\ todo["parent"] = << >>
  /\ pc' = [pc EXCEPT !["parent"] = "end"]
  /\ UNCHANGED <<program, array_size, input, mem, todo, pipe, failed>>

KillChild ==
  /\ Failures
  /\ pc["child"] = "half"
  /\ pc' = [pc EXCEPT !["child"] = "dead"]
  /\ failed' = TRUE
  /\ UNCHANGED <<program, array_size, input, mem, todo, pipe>>

Sorts(p) == MSort(p) \/ CallMerge(p) \/ MergeStep(p)

Parent == SortAlone \/ Fork \/ Sorts("parent") \/ ParentReads \/ ParentEnds

Child == Sorts("child") \/ ChildWrites

Next == Parent \/ Child \/ KillChild

Spec == Init /\ [][Next]_vars

\* Both processes are scheduled; nothing has to fail.
FairSpec == Spec /\ WF_vars(Parent) /\ WF_vars(Child)

-------------------------------------------------------------------------------
(* Properties.                                                             *)

\* Elements of numbers[] in range that have the value v.
Count(numbers, v) == Cardinality({c \in Item : numbers[c] = v})

\* The indices merge() uses next are those of elements or of the cell before the first.
IndicesInBounds ==
  \A p \in Proc : Busy(mem[p]) =>
    /\ LET m == mem[p] IN
       IF Copying(m)
       THEN m.right \in Cell
       ELSE /\ m.tmp_pos \in Item
            /\ m.left <= m.left_end => m.left \in Item
            /\ m.mid <= m.right => m.mid \in Item

\* When nothing failed, main() prints what rand() gave, in order.
SortedAtEnd ==
  pc["parent"] = "end" /\ ~failed =>
    LET out == mem["parent"].numbers IN
    /\ \A c, d \in Item : c < d => out[c] <= out[d]
    /\ \A v \in Values : Count(out, v) = Count(input, v)

\* Without the child's half the parent goes on with its own copy of it, whose
\* last element the one turn too many of merge() may have overwritten with the 0
\* of the unused temp[]: no other number is lost.
OnlyOneLost ==
  pc["parent"] = "end" /\ failed =>
    LET out == mem["parent"].numbers
        lost == [input EXCEPT ![Middle] = 0] IN
    \/ \A v \in Values : Count(out, v) = Count(input, v)
    \/ \A v \in Values \cup {0} : Count(out, v) = Count(lost, v)

\* The elements a process is there to sort.
Own(p) ==
  IF p = "child" THEN 0 .. Middle
  ELSE IF pc[p] = "half" THEN Middle + 1 .. array_size - 1 ELSE Item

\* The range of the call of merge() that runs: both ends move in the loops.
Range0(m) == LET last == IF Copying(m) THEN m.right + m.i ELSE m.right
             IN last - m.num_elements + 1 .. last

\* The turn too many writes numbers[left - 1], which belongs to the other half of
\* the call above: it never changes an element of the process's own half.
\* (m_sort() must not leave a smaller left half, and merge() leaves temp[] equal.)
OtherHalfKept ==
  [][\A p \in Proc : MergeStep(p) =>
       \A c \in Own(p) \ Range0(mem[p]) : mem'[p].numbers[c] = mem[p].numbers[c]]_vars

\* main() prints whatever happens to the child.
SortEnds == <>(pc["parent"] = "end")
===============================================================================

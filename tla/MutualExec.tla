------------------------------ MODULE MutualExec ------------------------------
(***************************************************************************)
(* kadai3/mutual_exec.c: a parent and its child print in turn. Each waits  *)
(* for a number in the pipe from the other before it prints and sends one  *)
(* after; the child begins by sending one, so that the parent speaks first.*)
(* The results of read() and write() are not looked at.                    *)
(***************************************************************************)
EXTENDS Naturals

CONSTANTS
  Numbers, \* values of the argument to consider
  Failures \* TRUE: fork() may fail and both processes may be killed

ASSUME MutualExecAssumption ==
  /\ Numbers \subseteq Nat
  /\ Failures \in BOOLEAN

VARIABLES
  max_num,  \* the argument
  ppc, pi,  \* where the parent is, and its loop variable
  cpc, ci,  \* where the child is, and its loop variable
  toParent, \* numbers in the pipe to the parent
  toChild,  \* numbers in the pipe to the child
  pout,     \* the last number the parent has printed
  cout,     \* the last number the child has printed
  killed    \* a process was killed from outside

vars == <<max_num, ppc, pi, cpc, ci, toParent, toChild, pout, cout, killed>>

Live(pc) == pc \notin {"none", "ended", "dead"}

Init ==
  /\ max_num \in Numbers
  /\ ppc = "fork" /\ pi = 1
  /\ cpc = "none" /\ ci = 1
  /\ toParent = 0 /\ toChild = 0
  /\ pout = 0 /\ cout = 0
  /\ killed = FALSE

\* The test of the loops.
ParentLoop(i) == IF i <= max_num THEN "read" ELSE "wait"

ChildLoop(i) == IF i <= max_num THEN "read" ELSE "ended"

Fork ==
  /\ ppc = "fork"
  /\ ppc' = ParentLoop(1)
  /\ cpc' = "first"
  /\ UNCHANGED <<max_num, pi, ci, toParent, toChild, pout, cout, killed>>

\* perror() and exit(1).
ForkFails ==
  /\ Failures
  /\ ppc = "fork"
  /\ ppc' = "ended"
  /\ UNCHANGED <<max_num, pi, cpc, ci, toParent, toChild, pout, cout, killed>>

-------------------------------------------------------------------------------
(* The parent.                                                             *)

\* Mutant: the parent keeps its own write end of the pipe to itself open.
ParentEof_OwnEnd == FALSE

\* Only the child can write to the parent's pipe.
ParentEof == ~Live(cpc)

\* A number, or the end of file, which is not told from it.
ParentRead ==
  /\ ppc = "read"
  /\ toParent > 0 \/ ParentEof
  /\ toParent' = IF toParent > 0 THEN toParent - 1 ELSE 0
  /\ ppc' = "say"
  /\ UNCHANGED <<max_num, pi, cpc, ci, toChild, pout, cout, killed>>

ParentSays ==
  /\ ppc = "say"
  /\ pout' = pi
  /\ ppc' = "write"
  /\ UNCHANGED <<max_num, pi, cpc, ci, toParent, toChild, cout, killed>>

\* SIGPIPE, when there is nobody left to read it.
ParentWrites ==
  /\ ppc = "write"
  /\ IF Live(cpc)
     THEN /\ toChild' = toChild + 1
          /\ pi' = pi + 1
          /\ ppc' = ParentLoop(pi + 1)
     ELSE /\ ppc' = "dead"
          /\ UNCHANGED <<toChild, pi>>
  /\ UNCHANGED <<max_num, cpc, ci, toParent, pout, cout, killed>>

\* Mutant: the parent does not wait for the child.
ParentWaits_Not ==
  /\ ppc = "wait"
  /\ ppc' = "ended"
  /\ UNCHANGED <<max_num, pi, cpc, ci, toParent, toChild, pout, cout, killed>>

ParentWaits ==
  /\ ppc = "wait"
  /\ ~Live(cpc)
  /\ ppc' = "ended"
  /\ UNCHANGED <<max_num, pi, cpc, ci, toParent, toChild, pout, cout, killed>>

Parent == Fork \/ ParentRead \/ ParentSays \/ ParentWrites \/ ParentWaits

-------------------------------------------------------------------------------
(* The child.                                                              *)

ChildBegins ==
  /\ cpc = "first"
  /\ IF Live(ppc)
     THEN /\ toParent' = toParent + 1
          /\ cpc' = ChildLoop(1)
     ELSE /\ cpc' = "dead"
          /\ UNCHANGED toParent
  /\ UNCHANGED <<max_num, ppc, pi, ci, toChild, pout, cout, killed>>

\* Mutant: the child does not wait for the parent's number.
ChildRead_NoWait ==
  /\ cpc = "read"
  /\ toChild' = IF toChild > 0 THEN toChild - 1 ELSE 0
  /\ cpc' = "say"
  /\ UNCHANGED <<max_num, ppc, pi, ci, toParent, pout, cout, killed>>

ChildRead ==
  /\ cpc = "read"
  /\ toChild > 0 \/ ~Live(ppc)
  /\ toChild' = IF toChild > 0 THEN toChild - 1 ELSE 0
  /\ cpc' = "say"
  /\ UNCHANGED <<max_num, ppc, pi, ci, toParent, pout, cout, killed>>

ChildSays ==
  /\ cpc = "say"
  /\ cout' = ci
  /\ cpc' = "write"
  /\ UNCHANGED <<max_num, ppc, pi, ci, toParent, toChild, pout, killed>>

ChildWrites ==
  /\ cpc = "write"
  /\ IF Live(ppc)
     THEN /\ toParent' = toParent + 1
          /\ ci' = ci + 1
          /\ cpc' = ChildLoop(ci + 1)
     ELSE /\ cpc' = "dead"
          /\ UNCHANGED <<toParent, ci>>
  /\ UNCHANGED <<max_num, ppc, pi, toChild, pout, cout, killed>>

Child == ChildBegins \/ ChildRead \/ ChildSays \/ ChildWrites

-------------------------------------------------------------------------------
KillParent ==
  /\ Failures
  /\ Live(ppc)
  /\ ppc' = "dead"
  /\ killed' = TRUE
  /\ UNCHANGED <<max_num, pi, cpc, ci, toParent, toChild, pout, cout>>

KillChild ==
  /\ Failures
  /\ Live(cpc)
  /\ cpc' = "dead"
  /\ killed' = TRUE
  /\ UNCHANGED <<max_num, ppc, pi, ci, toParent, toChild, pout, cout>>

Next == Parent \/ Child \/ ForkFails \/ KillParent \/ KillChild

Spec == Init /\ [][Next]_vars

\* Both processes are scheduled; nothing has to fail.
FairSpec == Spec /\ WF_vars(Parent) /\ WF_vars(Child)

-------------------------------------------------------------------------------
(* Properties.                                                             *)

TypeOK ==
  /\ max_num \in Numbers
  /\ ppc \in {"fork", "read", "say", "write", "wait", "ended", "dead"}
  /\ cpc \in {"none", "first", "read", "say", "write", "ended", "dead"}
  /\ pi \in Nat /\ ci \in Nat
  /\ toParent \in Nat /\ toChild \in Nat
  /\ pout \in Nat /\ cout \in Nat
  /\ killed \in BOOLEAN

\* What the name of the program promises: as long as nobody has been killed,
\* parent and child are never both between their read() and their write().
MutualExclusion ==
  ~killed => ~(ppc \in {"say", "write"} /\ cpc \in {"say", "write"})

\* The number the child is ahead is never read, and write() raises SIGPIPE when
\* the other end is gone: still no process ever dies of that unless somebody
\* was killed, and the parent ends last, when all lines have been printed.
OrderlyEnd ==
  ~killed => /\ ppc # "dead" /\ cpc # "dead"
             /\ ppc = "ended" => \/ cpc = "none"
                                 \/ cpc = "ended" /\ pout = max_num /\ cout = max_num

\* A process has no more to say when it has ended, and when its next write()
\* is going to kill it.
Gone(pc, other) == pc \in {"ended", "dead"} \/ (pc = "write" /\ other \in {"ended", "dead"})

Turns ==
  INSTANCE Alternation WITH
    First <- "Parent", Second <- "Child", lines <- max_num,
    said <- [p \in {"Parent", "Child"} |-> IF p = "Parent" THEN pout ELSE cout],
    gone <- {p \in {"Parent", "Child"} : IF p = "Parent" THEN Gone(ppc, cpc) ELSE Gone(cpc, ppc)}

\* The lines alternate, numbered from 1 and the parent's first, as long as both
\* processes are there; one whose partner was killed prints at most one line more.
RefinesAlternation == Turns!Spec

\* Nobody waits for ever, whoever is killed and when.
BothEnd == <>(~Live(ppc) /\ ~Live(cpc))
===============================================================================

------------------------------ MODULE BarrierSync ------------------------------
(***************************************************************************)
(* kadai3/barrier_sync.c: a process forks PROCESS_NUM children; all of     *)
(* them wait for one System V semaphore, set to PROCESS_NUM, to become     *)
(* zero, after each child has decremented it.                              *)
(***************************************************************************)
EXTENDS Naturals, FiniteSets

CONSTANTS
  PROCESS_NUM, \* number of children (barrier_sync.c: 5)
  Main,        \* the parent process
  Failures     \* TRUE: system calls may fail and children be killed

Child == 1 .. PROCESS_NUM

ASSUME BarrierAssumption ==
  /\ PROCESS_NUM \in Nat \ {0}
  /\ Main \notin Nat
  /\ Failures \in BOOLEAN

VARIABLES
  mpc,     \* where the parent is
  i,       \* its loop variable: children forked, then children reaped
  cpc,     \* where each child is
  sem,     \* value of the semaphore
  exists,  \* the semaphore set exists
  reaped,  \* children wait() has returned
  arrived, \* children that have decremented the semaphore
  resumed  \* processes that have passed the barrier

vars == <<mpc, i, cpc, sem, exists, reaped, arrived, resumed>>

\* A process that has not been forked is "none"; "ended" and "killed" ones can be reaped.
Ended == {c \in Child : cpc[c] \in {"ended", "killed"}}

Init ==
  /\ mpc = "setup"
  /\ i = 0
  /\ cpc = [c \in Child |-> "none"]
  /\ sem = 0
  /\ exists = FALSE
  /\ reaped = {}
  /\ arrived = {}
  /\ resumed = {}

-------------------------------------------------------------------------------
(* The parent.                                                             *)

\* Mutant: the semaphore starts one too low.
Setup_OneLow ==
  /\ mpc = "setup"
  /\ exists' = TRUE
  /\ sem' = PROCESS_NUM - 1
  /\ mpc' = "fork"
  /\ UNCHANGED <<i, cpc, reaped, arrived, resumed>>

\* semget and SETVAL.
Setup ==
  /\ mpc = "setup"
  /\ exists' = TRUE
  /\ sem' = PROCESS_NUM
  /\ mpc' = "fork"
  /\ UNCHANGED <<i, cpc, reaped, arrived, resumed>>

Fork ==
  /\ mpc = "fork"
  /\ i < PROCESS_NUM
  /\ cpc' = [cpc EXCEPT ![i + 1] = "start"]
  /\ i' = i + 1
  /\ mpc' = IF i + 1 = PROCESS_NUM THEN "barrier" ELSE "fork"
  /\ UNCHANGED <<sem, exists, reaped, arrived, resumed>>

\* semget, SETVAL, fork, semop or IPC_RMID fails: exit(1), and the set remains.
MainFails ==
  /\ Failures
  /\ mpc \in {"setup", "fork", "barrier", "remove"}
  /\ exists' \in IF mpc = "setup" THEN BOOLEAN ELSE {exists}
  /\ mpc' = "failed"
  /\ UNCHANGED <<i, cpc, sem, reaped, arrived, resumed>>

MainResumes ==
  /\ mpc = "barrier"
  /\ sem = 0
  /\ resumed' = resumed \cup {Main}
  /\ mpc' = "reap"
  /\ i' = 0
  /\ UNCHANGED <<cpc, sem, exists, reaped, arrived>>

\* Mutant: the loop of wait() is missing.
Reap_None ==
  /\ mpc = "reap"
  /\ mpc' = "remove"
  /\ UNCHANGED <<i, cpc, sem, exists, reaped, arrived, resumed>>

\* wait() returns some child that has ended.
Reap ==
  /\ mpc = "reap"
  /\ \E c \in Ended \ reaped : reaped' = reaped \cup {c}
  /\ i' = i + 1
  /\ mpc' = IF i + 1 = PROCESS_NUM THEN "remove" ELSE "reap"
  /\ UNCHANGED <<cpc, sem, exists, arrived, resumed>>

Remove ==
  /\ mpc = "remove"
  /\ exists' = FALSE
  /\ mpc' = "done"
  /\ UNCHANGED <<i, cpc, sem, reaped, arrived, resumed>>

Parent == Setup \/ Fork \/ MainResumes \/ Reap \/ Remove

-------------------------------------------------------------------------------
(* The children.                                                           *)

\* semop(-1), after the sleep.
Arrive(c) ==
  /\ cpc[c] = "start"
  /\ exists
  /\ sem > 0
  /\ sem' = sem - 1
  /\ arrived' = arrived \cup {c}
  /\ cpc' = [cpc EXCEPT ![c] = "barrier"]
  /\ UNCHANGED <<mpc, i, exists, reaped, resumed>>

\* Mutant: the child does not wait.
Resume_NoWait(c) ==
  /\ cpc[c] = "barrier"
  /\ resumed' = resumed \cup {c}
  /\ cpc' = [cpc EXCEPT ![c] = "ended"]
  /\ UNCHANGED <<mpc, i, sem, exists, reaped, arrived>>

\* semop(0), the message and exit(0).
Resume(c) ==
  /\ cpc[c] = "barrier"
  /\ exists
  /\ sem = 0
  /\ resumed' = resumed \cup {c}
  /\ cpc' = [cpc EXCEPT ![c] = "ended"]
  /\ UNCHANGED <<mpc, i, sem, exists, reaped, arrived>>

\* A child is killed; the semaphore keeps its value (no SEM_UNDO).
Killed(c) ==
  /\ Failures
  /\ cpc[c] \in {"start", "barrier"}
  /\ cpc' = [cpc EXCEPT ![c] = "killed"]
  /\ UNCHANGED <<mpc, i, sem, exists, reaped, arrived, resumed>>

Runs(c) == Arrive(c) \/ Resume(c)

-------------------------------------------------------------------------------
Next == Parent \/ MainFails \/ \E c \in Child : Runs(c) \/ Killed(c)

Spec == Init /\ [][Next]_vars

\* Every process that can go on is scheduled; nothing has to fail.
FairSpec == Spec /\ WF_vars(Parent) /\ \A c \in Child : WF_vars(Runs(c))

-------------------------------------------------------------------------------
(* Properties.                                                             *)

TypeOK ==
  /\ mpc \in {"setup", "fork", "barrier", "reap", "remove", "done", "failed"}
  /\ i \in 0 .. PROCESS_NUM
  /\ cpc \in [Child -> {"none", "start", "barrier", "ended", "killed"}]
  /\ sem \in 0 .. PROCESS_NUM
  /\ exists \in BOOLEAN
  /\ reaped \subseteq Child
  /\ arrived \subseteq Child
  /\ resumed \subseteq Child \cup {Main}

\* Once there are children, the semaphore counts those still to come: none of
\* them ever blocks in the decrement itself, and zero means that all have come,
\* also when some were killed after they came.
SemaphoreCounts ==
  (\E c \in Child : cpc[c] # "none") => sem + Cardinality(arrived) = PROCESS_NUM

\* The set is removed only after every child has done with it, whoever is slow
\* to wake up at the barrier: no semop() finds it gone and makes its child fail.
RemovedLast ==
  mpc = "done" =>
    /\ Ended = Child
    /\ resumed = {Main} \cup {c \in Child : cpc[c] = "ended"}

Barrier ==
  INSTANCE AbstractBarrier WITH
    Party <- Child, Waiter <- Child \cup {Main}, here <- arrived, through <- resumed

\* Neither the parent nor a child resumes before every child has arrived,
\* whatever fails or is killed in between.
RefinesBarrier == Barrier!Spec

Trouble == mpc = "failed" \/ \E c \in Child : cpc[c] = "killed"

\* If nothing fails, everybody passes the barrier and the set is removed.
AllPass == <>(Trouble \/ (mpc = "done" /\ resumed = Child \cup {Main}))

===============================================================================

------------------------------ MODULE FileCounter ------------------------------
(***************************************************************************)
(* kadai3/file-counter.c: NUMPROCS child processes each read a number from *)
(* a file, add one and write it back, under a System V semaphore.          *)
(***************************************************************************)
EXTENDS Naturals, FiniteSets

CONSTANTS
  NUMPROCS, \* number of children (file-counter.c: 10)
  Empty,    \* the file between fopen("w") and the write of its buffer
  Failures  \* TRUE: system calls may fail and children be killed

Child == 1 .. NUMPROCS

ASSUME CounterAssumption ==
  /\ NUMPROCS \in Nat \ {0}
  /\ Empty \notin Nat
  /\ Failures \in BOOLEAN

VARIABLES
  mpc,     \* where the parent is
  i,       \* its loop variable: children forked, then children reaped
  reaped,  \* children wait() has returned
  cpc,     \* where each child is
  count,   \* the variable count of each child
  file,    \* contents of the file
  sem,     \* value of the semaphore
  written  \* children that have written the file

parent == <<mpc, i, reaped>>
vars   == <<parent, cpc, count, file, sem, written>>

Ended == {c \in Child : cpc[c] \in {"ended", "failed"}}

\* main up to its first fork(): the file holds 0, the semaphore is 1.
Init ==
  /\ mpc = "fork"
  /\ i = 0
  /\ reaped = {}
  /\ cpc = [c \in Child |-> "none"]
  /\ count = [c \in Child |-> 0]
  /\ file = 0
  /\ sem = 1
  /\ written = {}

-------------------------------------------------------------------------------
(* The parent.                                                             *)

Fork ==
  /\ mpc = "fork"
  /\ cpc' = [cpc EXCEPT ![i + 1] = "start"]
  /\ IF i + 1 = NUMPROCS THEN mpc' = "reap" /\ i' = 0 ELSE mpc' = "fork" /\ i' = i + 1
  /\ UNCHANGED <<reaped, count, file, sem, written>>

\* fork() fails: exit(1); the children go on without their parent.
ForkFails ==
  /\ Failures
  /\ mpc = "fork"
  /\ mpc' = "failed"
  /\ UNCHANGED <<i, reaped, cpc, count, file, sem, written>>

\* wait() returns some child that has ended; after the last one the semaphore
\* is removed and the parent exits.
Reap ==
  /\ mpc = "reap"
  /\ \E c \in Ended \ reaped : reaped' = reaped \cup {c}
  /\ i' = i + 1
  /\ mpc' = IF i + 1 = NUMPROCS THEN "done" ELSE "reap"
  /\ UNCHANGED <<cpc, count, file, sem, written>>

-------------------------------------------------------------------------------
(* count1, run by child c.                                                 *)

Goto(c, place) == cpc' = [cpc EXCEPT ![c] = place]

\* Mutant: no semaphore is taken.
Lock_Free(c) ==
  /\ cpc[c] = "start"
  /\ Goto(c, "read")
  /\ UNCHANGED <<parent, count, file, sem, written>>

\* semop(-1) blocks while the semaphore is 0.
Lock(c) ==
  /\ cpc[c] = "start"
  /\ sem > 0
  /\ sem' = sem - 1
  /\ Goto(c, "read")
  /\ UNCHANGED <<parent, count, file, written>>

\* fopen("r") and fscanf, which leaves count as it is, uninitialised, when the
\* file is empty.
Read(c) ==
  /\ cpc[c] = "read"
  /\ \E v \in IF file = Empty THEN 0 .. NUMPROCS ELSE {file} :
       count' = [count EXCEPT ![c] = v + 1]
  /\ Goto(c, "open")
  /\ UNCHANGED <<parent, file, sem, written>>

\* fopen("w") truncates the file; the number is written by fclose().
Open(c) ==
  /\ cpc[c] = "open"
  /\ file' = Empty
  /\ Goto(c, "write")
  /\ UNCHANGED <<parent, count, sem, written>>

Write(c) ==
  /\ cpc[c] = "write"
  /\ file' = count[c]
  /\ written' = written \cup {c}
  /\ Goto(c, "unlock")
  /\ UNCHANGED <<parent, count, sem>>

\* Mutant: the semaphore is not given back.
Unlock_Kept(c) ==
  /\ cpc[c] = "unlock"
  /\ Goto(c, "ended")
  /\ UNCHANGED <<parent, count, file, sem, written>>

\* semop(+1), the output and exit(0).
Unlock(c) ==
  /\ cpc[c] = "unlock"
  /\ sem' = sem + 1
  /\ Goto(c, "ended")
  /\ UNCHANGED <<parent, count, file, written>>

\* fopen() fails, or the child is killed: the semaphore stays as it is.
Fails(c) ==
  /\ Failures
  /\ cpc[c] \notin {"none", "ended", "failed"}
  /\ Goto(c, "failed")
  /\ UNCHANGED <<parent, count, file, sem, written>>

Runs(c) == Lock(c) \/ Read(c) \/ Open(c) \/ Write(c) \/ Unlock(c)

-------------------------------------------------------------------------------
Next ==
  \/ Fork
  \/ ForkFails
  \/ Reap
  \/ \E c \in Child : Runs(c) \/ Fails(c)

Spec == Init /\ [][Next]_vars

\* Every process that can go on is scheduled, and a semaphore that is given
\* back again and again is got by every child that waits for it: there are
\* finitely many increments, so weak fairness is enough.
FairSpec == Spec /\ WF_vars(Fork \/ Reap) /\ \A c \in Child : WF_vars(Runs(c))

-------------------------------------------------------------------------------
(* Properties.                                                             *)

TypeOK ==
  /\ mpc \in {"fork", "reap", "done", "failed"}
  /\ i \in 0 .. NUMPROCS
  /\ reaped \subseteq Child
  /\ cpc \in [Child -> {"none", "start", "read", "open", "write", "unlock", "ended", "failed"}]
  /\ count \in [Child -> Nat]
  /\ file \in Nat \cup {Empty}
  /\ sem \in {0, 1}
  /\ written \subseteq Child

Inside == {c \in Child : cpc[c] \in {"read", "open", "write", "unlock"}}

\* Whoever gets the semaphore finds in the file the number of increments so
\* far, and nobody is at work on it, although children fail at any point: one
\* that fails inside takes the semaphore with it.
FileConsistent ==
  sem = 1 => file = Cardinality(written) /\ Inside = {}

Counter ==
  INSTANCE AtomicCounter WITH
    Proc   <- Child,
    value  <- Cardinality(written),
    result <- [c \in Child |-> IF c \in written THEN count[c] ELSE 0]

\* The read, the truncation and the write of a child are one increment: no
\* increment is lost and no number is given twice.
RefinesCounter == Counter!Spec

\* If nothing fails the parent ends, with the file counting all its children.
AllCounted ==
  <>(\/ mpc = "done" /\ file = NUMPROCS
     \/ mpc = "failed" \/ \E c \in Child : cpc[c] = "failed")

===============================================================================

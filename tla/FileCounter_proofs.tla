--------------------------- MODULE FileCounter_proofs ---------------------------
(***************************************************************************)
(* Proofs about file-counter.c, for every number of children.              *)
(***************************************************************************)
EXTENDS FileCounter, FiniteSetTheorems, TLAPS

\* The loops of the parent: the children not yet forked are the last ones.
ParentOK ==
  /\ mpc \in {"fork", "reap"} => i < NUMPROCS
  /\ mpc = "fork" => \A c \in Child : c > i => cpc[c] = "none"

\* One child at most is between the two semop() calls, and only if it has
\* taken the semaphore.
Exclusion ==
  /\ \A c, d \in Inside : c = d
  /\ sem = 1 => Inside = {}

\* What the child inside knows: whether it has written, that the file is
\* intact but for the time it truncates it, and that its number is the next one.
HolderOK ==
  /\ sem = 1 => file = Cardinality(written)
  /\ \A c \in Child :
       /\ cpc[c] \in {"none", "start", "read", "open", "write"} => c \notin written
       /\ cpc[c] \in {"read", "open", "unlock"} => file = Cardinality(written)
       /\ cpc[c] \in {"open", "write"} => count[c] = Cardinality(written) + 1

IInv == TypeOK /\ ParentOK /\ Exclusion /\ HolderOK

Place == {"none", "start", "read", "open", "write", "unlock", "ended", "failed"}

-------------------------------------------------------------------------------
LEMMA ChildFinite ==
  /\ NUMPROCS \in Nat \ {0} /\ Empty \notin Nat
  /\ IsFiniteSet(Child)
<1>1. NUMPROCS \in Nat \ {0} /\ Empty \notin Nat
  BY CounterAssumption
<1> QED BY <1>1, FS_Interval DEF Child

\* The children that have written can be counted, one after the other.
LEMMA WrittenCounts ==
  ASSUME TypeOK
  PROVE  /\ Cardinality(written) \in Nat
         /\ \A c \in Child \ written : Cardinality(written \cup {c}) = Cardinality(written) + 1
<1>1. IsFiniteSet(written)
  BY ChildFinite, FS_Subset DEF TypeOK
<1> QED BY <1>1, FS_CardinalityType, FS_AddElement

LEMMA InitIInv == Init => IInv
<1> SUFFICES ASSUME Init PROVE IInv
  OBVIOUS
<1>1. 0 \in 0 .. NUMPROCS /\ 0 < NUMPROCS
  BY ChildFinite
<1>2. TypeOK
  BY <1>1 DEF Init, TypeOK
<1>3. Inside = {}
  BY DEF Init, Inside
<1>4. ParentOK /\ Exclusion
  BY <1>1, <1>3 DEF Init, ParentOK, Exclusion
<1>5. HolderOK
  BY FS_EmptySet DEF Init, HolderOK
<1> QED BY <1>2, <1>4, <1>5 DEF IInv

-------------------------------------------------------------------------------
(* Steps of the parent.                                                    *)

LEMMA ForkStep ==
  ASSUME IInv, Fork
  PROVE  IInv'
<1> USE ChildFinite DEF IInv, Fork
<1>1. i \in Nat /\ i < NUMPROCS /\ i + 1 \in Child
  BY DEF TypeOK, ParentOK, Child
<1>2. cpc[i + 1] = "none"
  BY <1>1 DEF ParentOK
<1>3. cpc' \in [Child -> Place] /\ cpc'[i + 1] = "start"
      /\ \A c \in Child \ {i + 1} : cpc'[c] = cpc[c]
  BY <1>1 DEF TypeOK, Place
<1>4. TypeOK'
  BY <1>1, <1>3 DEF TypeOK, Place
<1>5. ParentOK'
  BY <1>1, <1>3 DEF ParentOK, Child
<1>6. Inside' = Inside
  BY <1>2, <1>3 DEF Inside
<1>7. Exclusion' /\ HolderOK'
  BY <1>2, <1>3, <1>6 DEF Exclusion, HolderOK
<1> QED BY <1>4, <1>5, <1>7

LEMMA ReapStep ==
  ASSUME IInv, Reap
  PROVE  IInv'
<1> USE ChildFinite DEF IInv, Reap
<1>1. i \in Nat /\ i < NUMPROCS
  BY DEF TypeOK, ParentOK
<1>2. reaped' \subseteq Child
  BY DEF TypeOK, Ended
<1>3. TypeOK' /\ ParentOK'
  BY <1>1, <1>2 DEF TypeOK, ParentOK
<1>4. Inside' = Inside
  BY DEF Inside
<1> QED BY <1>3, <1>4 DEF Exclusion, HolderOK

LEMMA ForkFailsStep ==
  ASSUME IInv, ForkFails \/ UNCHANGED vars
  PROVE  IInv'
BY DEF IInv, ForkFails, vars, parent, TypeOK, ParentOK, Exclusion, HolderOK, Inside

-------------------------------------------------------------------------------
(* Steps of a child.                                                       *)

\* A child that has been forked goes from one place to another.
LEMMA GoOn ==
  ASSUME IInv, NEW c \in Child, NEW place \in Place \ {"none", "start"},
         cpc[c] # "none", Goto(c, place), UNCHANGED parent
  PROVE  /\ cpc' \in [Child -> Place] /\ cpc'[c] = place
         /\ \A d \in Child \ {c} : cpc'[d] = cpc[d]
         /\ ParentOK'
         /\ Inside' \subseteq Inside \cup {c}
<1> USE DEF IInv, Goto, parent, Place
<1>1. cpc' \in [Child -> Place] /\ cpc'[c] = place /\ \A d \in Child \ {c} : cpc'[d] = cpc[d]
  BY DEF TypeOK
<1>2. ParentOK'
  BY <1>1 DEF ParentOK
<1>3. Inside' \subseteq Inside \cup {c}
  BY <1>1 DEF Inside
<1> QED BY <1>1, <1>2, <1>3

LEMMA LockStep ==
  ASSUME IInv, NEW c \in Child, Lock(c)
  PROVE  IInv'
<1> USE DEF IInv, Lock
<1>1. "read" \in Place \ {"none", "start"} /\ cpc[c] # "none"
  BY DEF Place
<1>2. /\ cpc' \in [Child -> Place] /\ cpc'[c] = "read"
      /\ \A d \in Child \ {c} : cpc'[d] = cpc[d]
      /\ ParentOK' /\ Inside' \subseteq Inside \cup {c}
  BY <1>1, GoOn
<1>3. sem = 1 /\ sem' = 0 /\ Inside = {}
  BY DEF TypeOK, Exclusion
<1>4. TypeOK'
  BY <1>2, <1>3 DEF TypeOK, parent, Place
<1>5. Exclusion'
  BY <1>2, <1>3 DEF Exclusion
<1>6. HolderOK'
  BY <1>2, <1>3 DEF HolderOK
<1> QED BY <1>2, <1>4, <1>5, <1>6

\* While a child is inside the semaphore is taken and the others are outside.
LEMMA InsideAlone ==
  ASSUME IInv, NEW c \in Inside
  PROVE  /\ c \in Child
         /\ sem = 0
         /\ \A d \in Child \ {c} : cpc[d] \in {"none", "start", "ended", "failed"}
<1> USE DEF IInv
<1>1. c \in Child /\ sem = 0
  BY DEF Inside, TypeOK, Exclusion
<1>2. ASSUME NEW d \in Child \ {c} PROVE cpc[d] \in {"none", "start", "ended", "failed"}
  <2>1. d \notin Inside
    BY <1>2 DEF Exclusion
  <2>2. cpc[d] \in Place
    BY <1>2 DEF TypeOK, Place
  <2> QED BY <1>2, <2>1, <2>2 DEF Inside, Place
<1> QED BY <1>1, <1>2

LEMMA ReadStep ==
  ASSUME IInv, NEW c \in Child, Read(c)
  PROVE  IInv'
<1> USE DEF IInv, Read
<1>1. "open" \in Place \ {"none", "start"} /\ cpc[c] # "none" /\ c \in Inside
  BY DEF Place, Inside
<1>2. /\ cpc' \in [Child -> Place] /\ cpc'[c] = "open"
      /\ \A d \in Child \ {c} : cpc'[d] = cpc[d]
      /\ ParentOK' /\ Inside' \subseteq Inside \cup {c}
  BY <1>1, GoOn
<1>3. sem = 0 /\ \A d \in Child \ {c} : cpc[d] \in {"none", "start", "ended", "failed"}
  BY <1>1, InsideAlone
<1>4. Cardinality(written) \in Nat /\ file = Cardinality(written)
  BY WrittenCounts DEF HolderOK
<1>5. count' = [count EXCEPT ![c] = Cardinality(written) + 1]
  BY <1>4, ChildFinite
<1>6. count' \in [Child -> Nat] /\ count'[c] = Cardinality(written) + 1
  BY <1>4, <1>5 DEF TypeOK
<1>7. TypeOK'
  BY <1>2, <1>6 DEF TypeOK, parent, Place
<1>8. Exclusion'
  BY <1>1, <1>2, <1>3 DEF Exclusion
<1>9. HolderOK'
  BY <1>2, <1>3, <1>6 DEF HolderOK
<1> QED BY <1>2, <1>7, <1>8, <1>9

LEMMA OpenStep ==
  ASSUME IInv, NEW c \in Child, Open(c)
  PROVE  IInv'
<1> USE DEF IInv, Open
<1>1. "write" \in Place \ {"none", "start"} /\ cpc[c] # "none" /\ c \in Inside
  BY DEF Place, Inside
<1>2. /\ cpc' \in [Child -> Place] /\ cpc'[c] = "write"
      /\ \A d \in Child \ {c} : cpc'[d] = cpc[d]
      /\ ParentOK' /\ Inside' \subseteq Inside \cup {c}
  BY <1>1, GoOn
<1>3. sem = 0 /\ \A d \in Child \ {c} : cpc[d] \in {"none", "start", "ended", "failed"}
  BY <1>1, InsideAlone
<1>4. TypeOK'
  BY <1>2 DEF TypeOK, parent, Place
<1>5. Exclusion'
  BY <1>1, <1>2, <1>3 DEF Exclusion
<1>6. HolderOK'
  BY <1>2, <1>3 DEF HolderOK
<1> QED BY <1>2, <1>4, <1>5, <1>6

LEMMA WriteStep ==
  ASSUME IInv, NEW c \in Child, Write(c)
  PROVE  IInv'
<1> USE DEF IInv, Write
<1>1. "unlock" \in Place \ {"none", "start"} /\ cpc[c] # "none" /\ c \in Inside
  BY DEF Place, Inside
<1>2. /\ cpc' \in [Child -> Place] /\ cpc'[c] = "unlock"
      /\ \A d \in Child \ {c} : cpc'[d] = cpc[d]
      /\ ParentOK' /\ Inside' \subseteq Inside \cup {c}
  BY <1>1, GoOn
<1>3. sem = 0 /\ \A d \in Child \ {c} : cpc[d] \in {"none", "start", "ended", "failed"}
  BY <1>1, InsideAlone
<1>4. c \notin written /\ count[c] = Cardinality(written) + 1
  BY DEF HolderOK
<1>5. file' = Cardinality(written')
  BY <1>4, WrittenCounts
<1>6. TypeOK'
  BY <1>2 DEF TypeOK, parent, Place
<1>7. Exclusion'
  BY <1>1, <1>2, <1>3 DEF Exclusion
<1>8. HolderOK'
  BY <1>2, <1>3, <1>5 DEF HolderOK
<1> QED BY <1>2, <1>6, <1>7, <1>8

LEMMA UnlockStep ==
  ASSUME IInv, NEW c \in Child, Unlock(c)
  PROVE  IInv'
<1> USE DEF IInv, Unlock
<1>1. "ended" \in Place \ {"none", "start"} /\ cpc[c] # "none" /\ c \in Inside
  BY DEF Place, Inside
<1>2. /\ cpc' \in [Child -> Place] /\ cpc'[c] = "ended"
      /\ \A d \in Child \ {c} : cpc'[d] = cpc[d]
      /\ ParentOK' /\ Inside' \subseteq Inside \cup {c}
  BY <1>1, GoOn
<1>3. sem = 0 /\ \A d \in Child \ {c} : cpc[d] \in {"none", "start", "ended", "failed"}
  BY <1>1, InsideAlone
<1>4. file = Cardinality(written)
  BY DEF HolderOK
<1>5. Inside' = {}
  BY <1>2, <1>3 DEF Inside
<1>6. TypeOK'
  BY <1>2, <1>3 DEF TypeOK, parent, Place
<1>7. Exclusion'
  BY <1>5 DEF Exclusion
<1>8. HolderOK'
  BY <1>2, <1>3, <1>4 DEF HolderOK
<1> QED BY <1>2, <1>6, <1>7, <1>8

\* A child that fails inside keeps the semaphore: nobody else gets in.
LEMMA FailsStep ==
  ASSUME IInv, NEW c \in Child, Fails(c)
  PROVE  IInv'
<1> USE DEF IInv, Fails
<1>1. "failed" \in Place \ {"none", "start"} /\ cpc[c] # "none"
  BY DEF Place
<1>2. /\ cpc' \in [Child -> Place] /\ cpc'[c] = "failed"
      /\ \A d \in Child \ {c} : cpc'[d] = cpc[d]
      /\ ParentOK' /\ Inside' \subseteq Inside \cup {c}
  BY <1>1, GoOn
<1>3. Inside' \subseteq Inside
  BY <1>2 DEF Inside
<1>4. TypeOK'
  BY <1>2 DEF TypeOK, parent, Place
<1>5. Exclusion'
  BY <1>3 DEF Exclusion
<1>6. HolderOK'
  BY <1>2 DEF HolderOK
<1> QED BY <1>2, <1>4, <1>5, <1>6

LEMMA NextIInv == IInv /\ [Next]_vars => IInv'
<1> SUFFICES ASSUME IInv, [Next]_vars PROVE IInv'
  OBVIOUS
<1>1. CASE Fork
  BY <1>1, ForkStep
<1>2. CASE Reap
  BY <1>2, ReapStep
<1>3. CASE ForkFails \/ UNCHANGED vars
  BY <1>3, ForkFailsStep
<1>4. ASSUME NEW c \in Child, Runs(c) PROVE IInv'
  BY <1>4, LockStep, ReadStep, OpenStep, WriteStep, UnlockStep DEF Runs
<1>5. ASSUME NEW c \in Child, Fails(c) PROVE IInv'
  BY <1>5, FailsStep
<1> QED BY <1>1, <1>2, <1>3, <1>4, <1>5 DEF Next

-------------------------------------------------------------------------------
\* The inductive invariant.
THEOREM Invariant == Spec => []IInv
BY InitIInv, NextIInv, PTL DEF Spec

\* Type correctness; the semaphore is never above one.
THEOREM TypeCorrect == Spec => []TypeOK
<1>1. IInv => TypeOK
  BY DEF IInv
<1> QED BY <1>1, Invariant, PTL

\* Whoever gets the semaphore finds the number of increments in the file.
THEOREM FileCorrect == Spec => []FileConsistent
<1>1. IInv => FileConsistent
  BY DEF IInv, FileConsistent, Exclusion, HolderOK
<1> QED BY <1>1, Invariant, PTL

\* count1() is an atomic increment, for every number of children and wherever
\* they fail: no increment is lost and no number is given twice.
THEOREM Implements == Spec => RefinesCounter
<1> DEFINE got == [c \in Child |-> IF c \in written THEN count[c] ELSE 0]
<1>1. Init => Counter!Init
  BY FS_EmptySet DEF Init, Counter!Init
<1>2. IInv /\ [Next]_vars => [Counter!Next]_<<Cardinality(written), got>>
  <2> SUFFICES ASSUME IInv, [Next]_vars
               PROVE  [Counter!Next]_<<Cardinality(written), got>>
    OBVIOUS
  <2>1. ASSUME NEW c \in Child, Write(c) PROVE Counter!Next
    <3>1. c \notin written /\ count[c] = Cardinality(written) + 1
      BY <2>1 DEF IInv, HolderOK, Write
    <3>2. Cardinality(written') = Cardinality(written) + 1
      BY <2>1, <3>1, WrittenCounts DEF IInv, Write
    <3>3. got' = [got EXCEPT ![c] = Cardinality(written) + 1]
      BY <2>1, <3>1 DEF Write
    <3>4. got[c] = 0
      BY <3>1
    <3>5. Counter!Increment(c)
      BY <3>2, <3>3, <3>4 DEF Counter!Increment
    <3> QED BY <3>5 DEF Counter!Next
  <2>2. ASSUME NEW c \in Child, Read(c) PROVE UNCHANGED <<Cardinality(written), got>>
    <3>1. c \notin written /\ count \in [Child -> Nat]
      BY <2>2 DEF IInv, HolderOK, Read, TypeOK
    <3>2. \A d \in Child \ {c} : count'[d] = count[d]
      BY <2>2, <3>1 DEF Read
    <3>3. got' = got
      BY <2>2, <3>1, <3>2 DEF Read
    <3> QED BY <2>2, <3>3 DEF Read
  <2>3. ASSUME UNCHANGED <<count, written>>
        PROVE  UNCHANGED <<Cardinality(written), got>>
    BY <2>3
  <2>4. ASSUME NEW c \in Child, Lock(c) \/ Open(c) \/ Unlock(c) \/ Fails(c)
        PROVE  UNCHANGED <<count, written>>
    BY <2>4 DEF Lock, Open, Unlock, Fails
  <2>5. CASE Fork \/ ForkFails \/ Reap \/ UNCHANGED vars
    <3>1. UNCHANGED <<count, written>>
      BY <2>5 DEF Fork, ForkFails, Reap, vars
    <3> QED BY <3>1, <2>3
  <2> QED BY <2>1, <2>2, <2>3, <2>4, <2>5 DEF Next, Runs
<1> QED BY <1>1, <1>2, Invariant, PTL DEF Spec, RefinesCounter, Counter!Spec

-------------------------------------------------------------------------------
(* What AllCounted rests on, without fairness.                             *)

Failed == \E c \in Child : cpc[c] = "failed"

\* The parent counts what it has reaped, once it has forked everybody, and the
\* semaphore is taken only by a child inside, or by one that failed.
Accounted ==
  /\ mpc = "fork" => reaped = {} /\ \A c \in Child : c <= i => cpc[c] # "none"
  /\ mpc = "reap" => i = Cardinality(reaped) /\ \A c \in Child : cpc[c] # "none"
  /\ sem = 0 => Inside # {} \/ Failed

LEMMA ParentAccounts ==
  ASSUME IInv, Accounted, Fork \/ Reap
  PROVE  Accounted'
<1> USE ChildFinite DEF IInv
<1>1. CASE Fork
  <2>1. i \in Nat /\ i < NUMPROCS /\ i + 1 \in Child /\ cpc[i + 1] = "none" /\ mpc = "fork"
    BY <1>1 DEF TypeOK, ParentOK, Child, Fork
  <2>2. cpc'[i + 1] = "start" /\ \A c \in Child \ {i + 1} : cpc'[c] = cpc[c]
    BY <1>1, <2>1 DEF TypeOK, Fork
  <2>3. reaped' = {} /\ sem' = sem /\ Cardinality({}) = 0
    BY <1>1, <2>1, FS_EmptySet DEF Accounted, Fork
  <2>4. \A c \in Child : c <= i + 1 => cpc'[c] # "none"
    BY <2>1, <2>2 DEF Accounted, Child
  <2>5. sem' = 0 => Inside' # {} \/ Failed'
    BY <2>1, <2>2, <2>3 DEF Accounted, Inside, Failed
  <2>6. CASE i + 1 = NUMPROCS
    <3>1. \A c \in Child : cpc'[c] # "none"
      BY <2>4, <2>6 DEF Child
    <3> QED BY <1>1, <2>3, <2>5, <2>6, <3>1 DEF Accounted, Fork
  <2>7. CASE i + 1 # NUMPROCS
    BY <1>1, <2>3, <2>4, <2>5, <2>7 DEF Accounted, Fork
  <2> QED BY <2>6, <2>7
<1>2. CASE Reap
  <2>1. PICK c \in Child \ reaped : reaped' = reaped \cup {c}
    BY <1>2 DEF Reap, Ended
  <2>2. IsFiniteSet(reaped)
    BY FS_Subset DEF TypeOK
  <2>3. Cardinality(reaped') = Cardinality(reaped) + 1
    BY <2>1, <2>2, FS_AddElement
  <2>4. Inside' = Inside /\ Failed' = Failed
    BY <1>2 DEF Inside, Failed, Reap
  <2> QED BY <1>2, <2>3, <2>4 DEF Accounted, Reap
<1> QED BY <1>1, <1>2

LEMMA ChildAccounts ==
  ASSUME IInv, Accounted, NEW c \in Child, Runs(c) \/ Fails(c)
  PROVE  Accounted'
<1> USE DEF IInv
<1>1. /\ \A d \in Child \ {c} : cpc'[d] = cpc[d]
      /\ cpc[c] # "none" /\ cpc'[c] # "none" /\ cpc[c] # "failed" /\ UNCHANGED parent
      /\ cpc'[c] \in {"read", "open", "write", "unlock", "ended", "failed"}
  BY DEF Runs, Lock, Read, Open, Write, Unlock, Fails, Goto, TypeOK
<1>2. \/ cpc'[c] \in {"read", "open", "write", "unlock", "failed"}
      \/ cpc[c] = "unlock" /\ sem' = sem + 1
  BY DEF Runs, Lock, Read, Open, Write, Unlock, Fails, Goto, TypeOK
<1>3. sem' = 0 => Inside' # {} \/ Failed'
  BY <1>2 DEF Inside, Failed, TypeOK
<1> QED BY <1>1, <1>3 DEF Accounted, parent

\* Some process is not blocked in semop() or wait().
SomebodyCanGo ==
  \/ mpc = "fork"
  \/ mpc = "reap" /\ Ended \ reaped # {}
  \/ \E c \in Child : cpc[c] = "start" /\ sem > 0
  \/ Inside # {}

\* The semaphore is always given back, and every child reaped: all wait for ever
\* only if a child failed, which may have taken the semaphore with it.
THEOREM StuckOnlyAfterFailure ==
  Spec => [](SomebodyCanGo \/ mpc \in {"done", "failed"} \/ Failed)
<1>1. Init => Accounted
  <2> SUFFICES ASSUME Init PROVE Accounted
    OBVIOUS
  <2>1. \A c \in Child : ~ (c <= 0)
    BY ChildFinite DEF Child
  <2> QED BY <2>1 DEF Init, Accounted
<1>2. IInv /\ Accounted /\ [Next]_vars => Accounted'
  <2> SUFFICES ASSUME IInv, Accounted, [Next]_vars PROVE Accounted'
    OBVIOUS
  <2>1. CASE ForkFails \/ UNCHANGED vars
    BY <2>1 DEF ForkFails, vars, parent, Accounted, Inside, Failed
  <2> QED BY <2>1, ParentAccounts, ChildAccounts DEF Next
<1>3. ASSUME IInv, Accounted, mpc = "reap", ~Failed
      PROVE  SomebodyCanGo
  <2>1. i < NUMPROCS /\ i = Cardinality(reaped) /\ reaped \in SUBSET Child
    BY <1>3 DEF IInv, ParentOK, Accounted, TypeOK
  <2>2. Cardinality(Child) = NUMPROCS
    BY ChildFinite, FS_Interval DEF Child
  <2>3. PICK c \in Child : c \notin reaped
    <3>1. reaped # Child
      BY <2>1, <2>2, ChildFinite
    <3> QED BY <2>1, <3>1
  <2>4. cpc[c] \in Place \ {"none", "failed"}
    BY <1>3 DEF IInv, TypeOK, Place, Accounted, Failed
  <2>5. CASE cpc[c] = "start"
    <3>1. sem > 0 \/ Inside # {}
      BY <1>3 DEF IInv, TypeOK, Accounted
    <3> QED BY <2>5, <3>1 DEF SomebodyCanGo
  <2>6. CASE cpc[c] = "ended"
    BY <1>3, <2>3, <2>6 DEF SomebodyCanGo, Ended
  <2>7. CASE cpc[c] \in {"read", "open", "write", "unlock"}
    BY <2>7 DEF SomebodyCanGo, Inside
  <2> QED BY <2>4, <2>5, <2>6, <2>7 DEF Place
<1>4. IInv /\ Accounted => SomebodyCanGo \/ mpc \in {"done", "failed"} \/ Failed
  BY <1>3 DEF IInv, TypeOK, SomebodyCanGo
<1> QED BY <1>1, <1>2, <1>4, Invariant, PTL DEF Spec

===============================================================================

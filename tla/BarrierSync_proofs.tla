--------------------------- MODULE BarrierSync_proofs ---------------------------
(***************************************************************************)
(* Proofs about barrier_sync.c, for every number of children.              *)
(***************************************************************************)
EXTENDS BarrierSync, FiniteSetTheorems, TLAPS

\* What has happened to a child, by where it is.
ChildrenOK ==
  \A c \in Child :
    /\ cpc[c] \in {"none", "start"} => c \notin arrived
    /\ cpc[c] \in {"barrier", "ended"} => c \in arrived
    /\ c \in resumed <=> cpc[c] = "ended"

\* The children are forked in order, after the semaphore has been set.
ForkOK ==
  /\ mpc = "setup" => i = 0 /\ \A c \in Child : cpc[c] = "none"
  /\ mpc \in {"fork", "barrier", "reap", "remove"} => exists
  /\ mpc = "fork" => \A c \in Child : cpc[c] = "none" <=> c > i
  /\ mpc = "fork" => i < PROCESS_NUM
  /\ mpc \in {"barrier", "reap", "remove", "done"} => \A c \in Child : cpc[c] # "none"
  /\ mpc \in {"fork", "barrier"} => sem + Cardinality(arrived) = PROCESS_NUM

\* Passing and reaping.
ReapOK ==
  /\ resumed # {} => arrived = Child
  /\ mpc \in {"reap", "remove", "done"} => Main \in resumed
  /\ mpc \notin {"reap", "remove", "done", "failed"} => reaped = {} /\ Main \notin resumed
  /\ reaped \subseteq Ended
  /\ mpc = "reap" => i = Cardinality(reaped) /\ i < PROCESS_NUM
  /\ mpc \in {"remove", "done"} => reaped = Child

IInv == TypeOK /\ SemaphoreCounts /\ ChildrenOK /\ ForkOK /\ ReapOK

-------------------------------------------------------------------------------
LEMMA ChildFinite ==
  /\ PROCESS_NUM \in Nat \ {0}
  /\ IsFiniteSet(Child) /\ Cardinality(Child) = PROCESS_NUM
  /\ Main \notin Child
<1>1. PROCESS_NUM \in Nat \ {0}
  BY BarrierAssumption
<1>2. IsFiniteSet(Child) /\ Cardinality(Child) = PROCESS_NUM
  BY <1>1, FS_Interval DEF Child
<1>3. Main \notin Child
  BY <1>1, BarrierAssumption DEF Child
<1> QED BY <1>1, <1>2, <1>3

\* A set of children is finite, and one with PROCESS_NUM members is all of them.
LEMMA Subsets ==
  ASSUME NEW S \in SUBSET Child
  PROVE  /\ IsFiniteSet(S) /\ Cardinality(S) \in 0 .. PROCESS_NUM
         /\ Cardinality(S) = PROCESS_NUM => S = Child
         /\ \A c \in Child \ S : Cardinality(S \cup {c}) = Cardinality(S) + 1
<1>1. IsFiniteSet(S) /\ Cardinality(S) <= PROCESS_NUM
      /\ (Cardinality(S) = PROCESS_NUM => S = Child)
  BY ChildFinite, FS_Subset
<1>2. Cardinality(S) \in Nat
  BY <1>1, FS_CardinalityType
<1>3. \A c \in Child \ S : Cardinality(S \cup {c}) = Cardinality(S) + 1
  BY <1>1, FS_AddElement
<1> QED BY <1>1, <1>2, <1>3, ChildFinite

LEMMA InitIInv == Init => IInv
<1> SUFFICES ASSUME Init PROVE IInv
  OBVIOUS
<1>1. Ended = {} /\ Cardinality({}) = 0
  BY FS_EmptySet DEF Init, Ended
<1>2. TypeOK
  <2>1. 0 \in 0 .. PROCESS_NUM
    BY ChildFinite
  <2>2. cpc \in [Child -> {"none", "start", "barrier", "ended", "killed"}]
    BY DEF Init
  <2> QED BY <2>1, <2>2 DEF Init, TypeOK
<1>3. SemaphoreCounts /\ ChildrenOK /\ ForkOK
  <2>1. mpc = "setup" /\ arrived = {} /\ resumed = {} /\ \A c \in Child : cpc[c] = "none"
    BY DEF Init
  <2> QED BY <2>1 DEF Init, SemaphoreCounts, ChildrenOK, ForkOK
<1>4. ReapOK
  BY <1>1 DEF Init, ReapOK
<1> QED BY <1>2, <1>3, <1>4 DEF IInv

\* Zero means that all children have come.
LEMMA ZeroMeansAll ==
  ASSUME IInv, sem = 0, mpc = "barrier" \/ \E c \in Child : cpc[c] # "none"
  PROVE  arrived = Child
<1>1. sem + Cardinality(arrived) = PROCESS_NUM
  BY DEF IInv, SemaphoreCounts, ForkOK
<1>2. arrived \in SUBSET Child
  BY DEF IInv, TypeOK
<1>3. Cardinality(arrived) = PROCESS_NUM
  BY <1>1, <1>2, Subsets, ChildFinite
<1> QED BY <1>2, <1>3, Subsets

LEMMA SetupStep ==
  ASSUME IInv, Setup
  PROVE  IInv'
<1> USE ChildFinite DEF IInv, Setup
<1>1. TypeOK'
  BY DEF TypeOK
<1>2. arrived = {} /\ resumed = {} /\ reaped = {}
  BY DEF ForkOK, ChildrenOK, ReapOK, TypeOK
<1>3. Cardinality(arrived) = 0
  BY <1>2, FS_EmptySet
<1>4. SemaphoreCounts' /\ ChildrenOK'
  BY <1>3 DEF SemaphoreCounts, ChildrenOK
<1>5. ForkOK'
  <2>1. i = 0 /\ \A c \in Child : cpc[c] = "none" /\ c > 0
    BY DEF ForkOK, Child
  <2> QED BY <1>3, <2>1 DEF ForkOK
<1>6. ReapOK'
  BY <1>2 DEF ReapOK
<1> QED BY <1>1, <1>4, <1>5, <1>6

LEMMA ForkStep ==
  ASSUME IInv, Fork
  PROVE  IInv'
<1> USE ChildFinite DEF IInv, Fork
<1>1. i \in 0 .. PROCESS_NUM - 1 /\ i + 1 \in Child
  BY DEF TypeOK, Child
<1>2. cpc[i + 1] = "none" /\ cpc' \in [Child -> {"none", "start", "barrier", "ended", "killed"}]
  BY <1>1 DEF ForkOK, TypeOK
<1>3. cpc'[i + 1] = "start" /\ \A c \in Child \ {i + 1} : cpc'[c] = cpc[c]
  BY <1>1, <1>2 DEF TypeOK
<1>4. TypeOK'
  BY <1>1, <1>2 DEF TypeOK
<1>5. SemaphoreCounts'
  BY DEF SemaphoreCounts, ForkOK
<1>6. ChildrenOK'
  BY <1>2, <1>3 DEF ChildrenOK
<1>7. ForkOK'
  <2>1. \A c \in Child : cpc'[c] = "none" <=> c > i + 1
    <3> SUFFICES ASSUME NEW c \in Child PROVE cpc'[c] = "none" <=> c > i + 1
      OBVIOUS
    <3>1. c \in Nat /\ (cpc[c] = "none" <=> c > i)
      BY DEF ForkOK, Child
    <3> QED BY <1>1, <1>3, <3>1
  <2>2. i + 1 = PROCESS_NUM => \A c \in Child : cpc'[c] # "none"
    BY <2>1 DEF Child
  <2> QED BY <1>1, <2>1, <2>2 DEF ForkOK
<1>8. ReapOK'
  <2>1. Ended \subseteq Ended'
    BY <1>2, <1>3 DEF Ended
  <2> QED BY <2>1 DEF ReapOK
<1> QED BY <1>4, <1>5, <1>6, <1>7, <1>8

LEMMA MainFailsStep ==
  ASSUME IInv, MainFails
  PROVE  IInv'
<1> USE ChildFinite DEF IInv, MainFails
<1>1. TypeOK' /\ SemaphoreCounts' /\ ChildrenOK' /\ ForkOK'
  BY DEF TypeOK, SemaphoreCounts, ChildrenOK, ForkOK
<1>2. Ended' = Ended
  BY DEF Ended
<1>3. ReapOK'
  BY <1>2 DEF ReapOK
<1> QED BY <1>1, <1>3

LEMMA MainResumesStep ==
  ASSUME IInv, MainResumes
  PROVE  IInv'
<1> USE ChildFinite DEF IInv, MainResumes
<1>1. arrived = Child
  BY ZeroMeansAll
<1>2. TypeOK' /\ SemaphoreCounts' /\ ChildrenOK' /\ ForkOK'
  BY DEF TypeOK, SemaphoreCounts, ChildrenOK, ForkOK
<1>3. Ended' = Ended
  BY DEF Ended
<1>4. ReapOK'
  BY <1>1, <1>3, FS_EmptySet DEF ReapOK
<1> QED BY <1>2, <1>4

LEMMA ReapStep ==
  ASSUME IInv, Reap
  PROVE  IInv'
<1> USE ChildFinite DEF IInv, Reap
<1>1. PICK c \in Ended \ reaped : reaped' = reaped \cup {c}
  OBVIOUS
<1>2. c \in Child /\ Ended' = Ended /\ Ended \subseteq Child
  BY DEF Ended
<1>3. reaped \in SUBSET Child /\ reaped' \in SUBSET Child
  BY <1>1, <1>2 DEF TypeOK
<1>4. Cardinality(reaped') = Cardinality(reaped) + 1
  BY <1>1, <1>2, <1>3, Subsets
<1>5. i = Cardinality(reaped) /\ i < PROCESS_NUM
  BY DEF ReapOK
<1>6. TypeOK'
  BY <1>3, <1>5 DEF TypeOK
<1>7. SemaphoreCounts' /\ ChildrenOK' /\ ForkOK'
  BY DEF SemaphoreCounts, ChildrenOK, ForkOK
<1>8. ReapOK'
  <2>1. i + 1 = PROCESS_NUM => reaped' = Child
    BY <1>3, <1>4, <1>5, Subsets
  <2>2. i \in Nat
    BY DEF TypeOK
  <2> QED BY <1>1, <1>2, <1>4, <1>5, <2>1, <2>2 DEF ReapOK, TypeOK
<1> QED BY <1>6, <1>7, <1>8

LEMMA RemoveStep ==
  ASSUME IInv, Remove
  PROVE  IInv'
<1> USE ChildFinite DEF IInv, Remove
<1>1. TypeOK' /\ SemaphoreCounts' /\ ChildrenOK' /\ ForkOK'
  BY DEF TypeOK, SemaphoreCounts, ChildrenOK, ForkOK
<1>2. Ended' = Ended
  BY DEF Ended
<1>3. ReapOK'
  BY <1>2 DEF ReapOK
<1> QED BY <1>1, <1>3

-------------------------------------------------------------------------------
\* A child goes from one place to another.
LEMMA ArriveStep ==
  ASSUME IInv, NEW c \in Child, Arrive(c)
  PROVE  IInv'
<1> USE ChildFinite DEF IInv, Arrive
<1>1. cpc' \in [Child -> {"none", "start", "barrier", "ended", "killed"}]
      /\ cpc'[c] = "barrier" /\ \A d \in Child \ {c} : cpc'[d] = cpc[d]
  BY DEF TypeOK
<1>2. c \notin arrived /\ arrived \in SUBSET Child
  BY DEF ChildrenOK, TypeOK
<1>3. Cardinality(arrived') = Cardinality(arrived) + 1
  BY <1>2, Subsets
<1>4. sem \in Nat /\ Cardinality(arrived) \in Nat
  BY <1>2, Subsets DEF TypeOK
<1>5. sem' + Cardinality(arrived') = sem + Cardinality(arrived)
  BY <1>3, <1>4
<1>6. TypeOK'
  BY <1>1, <1>2 DEF TypeOK
<1>7. SemaphoreCounts' /\ ChildrenOK'
  BY <1>1, <1>5 DEF SemaphoreCounts, ChildrenOK
<1>8. ForkOK'
  BY <1>1, <1>5 DEF ForkOK
<1>9. ReapOK'
  <2>1. Ended \subseteq Ended'
    BY <1>1 DEF Ended
  <2>2. resumed = {}
    BY <1>2 DEF ReapOK
  <2> QED BY <2>1, <2>2 DEF ReapOK
<1> QED BY <1>6, <1>7, <1>8, <1>9

LEMMA ResumeStep ==
  ASSUME IInv, NEW c \in Child, Resume(c)
  PROVE  IInv'
<1> USE ChildFinite DEF IInv, Resume
<1>1. cpc' \in [Child -> {"none", "start", "barrier", "ended", "killed"}]
      /\ cpc'[c] = "ended" /\ \A d \in Child \ {c} : cpc'[d] = cpc[d]
  BY DEF TypeOK
<1>2. arrived = Child
  BY ZeroMeansAll
<1>3. TypeOK'
  BY <1>1 DEF TypeOK
<1>4. SemaphoreCounts' /\ ChildrenOK'
  BY <1>1 DEF SemaphoreCounts, ChildrenOK
<1>5. ForkOK'
  BY <1>1 DEF ForkOK
<1>6. ReapOK'
  <2>1. Ended \subseteq Ended'
    BY <1>1 DEF Ended
  <2> QED BY <1>2, <2>1 DEF ReapOK
<1> QED BY <1>3, <1>4, <1>5, <1>6

LEMMA KilledStep ==
  ASSUME IInv, NEW c \in Child, Killed(c)
  PROVE  IInv'
<1> USE ChildFinite DEF IInv, Killed
<1>1. cpc' \in [Child -> {"none", "start", "barrier", "ended", "killed"}]
      /\ cpc'[c] = "killed" /\ \A d \in Child \ {c} : cpc'[d] = cpc[d]
  BY DEF TypeOK
<1>2. TypeOK'
  BY <1>1 DEF TypeOK
<1>3. SemaphoreCounts' /\ ChildrenOK'
  BY <1>1 DEF SemaphoreCounts, ChildrenOK
<1>4. ForkOK'
  BY <1>1 DEF ForkOK
<1>5. ReapOK'
  <2>1. Ended \subseteq Ended'
    BY <1>1 DEF Ended
  <2> QED BY <2>1 DEF ReapOK
<1> QED BY <1>2, <1>3, <1>4, <1>5

LEMMA NextIInv == IInv /\ [Next]_vars => IInv'
<1> SUFFICES ASSUME IInv, [Next]_vars PROVE IInv'
  OBVIOUS
<1>1. CASE Parent
  BY <1>1, SetupStep, ForkStep, MainResumesStep, ReapStep, RemoveStep DEF Parent
<1>2. CASE MainFails
  BY <1>2, MainFailsStep
<1>3. ASSUME NEW c \in Child, Runs(c) \/ Killed(c) PROVE IInv'
  BY <1>3, ArriveStep, ResumeStep, KilledStep DEF Runs
<1>4. CASE UNCHANGED vars
  BY <1>4 DEF vars, IInv, TypeOK, SemaphoreCounts, ChildrenOK, ForkOK, ReapOK, Ended
<1> QED BY <1>1, <1>2, <1>3, <1>4 DEF Next

-------------------------------------------------------------------------------
\* The inductive invariant.
THEOREM Invariant == Spec => []IInv
BY InitIInv, NextIInv, PTL DEF Spec

\* Type correctness.
THEOREM TypeCorrect == Spec => []TypeOK
<1>1. IInv => TypeOK
  BY DEF IInv
<1> QED BY <1>1, Invariant, PTL

\* The semaphore counts the children still to come.
THEOREM SemaphoreCorrect == Spec => []SemaphoreCounts
<1>1. IInv => SemaphoreCounts
  BY DEF IInv
<1> QED BY <1>1, Invariant, PTL

\* The semaphore set is removed when everybody has left the barrier.
THEOREM RemovedCorrect == Spec => []RemovedLast
<1>1. IInv => RemovedLast
  <2> SUFFICES ASSUME IInv, mpc = "done"
               PROVE  Ended = Child /\ resumed = {Main} \cup {c \in Child : cpc[c] = "ended"}
    BY DEF RemovedLast
  <2>1. Ended = Child
    BY DEF IInv, ReapOK, Ended
  <2>2. Main \in resumed /\ resumed \subseteq Child \cup {Main}
    BY DEF IInv, ReapOK, TypeOK
  <2>3. \A c \in Child : c \in resumed <=> cpc[c] = "ended"
    BY DEF IInv, ChildrenOK
  <2> QED BY <2>1, <2>2, <2>3
<1> QED BY <1>1, Invariant, PTL

\* barrier_sync.c implements the barrier, for every number of children and
\* whatever fails: nobody goes on before all children have come.
THEOREM Implements == Spec => RefinesBarrier
<1>1. Init => Barrier!Init
  BY DEF Init, Barrier!Init
<1>2. IInv /\ [Next]_vars => [Barrier!Next]_<<arrived, resumed>>
  <2> SUFFICES ASSUME IInv, [Next]_vars PROVE [Barrier!Next]_<<arrived, resumed>>
    OBVIOUS
  <2>1. CASE MainResumes
    <3>1. arrived = Child
      BY <2>1, ZeroMeansAll DEF MainResumes
    <3>2. Barrier!GoOn(Main)
      BY <2>1, <3>1 DEF MainResumes, Barrier!GoOn
    <3> QED BY <3>2 DEF Barrier!Next
  <2>2. ASSUME NEW c \in Child, Resume(c) PROVE Barrier!Next
    <3>1. arrived = Child
      BY <2>2, ZeroMeansAll DEF Resume
    <3>2. Barrier!GoOn(c)
      BY <2>2, <3>1 DEF Resume, Barrier!GoOn
    <3> QED BY <3>2 DEF Barrier!Next
  <2>3. ASSUME NEW c \in Child, Arrive(c) PROVE Barrier!Next
    BY <2>3 DEF Arrive, Barrier!Come, Barrier!Next
  <2>4. ASSUME NEW c \in Child, Killed(c) PROVE UNCHANGED <<arrived, resumed>>
    BY <2>4 DEF Killed
  <2>5. CASE Setup \/ Fork \/ Reap \/ Remove \/ MainFails \/ UNCHANGED vars
    BY <2>5 DEF Setup, Fork, Reap, Remove, MainFails, vars
  <2> QED BY <2>1, <2>2, <2>3, <2>4, <2>5 DEF Next, Parent, Runs
<1> QED BY <1>1, <1>2, Invariant, PTL DEF Spec, RefinesBarrier, Barrier!Spec

-------------------------------------------------------------------------------
(* What AllPass rests on, without fairness.                                *)

\* Some process is not blocked in semop() or wait().
SomebodyCanGo ==
  \/ mpc \in {"setup", "fork", "remove"}
  \/ mpc = "barrier" /\ sem = 0
  \/ mpc = "reap" /\ Ended \ reaped # {}
  \/ exists /\ \E c \in Child : \/ cpc[c] = "start" /\ sem > 0
                                \/ cpc[c] = "barrier" /\ sem = 0

\* Nobody is left at the barrier for ever, except for a child killed on its way
\* there: one that is killed after its decrement holds nobody up, since the
\* semaphore keeps its value.
THEOREM StuckOnlyWithoutOne ==
  Spec => [](\/ SomebodyCanGo
             \/ mpc \in {"done", "failed"}
             \/ \E c \in Child : cpc[c] = "killed" /\ c \notin arrived)
<1>1. ASSUME IInv, mpc \in {"barrier", "reap"},
             \A c \in Child : cpc[c] = "killed" => c \in arrived
      PROVE  SomebodyCanGo
  <2>1. /\ sem \in Nat /\ arrived \in SUBSET Child /\ reaped \in SUBSET Child
        /\ exists /\ \A c \in Child : cpc[c] # "none"
    BY <1>1, ChildFinite DEF IInv, TypeOK, ForkOK
  <2>2. sem + Cardinality(arrived) = PROCESS_NUM
    <3>1. 1 \in Child
      BY ChildFinite DEF Child
    <3> QED BY <1>1, <2>1, <3>1 DEF IInv, SemaphoreCounts
  <2>3. Cardinality(arrived) \in Nat /\ (arrived = Child => sem = 0)
    BY <2>1, <2>2, Subsets, ChildFinite
  <2>4. CASE mpc = "barrier" /\ sem # 0
    <3>1. arrived # Child
      BY <2>1, <2>2, <2>4, ChildFinite
    <3>2. PICK c \in Child : c \notin arrived
      BY <2>1, <3>1
    <3>3. cpc[c] = "start"
      BY <1>1, <2>1, <3>2 DEF IInv, TypeOK, ChildrenOK
    <3>4. sem > 0
      BY <2>1, <2>4
    <3> QED BY <2>1, <3>3, <3>4 DEF SomebodyCanGo
  <2>5. CASE mpc = "reap"
    <3>1. arrived = Child /\ i = Cardinality(reaped) /\ i < PROCESS_NUM
      BY <1>1, <2>5 DEF IInv, ReapOK
    <3>2. PICK c \in Child : c \notin reaped
      BY <2>1, <3>1, ChildFinite
    <3>3. c \in Ended \/ cpc[c] = "barrier"
      BY <1>1, <2>1, <3>1 DEF IInv, TypeOK, ChildrenOK, Ended
    <3> QED BY <2>1, <2>3, <2>5, <3>1, <3>2, <3>3 DEF SomebodyCanGo
  <2> QED BY <1>1, <2>4, <2>5 DEF SomebodyCanGo
<1>2. IInv => \/ SomebodyCanGo
              \/ mpc \in {"done", "failed"}
              \/ \E c \in Child : cpc[c] = "killed" /\ c \notin arrived
  BY <1>1 DEF IInv, TypeOK, SomebodyCanGo
<1> QED BY <1>2, Invariant, PTL

===============================================================================

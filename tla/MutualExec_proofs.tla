--------------------------- MODULE MutualExec_proofs ---------------------------
(***************************************************************************)
(* Proofs about mutual_exec.c, for every argument and every moment at      *)
(* which one of the processes may be killed.                               *)
(***************************************************************************)
EXTENDS MutualExec, TLAPS

\* Where the loops are.
LoopOK ==
  /\ ppc = "fork" => pi = 1 /\ pout = 0
  /\ ppc \in {"read", "say", "write"} => pi <= max_num
  /\ ppc = "wait" => pi = max_num + 1
  /\ ppc = "fork" => cpc = "none"
  /\ cpc \in {"read", "say", "write"} => ci <= max_num
  /\ cpc = "ended" => ci = max_num + 1
  /\ cpc \in {"none", "first"} => ci = 1 /\ cout = 0

\* A number is printed between the read() and the write() of its round.
PrintOK ==
  /\ ppc \in {"read", "say", "wait"} => pout = pi - 1
  /\ ppc = "write" => pout = pi
  /\ cpc \in {"read", "say", "ended"} => cout = ci - 1
  /\ cpc = "write" => cout = ci

InRound(pc) == IF pc \in {"say", "write"} THEN 1 ELSE 0

\* Every number sent is in a pipe or has been read, as long as both ends live:
\* there is exactly one on its way, or at the process whose turn it is.
Both == ppc \in {"read", "say", "write", "wait"} /\ cpc \in {"first", "read", "say", "write", "ended"}

TurnOK ==
  /\ cpc = "none" => toParent = 0 /\ toChild = 0
  /\ Both =>
       /\ ci + InRound(cpc) + toChild = pi
       /\ pi + InRound(ppc) + toParent = IF cpc = "first" THEN 1 ELSE ci + 1

\* Who is not there any more, and why.
GoneOK ==
  /\ ppc \notin {"fork", "ended", "dead"} => cpc # "none"
  /\ ~killed => /\ ppc # "dead" /\ cpc # "dead"
                /\ ppc = "ended" => \/ cpc = "none"
                                    \/ cpc = "ended" /\ pout = max_num /\ cout = max_num

IInv == TypeOK /\ LoopOK /\ PrintOK /\ TurnOK /\ GoneOK

-------------------------------------------------------------------------------
LEMMA InitIInv == Init => IInv
<1> SUFFICES ASSUME Init PROVE IInv
  OBVIOUS
<1>1. max_num \in Numbers /\ max_num \in Nat /\ ppc = "fork" /\ cpc = "none"
  BY MutualExecAssumption DEF Init
<1>2. TypeOK
  BY <1>1 DEF Init, TypeOK
<1>3. LoopOK /\ PrintOK
  BY <1>1 DEF Init, LoopOK, PrintOK
<1>4. TurnOK /\ GoneOK
  BY <1>1 DEF Init, TurnOK, GoneOK, Both
<1> QED BY <1>2, <1>3, <1>4 DEF IInv

LEMMA NextIInv == IInv /\ [Next]_vars => IInv'
<1> SUFFICES ASSUME IInv, [Next]_vars PROVE IInv'
  OBVIOUS
<1> USE MutualExecAssumption
    DEF IInv, TypeOK, LoopOK, PrintOK, TurnOK, GoneOK, Both, InRound, Live
<1>1. CASE Fork
  BY <1>1 DEF Fork, ParentLoop
<1>2. CASE ForkFails
  BY <1>2 DEF ForkFails
<1>3. CASE ParentRead
  BY <1>3 DEF ParentRead, ParentEof
<1>4. CASE ParentSays
  BY <1>4 DEF ParentSays
<1>5. CASE ParentWrites
  BY <1>5 DEF ParentWrites, ParentLoop
<1>6. CASE ParentWaits
  BY <1>6 DEF ParentWaits
<1>7. CASE ChildBegins
  BY <1>7 DEF ChildBegins, ChildLoop
<1>8. CASE ChildRead
  BY <1>8 DEF ChildRead
<1>9. CASE ChildSays
  BY <1>9 DEF ChildSays
<1>10. CASE ChildWrites
  BY <1>10 DEF ChildWrites, ChildLoop
<1>11. CASE KillParent
  BY <1>11 DEF KillParent
<1>12. CASE KillChild
  BY <1>12 DEF KillChild
<1>13. CASE UNCHANGED vars
  BY <1>13 DEF vars
<1> QED
  BY <1>1, <1>2, <1>3, <1>4, <1>5, <1>6, <1>7, <1>8, <1>9, <1>10, <1>11, <1>12, <1>13
  DEF Next, Parent, Child

LEMMA InvariantHolds == Spec => []IInv
<1> QED BY InitIInv, NextIInv, PTL DEF Spec

\* The variables stay in their sets: the pipes never go below empty.
THEOREM TypeCorrect == Spec => []TypeOK
<1>1. IInv => TypeOK
  BY DEF IInv
<1> QED BY <1>1, InvariantHolds, PTL

\* Parent and child are never both between read() and write(), for every
\* argument, unless one has been killed.
THEOREM MutualExclusionHolds == Spec => []MutualExclusion
<1>1. IInv => MutualExclusion
  BY DEF IInv, TypeOK, TurnOK, LoopOK, GoneOK, Both, InRound, MutualExclusion
<1> QED BY <1>1, InvariantHolds, PTL

\* Unless one was killed, no write() finds its reader gone, and the parent ends
\* after the child, both having printed all their lines.
THEOREM OrderlyEndHolds == Spec => []OrderlyEnd
<1>1. IInv => OrderlyEnd
  BY DEF IInv, GoneOK, OrderlyEnd
<1> QED BY <1>1, InvariantHolds, PTL

-------------------------------------------------------------------------------
saidBar == [p \in {"Parent", "Child"} |-> IF p = "Parent" THEN pout ELSE cout]

goneBar == {p \in {"Parent", "Child"} : IF p = "Parent" THEN Gone(ppc, cpc) ELSE Gone(cpc, ppc)}

\* Who prints is there to print, and it is his turn if the other one is there.
LEMMA ParentInTurn ==
  IInv /\ ppc = "say" => pout < max_num /\ (~Gone(cpc, ppc) => pout = cout)
BY MutualExecAssumption
DEF IInv, TypeOK, LoopOK, PrintOK, TurnOK, GoneOK, Both, InRound, Gone

LEMMA ChildInTurn ==
  IInv /\ cpc = "say" => cout < max_num /\ (~Gone(ppc, cpc) => pout = cout + 1)
BY MutualExecAssumption
DEF IInv, TypeOK, LoopOK, PrintOK, TurnOK, GoneOK, Both, InRound, Gone

LEMMA ParentSpeaks == IInv /\ ParentSays => Turns!Speak("Parent") \/ Turns!LastLine("Parent")
<1> SUFFICES ASSUME IInv, ParentSays PROVE Turns!Speak("Parent") \/ Turns!LastLine("Parent")
  OBVIOUS
<1>1. /\ ppc = "say" /\ ppc' = "write" /\ cpc' = cpc
      /\ pout < max_num /\ (~Gone(cpc, ppc) => pout = cout)
  BY ParentInTurn DEF ParentSays
<1>2. pout' = pout + 1 /\ cout' = cout /\ max_num' = max_num
  BY <1>1 DEF ParentSays, IInv, TypeOK, PrintOK
<1>3. saidBar' = [saidBar EXCEPT !["Parent"] = @ + 1]
  BY <1>2 DEF saidBar
<1>4. saidBar["Parent"] = pout /\ saidBar["Child"] = cout
  BY DEF saidBar
<1>5. Turns!Say("Parent")
  BY <1>1, <1>2, <1>3, <1>4 DEF Turns!Say, saidBar
<1>6. CASE Gone(cpc, ppc)
  <2>1. goneBar = {"Child"} /\ goneBar' = {"Parent", "Child"}
    BY <1>1, <1>6 DEF goneBar, Gone
  <2> QED BY <1>5, <2>1 DEF Turns!LastLine, Turns!Party, goneBar
<1>7. CASE ~Gone(cpc, ppc)
  <2>1. goneBar = {} /\ goneBar' = {}
    BY <1>1, <1>7 DEF goneBar, Gone
  <2>2. Turns!InTurn("Parent")
    BY <1>1, <1>4, <1>7 DEF Turns!InTurn, saidBar
  <2> QED BY <1>5, <2>1, <2>2 DEF Turns!Speak, goneBar
<1> QED BY <1>6, <1>7

LEMMA ChildSpeaks == IInv /\ ChildSays => Turns!Speak("Child") \/ Turns!LastLine("Child")
<1> SUFFICES ASSUME IInv, ChildSays PROVE Turns!Speak("Child") \/ Turns!LastLine("Child")
  OBVIOUS
<1>1. /\ cpc = "say" /\ cpc' = "write" /\ ppc' = ppc
      /\ cout < max_num /\ (~Gone(ppc, cpc) => pout = cout + 1)
  BY ChildInTurn DEF ChildSays
<1>2. cout' = cout + 1 /\ pout' = pout /\ max_num' = max_num
  BY <1>1 DEF ChildSays, IInv, TypeOK, PrintOK
<1>3. saidBar' = [saidBar EXCEPT !["Child"] = @ + 1]
  BY <1>2 DEF saidBar
<1>4. saidBar["Parent"] = pout /\ saidBar["Child"] = cout
  BY DEF saidBar
<1>5. Turns!Say("Child")
  BY <1>1, <1>2, <1>3, <1>4 DEF Turns!Say, saidBar
<1>6. CASE Gone(ppc, cpc)
  <2>1. goneBar = {"Parent"} /\ goneBar' = {"Parent", "Child"}
    BY <1>1, <1>6 DEF goneBar, Gone
  <2> QED BY <1>5, <2>1 DEF Turns!LastLine, Turns!Party, goneBar
<1>7. CASE ~Gone(ppc, cpc)
  <2>1. goneBar = {} /\ goneBar' = {}
    BY <1>1, <1>7 DEF goneBar, Gone
  <2>2. Turns!InTurn("Child")
    BY <1>1, <1>4, <1>7 DEF Turns!InTurn, saidBar
  <2> QED BY <1>5, <2>1, <2>2 DEF Turns!Speak, goneBar
<1> QED BY <1>6, <1>7

\* Every other step at most makes processes go; who is gone stays so.
LEMMA OthersLeave ==
  ASSUME IInv, Next \/ UNCHANGED vars, ~ParentSays, ~ChildSays
  PROVE  \E S \in SUBSET Turns!Party : Turns!Leave(S)
<1>1. pout' = pout /\ cout' = cout /\ max_num' = max_num
  BY DEF Next, Parent, Child, Fork, ForkFails, ParentRead, ParentWrites, ParentWaits,
         ChildBegins, ChildRead, ChildWrites, KillParent, KillChild, vars
<1>2. /\ Gone(ppc, cpc) => Gone(ppc, cpc)'
      /\ Gone(cpc, ppc) => Gone(cpc, ppc)'
  <2>1. ppc = "fork" => cpc = "none"
    BY DEF IInv, LoopOK
  <2> QED
    BY <2>1
    DEF Next, Parent, Child, Fork, ForkFails, ParentRead, ParentWrites, ParentWaits,
        ChildBegins, ChildRead, ChildWrites, KillParent, KillChild, vars, Gone, Live
<1>3. goneBar \subseteq goneBar' /\ goneBar' \subseteq Turns!Party
  BY <1>2 DEF goneBar, Turns!Party
<1>4. saidBar' = saidBar
  BY <1>1 DEF saidBar
<1>5. ASSUME NEW S, S = goneBar' PROVE S \in SUBSET Turns!Party /\ Turns!Leave(S)
  BY <1>1, <1>3, <1>4, <1>5 DEF Turns!Leave, goneBar, saidBar
<1> QED BY <1>5

\* The program implements Alternation: line by line in turn, the parent first,
\* and at most one line of a process whose partner was killed.
THEOREM ImplementsAlternation == Spec => RefinesAlternation
<1>1. Init => Turns!Init
  <2> SUFFICES ASSUME Init PROVE Turns!Init
    OBVIOUS
  <2>1. max_num \in Nat
    BY MutualExecAssumption DEF Init
  <2>2. saidBar = [p \in Turns!Party |-> 0] /\ goneBar = {}
    BY DEF Init, saidBar, goneBar, Gone, Turns!Party
  <2> QED BY <2>1, <2>2 DEF Turns!Init, saidBar, goneBar
<1>2. IInv /\ [Next]_vars => Turns!Next
  <2> SUFFICES ASSUME IInv, [Next]_vars PROVE Turns!Next
    OBVIOUS
  <2>1. CASE ParentSays
    BY <2>1, ParentSpeaks DEF Turns!Next, Turns!Party
  <2>2. CASE ChildSays
    BY <2>2, ChildSpeaks DEF Turns!Next, Turns!Party
  <2>3. CASE ~ParentSays /\ ~ChildSays
    BY <2>3, OthersLeave DEF Turns!Next
  <2> QED BY <2>1, <2>2, <2>3
<1> QED BY <1>1, <1>2, InvariantHolds, PTL DEF Spec, Turns!Spec, RefinesAlternation

-------------------------------------------------------------------------------
(* What BothEnd rests on, without fairness.                                *)

\* A process that is not waiting for the other: it is not in a read() or a
\* wait(), or what it waits for has come.
ParentCanGo ==
  \/ ppc \in {"fork", "say", "write"}
  \/ ppc = "read" /\ (toParent > 0 \/ ~Live(cpc))
  \/ ppc = "wait" /\ ~Live(cpc)

ChildCanGo ==
  \/ cpc \in {"first", "say", "write"}
  \/ cpc = "read" /\ (toChild > 0 \/ ~Live(ppc))

\* Parent and child never wait for each other, although each waits for the
\* other in every round and the last number the child sends is never read.
THEOREM NeverBothWait == Spec => [](Live(ppc) \/ Live(cpc) => ParentCanGo \/ ChildCanGo)
<1>1. ASSUME IInv, Live(ppc) \/ Live(cpc) PROVE ParentCanGo \/ ChildCanGo
  <2>1. max_num \in Nat /\ pi \in Nat /\ ci \in Nat /\ toParent \in Nat /\ toChild \in Nat
    BY <1>1, MutualExecAssumption DEF IInv, TypeOK
  <2>2. CASE ~ (Live(ppc) /\ Live(cpc))
    BY <1>1, <2>2 DEF IInv, TypeOK, Live, ParentCanGo, ChildCanGo
  <2>3. CASE ppc \in {"read", "wait"} /\ cpc = "read" /\ toChild = 0
    <3>1. ci = pi /\ ci <= max_num /\ pi + toParent = ci + 1
      BY <1>1, <2>1, <2>3 DEF IInv, TurnOK, Both, InRound, LoopOK
    <3>2. ppc = "read" /\ toParent > 0
      BY <1>1, <2>1, <2>3, <3>1 DEF IInv, LoopOK
    <3> QED BY <3>2 DEF ParentCanGo
  <2>4. CASE Live(ppc) /\ Live(cpc) /\ ~ (ppc \in {"read", "wait"} /\ cpc = "read" /\ toChild = 0)
    BY <1>1, <2>1, <2>4 DEF IInv, TypeOK, Live, ParentCanGo, ChildCanGo
  <2> QED BY <2>2, <2>3, <2>4
<1>2. IInv => (Live(ppc) \/ Live(cpc) => ParentCanGo \/ ChildCanGo)
  BY <1>1
<1> QED BY <1>2, InvariantHolds, PTL

===============================================================================

----------------------------- MODULE MergeSort_proofs -----------------------------
(***************************************************************************)
(* Proofs about the merge sort, for every array size and all numbers.      *)
(* What one process does is stated of its memory m and its stack T alone.  *)
(***************************************************************************)
EXTENDS MergeSort, FiniteSetTheorems, TLAPS

Array(n) == [-1 .. n - 1 -> Int]

Memory(n) ==
  [numbers : Array(n), temp : Array(n), left : Int, left_end : Int, mid : Int,
   right : Int, tmp_pos : Int, num_elements : Int, i : Int]

\* The range of the call of merge() that runs.
First(m) == m.right + m.i - m.num_elements + 1

Final(m) == m.right + m.i

\* merge() within an array of n elements.
MergeOK(m, n) ==
  /\ m \in Memory(n)
  /\ Busy(m) =>
       /\ 0 <= First(m) /\ First(m) <= m.left_end /\ m.left_end <= Final(m) /\ Final(m) <= n - 1
       /\ 0 <= m.i
       /\ First(m) <= m.left /\ m.left <= m.left_end + 1
       /\ m.left_end + 1 <= m.mid /\ m.mid <= Final(m) + 1
       /\ m.tmp_pos = m.left + m.mid - m.left_end - 1
       /\ Merging(m) => m.i = 0
       /\ ~Merging(m) => m.left = m.left_end + 1 /\ m.mid = Final(m) + 1

-------------------------------------------------------------------------------
(* One turn of a loop of merge().                                          *)

\* What the three kinds of turns change.
LEMMA TakeLeftFields ==
  ASSUME NEW n \in Nat, NEW m \in Memory(n), m.tmp_pos \in 0 .. n - 1, m.left \in 0 .. n - 1
  PROVE  /\ TakeLeft(m) \in Memory(n)
         /\ TakeLeft(m).temp = [m.temp EXCEPT ![m.tmp_pos] = m.numbers[m.left]]
         /\ TakeLeft(m).tmp_pos = m.tmp_pos + 1 /\ TakeLeft(m).left = m.left + 1
         /\ TakeLeft(m).numbers = m.numbers /\ TakeLeft(m).left_end = m.left_end
         /\ TakeLeft(m).mid = m.mid /\ TakeLeft(m).right = m.right
         /\ TakeLeft(m).num_elements = m.num_elements /\ TakeLeft(m).i = m.i
<1>1. m.numbers[m.left] \in Int
  BY DEF Memory, Array
<1>2. [m.temp EXCEPT ![m.tmp_pos] = m.numbers[m.left]] \in Array(n)
  BY <1>1 DEF Memory, Array
<1>3. m.tmp_pos + 1 \in Int /\ m.left + 1 \in Int
  BY DEF Memory
<1> QED BY <1>2, <1>3 DEF TakeLeft, Memory

LEMMA TakeRightFields ==
  ASSUME NEW n \in Nat, NEW m \in Memory(n), m.tmp_pos \in 0 .. n - 1, m.mid \in 0 .. n - 1
  PROVE  /\ TakeRight(m) \in Memory(n)
         /\ TakeRight(m).temp = [m.temp EXCEPT ![m.tmp_pos] = m.numbers[m.mid]]
         /\ TakeRight(m).tmp_pos = m.tmp_pos + 1 /\ TakeRight(m).mid = m.mid + 1
         /\ TakeRight(m).numbers = m.numbers /\ TakeRight(m).left_end = m.left_end
         /\ TakeRight(m).left = m.left /\ TakeRight(m).right = m.right
         /\ TakeRight(m).num_elements = m.num_elements /\ TakeRight(m).i = m.i
<1>1. m.numbers[m.mid] \in Int
  BY DEF Memory, Array
<1>2. [m.temp EXCEPT ![m.tmp_pos] = m.numbers[m.mid]] \in Array(n)
  BY <1>1 DEF Memory, Array
<1>3. m.tmp_pos + 1 \in Int /\ m.mid + 1 \in Int
  BY DEF Memory
<1> QED BY <1>2, <1>3 DEF TakeRight, Memory

LEMMA CopyBackFields ==
  ASSUME NEW n \in Nat, NEW m \in Memory(n), m.right \in -1 .. n - 1
  PROVE  /\ CopyBack(m) \in Memory(n)
         /\ CopyBack(m).numbers = [m.numbers EXCEPT ![m.right] = m.temp[m.right]]
         /\ CopyBack(m).right = m.right - 1 /\ CopyBack(m).i = m.i + 1
         /\ CopyBack(m).temp = m.temp /\ CopyBack(m).left_end = m.left_end
         /\ CopyBack(m).left = m.left /\ CopyBack(m).mid = m.mid
         /\ CopyBack(m).num_elements = m.num_elements /\ CopyBack(m).tmp_pos = m.tmp_pos
<1>1. m.temp[m.right] \in Int
  BY DEF Memory, Array
<1>2. [m.numbers EXCEPT ![m.right] = m.temp[m.right]] \in Array(n)
  BY <1>1 DEF Memory, Array
<1>3. m.right - 1 \in Int /\ m.i + 1 \in Int
  BY DEF Memory
<1> QED BY <1>2, <1>3 DEF CopyBack, Memory

\* The three kinds of turns, and where they read and write.
LEMMA Turns ==
  ASSUME NEW n \in Nat, NEW m, MergeOK(m, n), Busy(m)
  PROVE  \/ /\ Merging(m) /\ Step(m) = TakeLeft(m) /\ LeftIsNext(m)
            /\ m.tmp_pos \in 0 .. n - 1 /\ m.left \in 0 .. n - 1
         \/ /\ Merging(m) /\ Step(m) = TakeRight(m) /\ ~LeftIsNext(m) /\ m.mid <= m.right
            /\ m.tmp_pos \in 0 .. n - 1 /\ m.mid \in 0 .. n - 1
         \/ /\ Copying(m) /\ Step(m) = CopyBack(m)
            /\ m.right \in -1 .. n - 1
<1> USE DEF MergeOK, Memory, Busy, First, Final
<1>1. CASE Copying(m)
  BY <1>1 DEF Copying, Step
<1>2. CASE ~Copying(m) /\ LeftIsNext(m)
  BY <1>2 DEF Step, LeftIsNext, Merging
<1>3. CASE ~Copying(m) /\ ~LeftIsNext(m)
  BY <1>3 DEF Step, LeftIsNext, Merging
<1> QED BY <1>1, <1>2, <1>3

\* merge() stays within the array and the cell before it.
LEMMA StepOK ==
  ASSUME NEW n \in Nat, NEW m, MergeOK(m, n), Busy(m)
  PROVE  MergeOK(Step(m), n) /\ First(Step(m)) = First(m) /\ Final(Step(m)) = Final(m)
<1> DEFINE r == Step(m)
<1>0. /\ m.left \in Int /\ m.left_end \in Int /\ m.mid \in Int /\ m.right \in Int
      /\ m.tmp_pos \in Int /\ m.num_elements \in Int /\ m.i \in Int /\ m \in Memory(n)
  BY DEF MergeOK, Memory
<1>1. CASE /\ Merging(m) /\ r = TakeLeft(m) /\ LeftIsNext(m)
           /\ m.tmp_pos \in 0 .. n - 1 /\ m.left \in 0 .. n - 1
  <2>1. /\ r \in Memory(n) /\ r.tmp_pos = m.tmp_pos + 1 /\ r.left = m.left + 1
        /\ r.left_end = m.left_end /\ r.mid = m.mid /\ r.right = m.right
        /\ r.num_elements = m.num_elements /\ r.i = m.i
    BY <1>0, <1>1, TakeLeftFields
  <2> HIDE DEF r
  <2>2. MergeOK(r, n) /\ First(r) = First(m) /\ Final(r) = Final(m)
    BY <1>0, <1>1, <2>1 DEF MergeOK, Busy, First, Final, Merging, Copying, LeftIsNext
  <2> QED BY <2>2 DEF r
<1>2. CASE /\ Merging(m) /\ r = TakeRight(m) /\ ~LeftIsNext(m) /\ m.mid <= m.right
           /\ m.tmp_pos \in 0 .. n - 1 /\ m.mid \in 0 .. n - 1
  <2>1. /\ r \in Memory(n) /\ r.tmp_pos = m.tmp_pos + 1 /\ r.mid = m.mid + 1
        /\ r.left_end = m.left_end /\ r.left = m.left /\ r.right = m.right
        /\ r.num_elements = m.num_elements /\ r.i = m.i
    BY <1>0, <1>2, TakeRightFields
  <2> HIDE DEF r
  <2>2. MergeOK(r, n) /\ First(r) = First(m) /\ Final(r) = Final(m)
    BY <1>0, <1>2, <2>1 DEF MergeOK, Busy, First, Final, Merging, Copying
  <2> QED BY <2>2 DEF r
<1>3. CASE Copying(m) /\ r = CopyBack(m) /\ m.right \in -1 .. n - 1
  <2>1. /\ r \in Memory(n) /\ r.right = m.right - 1 /\ r.i = m.i + 1
        /\ r.left_end = m.left_end /\ r.left = m.left /\ r.mid = m.mid
        /\ r.num_elements = m.num_elements /\ r.tmp_pos = m.tmp_pos
    BY <1>0, <1>3, CopyBackFields
  <2> HIDE DEF r
  <2>2. MergeOK(r, n) /\ First(r) = First(m) /\ Final(r) = Final(m)
    BY <1>0, <1>3, <2>1 DEF MergeOK, Busy, First, Final, Merging, Copying
  <2> QED BY <2>2 DEF r
<1> QED BY <1>1, <1>2, <1>3, Turns

-------------------------------------------------------------------------------
(* The order of the elements.                                              *)

Sorted(a, x, y) == \A c, d \in x .. y : c <= d => a[c] <= a[d]

\* What temp[] holds is in order and not above what is left of the two halves,
\* which are in order too.
MergeSorted(m) ==
  Busy(m) =>
    /\ Sorted(m.temp, First(m), m.tmp_pos - 1)
    /\ \A c \in First(m) .. m.tmp_pos - 1 :
         /\ \A d \in m.left .. m.left_end : m.temp[c] <= m.numbers[d]
         /\ \A d \in m.mid .. Final(m) : m.temp[c] <= m.numbers[d]
    /\ Merging(m) => /\ Sorted(m.numbers, First(m), m.left_end)
                     /\ Sorted(m.numbers, m.left_end + 1, Final(m))

\* What the last loop has copied back.
Copied(m) == Busy(m) => \A c \in m.right + 1 .. Final(m) : m.numbers[c] = m.temp[c]

\* The elements of the array are comparable.
LEMMA Elements ==
  ASSUME NEW n \in Nat, NEW m \in Memory(n), NEW c \in -1 .. n - 1
  PROVE  m.numbers[c] \in Int /\ m.temp[c] \in Int
BY DEF Memory, Array

\* An element that is not below those taken before and not above the rest is taken.
LEMMA TakeSorted ==
  ASSUME NEW n \in Nat, NEW m, MergeOK(m, n), Merging(m), MergeSorted(m), m.tmp_pos \in 0 .. n - 1,
         NEW x \in Int, NEW left, NEW mid,
         (left = m.left /\ mid = m.mid + 1) \/ (left = m.left + 1 /\ mid = m.mid),
         \A c \in First(m) .. m.tmp_pos - 1 : m.temp[c] <= x,
         \A d \in left .. m.left_end : x <= m.numbers[d],
         \A d \in mid .. Final(m) : x <= m.numbers[d],
         NEW t, t = [m.temp EXCEPT ![m.tmp_pos] = x]
  PROVE  /\ Sorted(t, First(m), m.tmp_pos)
         /\ \A c \in First(m) .. m.tmp_pos :
              /\ \A d \in left .. m.left_end : t[c] <= m.numbers[d]
              /\ \A d \in mid .. Final(m) : t[c] <= m.numbers[d]
<1>1. /\ m.left \in Int /\ m.left_end \in Int /\ m.mid \in Int /\ m.right \in Int
      /\ m.tmp_pos \in Int /\ m.num_elements \in Int /\ m.i \in Int /\ m \in Memory(n)
  BY DEF MergeOK, Memory
<1>2. First(m) \in Int /\ Final(m) \in Int
  BY <1>1 DEF First, Final
<1>3. /\ 0 <= First(m) /\ m.tmp_pos <= n - 1 /\ Busy(m) /\ First(m) <= m.tmp_pos
      /\ First(m) <= m.left /\ m.left_end < m.mid
  BY <1>1, <1>2 DEF MergeOK, Busy
<1>4. t[m.tmp_pos] = x /\ \A c \in First(m) .. m.tmp_pos - 1 : t[c] = m.temp[c]
  <2>1. m.temp \in [-1 .. n - 1 -> Int]
    BY <1>1 DEF Memory, Array
  <2>2. m.tmp_pos \in -1 .. n - 1 /\ \A c \in First(m) .. m.tmp_pos - 1 : c \in -1 .. n - 1 /\ c # m.tmp_pos
    BY <1>1, <1>2, <1>3
  <2> QED BY <2>1, <2>2
<1>5. \A c \in First(m) .. m.tmp_pos : c = m.tmp_pos \/ c \in First(m) .. m.tmp_pos - 1
  BY <1>1, <1>2
<1>6. \A c, d \in First(m) .. m.tmp_pos - 1 : c <= d => m.temp[c] <= m.temp[d]
  BY <1>3 DEF MergeSorted, Sorted
<1>7. Sorted(t, First(m), m.tmp_pos)
  <2> SUFFICES ASSUME NEW c \in First(m) .. m.tmp_pos, NEW d \in First(m) .. m.tmp_pos, c <= d
               PROVE  t[c] <= t[d]
    BY DEF Sorted
  <2>1. CASE d \in First(m) .. m.tmp_pos - 1
    <3>1. c \in First(m) .. m.tmp_pos - 1
      BY <1>1, <1>2, <2>1
    <3> QED BY <1>4, <1>6, <2>1, <3>1
  <2>2. CASE d = m.tmp_pos
    BY <1>4, <1>5, <2>2
  <2> QED BY <1>5, <2>1, <2>2
<1>8. ASSUME NEW c \in First(m) .. m.tmp_pos
      PROVE  /\ \A d \in left .. m.left_end : t[c] <= m.numbers[d]
             /\ \A d \in mid .. Final(m) : t[c] <= m.numbers[d]
  <2>1. CASE c = m.tmp_pos
    BY <1>4, <2>1
  <2>2. CASE c \in First(m) .. m.tmp_pos - 1
    <3>1. t[c] = m.temp[c]
      BY <1>4, <2>2
    <3>2. \A d \in left .. m.left_end : d \in m.left .. m.left_end
      BY <1>1
    <3>3. \A d \in mid .. Final(m) : d \in m.mid .. Final(m)
      BY <1>1, <1>2
    <3> QED BY <1>3, <2>2, <3>1, <3>2, <3>3 DEF MergeSorted
  <2> QED BY <1>5, <2>1, <2>2
<1> QED BY <1>7, <1>8

\* A turn keeps the order; the turn too many included.
LEMMA StepSorted ==
  ASSUME NEW n \in Nat, NEW m, MergeOK(m, n), Busy(m), MergeSorted(m)
  PROVE  MergeSorted(Step(m))
<1> DEFINE r == Step(m)
<1>0. /\ m.left \in Int /\ m.left_end \in Int /\ m.mid \in Int /\ m.right \in Int
      /\ m.tmp_pos \in Int /\ m.num_elements \in Int /\ m.i \in Int /\ m \in Memory(n)
      /\ First(m) \in Int /\ Final(m) \in Int
  BY DEF MergeOK, Memory, First, Final
<1>00. First(r) = First(m) /\ Final(r) = Final(m)
  BY StepOK
<1>1. CASE /\ Merging(m) /\ r = TakeLeft(m) /\ LeftIsNext(m)
           /\ m.tmp_pos \in 0 .. n - 1 /\ m.left \in 0 .. n - 1
  <2>1. /\ r.temp = [m.temp EXCEPT ![m.tmp_pos] = m.numbers[m.left]]
        /\ r.tmp_pos = m.tmp_pos + 1 /\ r.left = m.left + 1
        /\ r.left_end = m.left_end /\ r.mid = m.mid /\ r.right = m.right
        /\ r.num_elements = m.num_elements /\ r.i = m.i /\ r.numbers = m.numbers
    BY <1>0, <1>1, TakeLeftFields
  <2>2. m.numbers[m.left] \in Int /\ m.left \in m.left .. m.left_end /\ m.right = Final(m)
    BY <1>0, <1>1, Elements DEF LeftIsNext, MergeOK, Final
  <2>3. \A c \in First(m) .. m.tmp_pos - 1 : m.temp[c] <= m.numbers[m.left]
    BY <2>2 DEF MergeSorted
  <2>4. \A d \in m.left + 1 .. m.left_end : m.numbers[m.left] <= m.numbers[d]
    <3>1. m.left \in First(m) .. m.left_end /\
          \A d \in m.left + 1 .. m.left_end : d \in First(m) .. m.left_end /\ m.left <= d
      BY <1>0, <2>2 DEF MergeOK
    <3> QED BY <1>1, <3>1 DEF MergeSorted, Sorted
  <2>5. \A d \in m.mid .. Final(m) : m.numbers[m.left] <= m.numbers[d]
    <3> SUFFICES ASSUME NEW d \in m.mid .. Final(m) PROVE m.numbers[m.left] <= m.numbers[d]
      OBVIOUS
    <3>1. m.mid \in m.left_end + 1 .. Final(m) /\ d \in m.left_end + 1 .. Final(m) /\ m.mid <= d
      BY <1>0 DEF MergeOK
    <3>2. m.numbers[m.mid] <= m.numbers[d]
      BY <1>1, <3>1 DEF MergeSorted, Sorted
    <3>3. m.numbers[m.left] <= m.numbers[m.mid]
      BY <1>0, <1>1, <2>2, <3>1 DEF LeftIsNext
    <3>4. m.mid \in -1 .. n - 1 /\ d \in -1 .. n - 1
      BY <1>0, <3>1 DEF MergeOK
    <3> QED BY <1>0, <2>2, <3>2, <3>3, <3>4, Elements
  <2>6. /\ Sorted(r.temp, First(m), m.tmp_pos)
        /\ \A c \in First(m) .. m.tmp_pos :
             /\ \A d \in m.left + 1 .. m.left_end : r.temp[c] <= m.numbers[d]
             /\ \A d \in m.mid .. Final(m) : r.temp[c] <= m.numbers[d]
    BY <1>1, <2>1, <2>2, <2>3, <2>4, <2>5, TakeSorted
  <2>7. Merging(m) => Sorted(m.numbers, First(m), m.left_end) /\ Sorted(m.numbers, m.left_end + 1, Final(m))
    BY DEF MergeSorted
  <2>8. m.tmp_pos + 1 - 1 = m.tmp_pos
    BY <1>0
  <2> HIDE DEF r
  <2>9. MergeSorted(r)
    BY <1>00, <1>1, <2>1, <2>6, <2>7, <2>8 DEF MergeSorted
  <2> QED BY <2>9 DEF r
<1>2. CASE /\ Merging(m) /\ r = TakeRight(m) /\ ~LeftIsNext(m) /\ m.mid <= m.right
           /\ m.tmp_pos \in 0 .. n - 1 /\ m.mid \in 0 .. n - 1
  <2>1. /\ r.temp = [m.temp EXCEPT ![m.tmp_pos] = m.numbers[m.mid]]
        /\ r.tmp_pos = m.tmp_pos + 1 /\ r.mid = m.mid + 1
        /\ r.left_end = m.left_end /\ r.left = m.left /\ r.right = m.right
        /\ r.num_elements = m.num_elements /\ r.i = m.i /\ r.numbers = m.numbers
    BY <1>0, <1>2, TakeRightFields
  <2>2. m.numbers[m.mid] \in Int /\ m.right = Final(m) /\ m.mid \in m.mid .. Final(m)
    BY <1>0, <1>2, Elements DEF MergeOK, Final
  <2>3. \A c \in First(m) .. m.tmp_pos - 1 : m.temp[c] <= m.numbers[m.mid]
    BY <2>2 DEF MergeSorted
  <2>4. \A d \in m.mid + 1 .. Final(m) : m.numbers[m.mid] <= m.numbers[d]
    <3>1. m.mid \in m.left_end + 1 .. Final(m) /\
          \A d \in m.mid + 1 .. Final(m) : d \in m.left_end + 1 .. Final(m) /\ m.mid <= d
      BY <1>0, <2>2 DEF MergeOK
    <3> QED BY <1>2, <3>1 DEF MergeSorted, Sorted
  <2>5. \A d \in m.left .. m.left_end : m.numbers[m.mid] <= m.numbers[d]
    <3> SUFFICES ASSUME NEW d \in m.left .. m.left_end PROVE m.numbers[m.mid] <= m.numbers[d]
      OBVIOUS
    <3>1. m.left \in First(m) .. m.left_end /\ d \in First(m) .. m.left_end /\ m.left <= d
      BY <1>0 DEF MergeOK
    <3>2. m.numbers[m.left] <= m.numbers[d]
      BY <1>2, <3>1 DEF MergeSorted, Sorted
    <3>3. m.left \in -1 .. n - 1 /\ d \in -1 .. n - 1
      BY <1>0, <3>1 DEF MergeOK
    <3>4. m.numbers[m.left] \in Int /\ m.numbers[d] \in Int
      BY <1>0, <3>3, Elements
    <3>5. ~(m.numbers[m.left] <= m.numbers[m.mid])
      BY <1>0, <1>2, <3>1 DEF LeftIsNext
    <3> QED BY <2>2, <3>2, <3>4, <3>5
  <2>6. /\ Sorted(r.temp, First(m), m.tmp_pos)
        /\ \A c \in First(m) .. m.tmp_pos :
             /\ \A d \in m.left .. m.left_end : r.temp[c] <= m.numbers[d]
             /\ \A d \in m.mid + 1 .. Final(m) : r.temp[c] <= m.numbers[d]
    <3> DEFINE left == m.left
               mid == m.mid + 1
    <3>1. (left = m.left /\ mid = m.mid + 1) \/ (left = m.left + 1 /\ mid = m.mid)
      OBVIOUS
    <3>2. \A d \in mid .. Final(m) : m.numbers[m.mid] <= m.numbers[d]
      BY <2>4
    <3>3. r.temp = [m.temp EXCEPT ![m.tmp_pos] = m.numbers[m.mid]]
      BY <2>1
    <3>4. \A d \in left .. m.left_end : m.numbers[m.mid] <= m.numbers[d]
      BY <2>5
    <3> HIDE DEF left, mid, r
    <3>5. /\ Sorted(r.temp, First(m), m.tmp_pos)
          /\ \A c \in First(m) .. m.tmp_pos :
               /\ \A d \in left .. m.left_end : r.temp[c] <= m.numbers[d]
               /\ \A d \in mid .. Final(m) : r.temp[c] <= m.numbers[d]
      BY <1>2, <2>2, <2>3, <3>1, <3>2, <3>3, <3>4, TakeSorted
    <3> QED BY <3>5 DEF left, mid
  <2>7. Merging(m) => Sorted(m.numbers, First(m), m.left_end) /\ Sorted(m.numbers, m.left_end + 1, Final(m))
    BY DEF MergeSorted
  <2>8. m.tmp_pos + 1 - 1 = m.tmp_pos
    BY <1>0
  <2> HIDE DEF r
  <2>9. MergeSorted(r)
    BY <1>00, <1>2, <2>1, <2>6, <2>7, <2>8 DEF MergeSorted
  <2> QED BY <2>9 DEF r
<1>3. CASE Copying(m) /\ r = CopyBack(m) /\ m.right \in -1 .. n - 1
  <2>1. /\ r.right = m.right - 1 /\ r.numbers = [m.numbers EXCEPT ![m.right] = m.temp[m.right]]
        /\ r.left_end = m.left_end /\ r.left = m.left /\ r.mid = m.mid
        /\ r.tmp_pos = m.tmp_pos /\ r.temp = m.temp
    BY <1>0, <1>3, CopyBackFields
  <2>2. m.left = m.left_end + 1 /\ m.mid = Final(m) + 1
    BY <1>3 DEF MergeOK, Copying
  <2>3. ~Merging(r) /\ \A d \in m.left .. m.left_end : FALSE
    BY <1>0, <1>3, <2>1, <2>2 DEF Merging, Copying
  <2>4. \A d \in m.mid .. Final(m) : FALSE
    BY <1>0, <2>2
  <2>6. Sorted(r.temp, First(m), m.tmp_pos - 1)
    BY <2>1 DEF MergeSorted
  <2> HIDE DEF r
  <2>8. MergeSorted(r)
    BY <1>00, <2>1, <2>3, <2>4, <2>6 DEF MergeSorted
  <2> QED BY <2>8 DEF r
<1> QED BY <1>1, <1>2, <1>3, Turns

\* A turn copies to temp[] or back.
LEMMA ThereOrBack ==
  ASSUME NEW n \in Nat, NEW m, MergeOK(m, n), Busy(m)
  PROVE  \/ /\ Merging(m) /\ Step(m).right = m.right /\ Step(m).i = m.i
            /\ Step(m).num_elements = m.num_elements
         \/ /\ Copying(m) /\ Step(m) = CopyBack(m) /\ m.right \in -1 .. n - 1
<1>0. m \in Memory(n)
  BY DEF MergeOK
<1>1. CASE /\ Merging(m) /\ Step(m) = TakeLeft(m)
           /\ m.tmp_pos \in 0 .. n - 1 /\ m.left \in 0 .. n - 1
  BY <1>0, <1>1, TakeLeftFields
<1>2. CASE /\ Merging(m) /\ Step(m) = TakeRight(m)
           /\ m.tmp_pos \in 0 .. n - 1 /\ m.mid \in 0 .. n - 1
  BY <1>0, <1>2, TakeRightFields
<1> QED BY <1>1, <1>2, Turns

\* A turn copies back one more element.
LEMMA StepCopied ==
  ASSUME NEW n \in Nat, NEW m, MergeOK(m, n), Busy(m), Copied(m)
  PROVE  Copied(Step(m))
<1> DEFINE r == Step(m)
<1>0. /\ m.right \in Int /\ m.num_elements \in Int /\ m.i \in Int /\ m \in Memory(n) /\ Final(m) \in Int
  BY DEF MergeOK, Memory, Final
<1>1. Final(r) = Final(m)
  BY StepOK
<1>2. CASE Merging(m) /\ r.right = m.right
  <2>1. \A c \in r.right + 1 .. Final(r) : FALSE
    BY <1>0, <1>1, <1>2 DEF MergeOK, Final
  <2> QED BY <2>1 DEF Copied
<1>3. CASE Copying(m) /\ r = CopyBack(m) /\ m.right \in -1 .. n - 1
  <2>1. /\ r.right = m.right - 1 /\ r.numbers = [m.numbers EXCEPT ![m.right] = m.temp[m.right]]
        /\ r.temp = m.temp
    BY <1>0, <1>3, CopyBackFields
  <2>2. m.numbers \in [-1 .. n - 1 -> Int] /\ Final(m) <= n - 1
    BY <1>0 DEF Memory, Array, MergeOK
  <2>3. ASSUME NEW c \in r.right + 1 .. Final(r) PROVE r.numbers[c] = r.temp[c]
    <3>1. c \in -1 .. n - 1 /\ (c = m.right \/ c \in m.right + 1 .. Final(m))
      BY <1>0, <1>1, <1>3, <2>1, <2>2
    <3>2. c # m.right => m.numbers[c] = m.temp[c]
      BY <3>1 DEF Copied
    <3> HIDE DEF r
    <3> QED BY <1>3, <2>1, <2>2, <3>1, <3>2
  <2> QED BY <2>3 DEF Copied
<1> QED BY <1>2, <1>3, ThereOrBack

\* The call ends with a turn that writes the element before its range.
LEMMA LastTurn ==
  ASSUME NEW n \in Nat, NEW m, MergeOK(m, n), Busy(m), ~Busy(Step(m))
  PROVE  /\ Copying(m) /\ Step(m) = CopyBack(m) /\ m.right = First(m) - 1 /\ m.right \in -1 .. n - 1
         /\ m.tmp_pos = Final(m) + 1
<1> DEFINE r == Step(m)
<1>0. /\ m.left \in Int /\ m.left_end \in Int /\ m.mid \in Int /\ m.right \in Int
      /\ m.tmp_pos \in Int /\ m.num_elements \in Int /\ m.i \in Int /\ m \in Memory(n)
      /\ First(m) \in Int /\ Final(m) \in Int
  BY DEF MergeOK, Memory, First, Final
<1>1. CASE Merging(m) /\ r.i = m.i /\ r.num_elements = m.num_elements
  <2>1. m.i <= m.num_elements
    BY <1>0, <1>1 DEF MergeOK, First, Final
  <2> QED BY <1>1, <2>1 DEF Busy, Copying
<1>2. CASE Copying(m) /\ r = CopyBack(m) /\ m.right \in -1 .. n - 1
  <2>1. /\ r.i = m.i + 1 /\ r.num_elements = m.num_elements
        /\ r.left_end = m.left_end /\ r.left = m.left /\ r.mid = m.mid /\ r.right = m.right - 1
    BY <1>0, <1>2, CopyBackFields
  <2>2. m.left = m.left_end + 1 /\ m.mid = Final(m) + 1 /\ m.tmp_pos = Final(m) + 1
    BY <1>0, <1>2 DEF MergeOK, Copying
  <2>3. ~Merging(r)
    BY <1>0, <1>2, <2>1, <2>2 DEF Merging, Copying
  <2>4. ~(r.i <= r.num_elements)
    BY <2>3 DEF Busy, Copying
  <2>5. m.right = First(m) - 1
    BY <1>0, <1>2, <2>1, <2>4 DEF Copying, First
  <2> QED BY <1>2, <2>2, <2>5
<1> QED BY <1>1, <1>2, ThereOrBack

\* A call that ends leaves temp[] and numbers[] equal in its range, and in order.
LEMMA MergeEnds ==
  ASSUME NEW n \in Nat, NEW m, MergeOK(m, n), Busy(m), Copied(m), ~Busy(Step(m))
  PROVE  /\ \A c \in First(m) .. Final(m) : Step(m).numbers[c] = m.temp[c] /\ Step(m).temp[c] = m.temp[c]
         /\ MergeSorted(m) => Sorted(Step(m).numbers, First(m), Final(m))
<1> DEFINE r == Step(m)
<1>0. /\ m.right \in Int /\ m \in Memory(n) /\ First(m) \in Int /\ Final(m) \in Int
      /\ 0 <= First(m) /\ Final(m) <= n - 1
  BY DEF MergeOK, Memory, First, Final
<1>1. Copying(m) /\ r = CopyBack(m) /\ m.right = First(m) - 1 /\ m.right \in -1 .. n - 1 /\ m.tmp_pos = Final(m) + 1
  BY LastTurn
<1>2. r.numbers = [m.numbers EXCEPT ![m.right] = m.temp[m.right]] /\ r.temp = m.temp
  BY <1>0, <1>1, CopyBackFields
<1> HIDE DEF r
<1>3. ASSUME NEW c \in First(m) .. Final(m) PROVE r.numbers[c] = m.temp[c]
  <2>1. m.numbers \in [-1 .. n - 1 -> Int]
    BY <1>0 DEF Memory, Array
  <2>2. c \in -1 .. n - 1 /\ c # m.right /\ c \in m.right + 1 .. Final(m)
    BY <1>0, <1>1
  <2> QED BY <1>2, <2>1, <2>2 DEF Copied
<1>4. MergeSorted(m) => Sorted(r.numbers, First(m), Final(m))
  <2>1. m.tmp_pos - 1 = Final(m)
    BY <1>0, <1>1
  <2> QED BY <1>3, <2>1 DEF MergeSorted, Sorted
<1> QED BY <1>2, <1>3, <1>4 DEF r

\* A turn changes numbers[] in its range and, when temp[] has another value there, in
\* the cell before it; and temp[] in its range.
LEMMA StepEffect ==
  ASSUME NEW n \in Nat, NEW m, MergeOK(m, n), Busy(m), NEW c \in -1 .. n - 1, c \notin First(m) .. Final(m)
  PROVE  /\ Step(m).temp[c] = m.temp[c]
         /\ c # First(m) - 1 \/ m.temp[c] = m.numbers[c] => Step(m).numbers[c] = m.numbers[c]
<1> DEFINE r == Step(m)
<1>0. /\ m.left \in Int /\ m.left_end \in Int /\ m.mid \in Int /\ m.right \in Int
      /\ m.tmp_pos \in Int /\ m.num_elements \in Int /\ m.i \in Int /\ m \in Memory(n)
      /\ First(m) \in Int /\ Final(m) \in Int
  BY DEF MergeOK, Memory, First, Final
<1>a. m.numbers \in [-1 .. n - 1 -> Int] /\ m.temp \in [-1 .. n - 1 -> Int]
  BY <1>0 DEF Memory, Array
<1>b. /\ First(m) <= m.left /\ m.left <= m.left_end + 1
      /\ m.left_end + 1 <= m.mid /\ m.mid <= Final(m) + 1
      /\ m.tmp_pos = m.left + m.mid - m.left_end - 1
      /\ 0 <= m.i /\ (Merging(m) => m.i = 0)
  BY DEF MergeOK
<1>1. Merging(m) => m.tmp_pos \in First(m) .. Final(m)
  BY <1>0, <1>b DEF Merging, Final
<1>2. ASSUME NEW x, Merging(m), r.temp = [m.temp EXCEPT ![m.tmp_pos] = x], r.numbers = m.numbers
      PROVE  r.temp[c] = m.temp[c] /\ r.numbers[c] = m.numbers[c]
  <2> HIDE DEF r
  <2> QED BY <1>0, <1>a, <1>1, <1>2
<1>3. ASSUME Copying(m), r = CopyBack(m), m.right \in -1 .. n - 1
      PROVE  /\ r.temp[c] = m.temp[c]
             /\ c # First(m) - 1 \/ m.temp[c] = m.numbers[c] => r.numbers[c] = m.numbers[c]
  <2>1. r.numbers = [m.numbers EXCEPT ![m.right] = m.temp[m.right]] /\ r.temp = m.temp
    BY <1>0, <1>3, CopyBackFields
  <2>2. m.right \in First(m) - 1 .. Final(m)
    BY <1>0, <1>b, <1>3 DEF Copying, First, Final
  <2>3. c = m.right => c = First(m) - 1
    BY <1>0, <2>2
  <2> HIDE DEF r
  <2> QED BY <1>0, <1>a, <2>1, <2>3
<1>4. CASE /\ Merging(m) /\ r = TakeLeft(m)
           /\ m.tmp_pos \in 0 .. n - 1 /\ m.left \in 0 .. n - 1
  <2>1. r.temp = [m.temp EXCEPT ![m.tmp_pos] = m.numbers[m.left]] /\ r.numbers = m.numbers
    BY <1>0, <1>4, TakeLeftFields
  <2> QED BY <1>2, <1>4, <2>1
<1>5. CASE /\ Merging(m) /\ r = TakeRight(m)
           /\ m.tmp_pos \in 0 .. n - 1 /\ m.mid \in 0 .. n - 1
  <2>1. r.temp = [m.temp EXCEPT ![m.tmp_pos] = m.numbers[m.mid]] /\ r.numbers = m.numbers
    BY <1>0, <1>5, TakeRightFields
  <2> QED BY <1>2, <1>5, <2>1
<1> QED BY <1>3, <1>4, <1>5, Turns

-------------------------------------------------------------------------------
(* The calls still to begin, and the indices of merge().                   *)

\* m_sort() of no element is called with left = right + 1.
Task(n) ==
  {t \in [call : {"m_sort", "merge"}, left : Nat, mid : Nat, right : Int] :
     /\ t.left <= t.right + 1 /\ t.right <= n - 1
     /\ t.call = "merge" => t.left < t.mid /\ t.mid <= t.right + 1}

BoundsInv ==
  /\ array_size \in Nat \ {0}
  /\ mem \in [Proc -> Memory(array_size)]
  /\ \A p \in Proc : MergeOK(mem[p], array_size)
  /\ todo \in [Proc -> Seq(Task(array_size))]
  /\ pipe \in Seq([0 .. Middle -> Int])

\* The calls m_sort() and main() make are within the array.
LEMMA OneTask ==
  ASSUME NEW S, NEW t \in S
  PROVE  <<t>> \in Seq(S)
OBVIOUS

LEMMA SortIsTask ==
  ASSUME NEW n \in Nat, NEW left \in Nat, NEW right \in Int, left <= right + 1, right <= n - 1
  PROVE  Sort(left, right) \in Task(n)
BY DEF Sort, Task

LEMMA MergeIsTask ==
  ASSUME NEW n \in Nat, NEW left \in Nat, NEW mid \in Nat, NEW right \in Int,
         left < mid, mid <= right + 1, right <= n - 1
  PROVE  MergeOf(left, mid, right) \in Task(n)
BY DEF MergeOf, Task

LEMMA MiddleFits ==
  ASSUME array_size \in Nat \ {0}
  PROVE  Middle \in Nat /\ Middle <= array_size - 1
         /\ (Middle + 1 <= array_size - 1 \/ Middle = array_size - 1)
BY DEF Middle

LEMMA MidFits ==
  ASSUME NEW left \in Nat, NEW right \in Nat, left < right
  PROVE  Mid(left, right) \in Nat /\ left <= Mid(left, right) /\ Mid(left, right) < right
BY DEF Mid

\* merge() is called within the array.
LEMMA CallOK ==
  ASSUME NEW n \in Nat, NEW m \in Memory(n), NEW left \in Nat, NEW mid \in Nat, NEW right \in Int,
         left < mid, mid <= right + 1, right <= n - 1
  PROVE  /\ MergeOK(Call(m, left, mid, right), n)
         /\ First(Call(m, left, mid, right)) = left /\ Final(Call(m, left, mid, right)) = right
         /\ Merging(Call(m, left, mid, right))
         /\ Call(m, left, mid, right).left = left /\ Call(m, left, mid, right).mid = mid
         /\ Call(m, left, mid, right).left_end = mid - 1 /\ Call(m, left, mid, right).right = right
         /\ Call(m, left, mid, right).tmp_pos = left
         /\ Call(m, left, mid, right).numbers = m.numbers
         /\ Call(m, left, mid, right).temp = m.temp
<1> DEFINE r == Call(m, left, mid, right)
<1>0. /\ left \in Int /\ mid - 1 \in Int /\ mid \in Int /\ right - left + 1 \in Int /\ 0 \in Int
  OBVIOUS
<1>1. /\ r \in Memory(n) /\ r.left = left /\ r.left_end = mid - 1 /\ r.mid = mid /\ r.right = right
      /\ r.tmp_pos = left /\ r.num_elements = right - left + 1 /\ r.i = 0
      /\ r.numbers = m.numbers /\ r.temp = m.temp
  BY <1>0 DEF Call, Memory
<1> HIDE DEF r
<1>2. First(r) = left /\ Final(r) = right /\ Merging(r)
  BY <1>1 DEF First, Final, Merging
<1>3. MergeOK(r, n)
  BY <1>1, <1>2 DEF MergeOK
<1> QED BY <1>1, <1>2, <1>3 DEF r

\* A memory in which merge() does not run is one of MergeOK.
LEMMA IdleOK ==
  ASSUME NEW n \in Nat, NEW m \in Memory(n), ~Busy(m)
  PROVE  MergeOK(m, n)
BY DEF MergeOK

LEMMA StartIdle ==
  ASSUME NEW n \in Nat, NEW a \in Array(n), NEW b \in Array(n)
  PROVE  NoCall(a, b) \in Memory(n) /\ ~Busy(NoCall(a, b))
         /\ NoCall(a, b).numbers = a /\ NoCall(a, b).temp = b
BY DEF NoCall, Memory, Busy, Merging, Copying

\* Every index merge() may use is one of an element or of the cell before the first.
LEMMA BoundsInit == Init => BoundsInv
<1> SUFFICES ASSUME Init PROVE BoundsInv
  OBVIOUS
<1>1. array_size \in Nat \ {0}
  BY MergeSortAssumption DEF Init
<1>2. ASSUME NEW p \in Proc
      PROVE  mem[p] \in Memory(array_size) /\ MergeOK(mem[p], array_size)
  <2> DEFINE a == [c \in Cell |-> IF c = -1 THEN 0 ELSE input[c]]
             b == [c \in Cell |-> 0]
  <2>1. \A c \in Cell : c # -1 => c \in Item
    BY <1>1 DEF Cell, Item
  <2>2. input \in [Item -> Int]
    BY MergeSortAssumption DEF Init
  <2>3. a \in Array(array_size) /\ b \in Array(array_size)
    BY <2>1, <2>2 DEF Array, Cell
  <2>4. mem[p] = NoCall(a, b)
    BY DEF Init
  <2> HIDE DEF a, b
  <2> QED BY <1>1, <2>3, <2>4, StartIdle, IdleOK
<1>3. mem \in [Proc -> Memory(array_size)]
  BY <1>2 DEF Init
<1>4. todo \in [Proc -> Seq(Task(array_size))] /\ pipe \in Seq([0 .. Middle -> Int])
  BY DEF Init
<1> QED BY <1>1, <1>2, <1>3, <1>4 DEF BoundsInv

\* No turn of either process, no fork() and no read() changes that.
LEMMA BoundsNext == BoundsInv /\ [Next]_vars => BoundsInv'
<1> SUFFICES ASSUME BoundsInv, [Next]_vars PROVE BoundsInv'
  OBVIOUS
<1> DEFINE n == array_size
<1>0. /\ n \in Nat /\ n \in Nat \ {0} /\ Middle \in Nat /\ Middle <= n - 1
      /\ \A p \in Proc : mem[p] \in Memory(n) /\ MergeOK(mem[p], n) /\ todo[p] \in Seq(Task(n))
  BY MiddleFits DEF BoundsInv
<1>1. CASE SortAlone
  <2>1. Sort(0, n - 1) \in Task(n)
    BY <1>0, SortIsTask
  <2>2. todo' = [todo EXCEPT !["parent"] = <<Sort(0, n - 1)>>]
    BY <1>1 DEF SortAlone
  <2>3. todo' \in [Proc -> Seq(Task(n))]
    BY <2>1, <2>2, OneTask DEF BoundsInv
  <2> QED BY <1>1, <2>3 DEF SortAlone, BoundsInv, Middle
<1>2. CASE Fork
  <2>1. Sort(Middle + 1, n - 1) \in Task(n) /\ Sort(0, Middle) \in Task(n)
    BY <1>0, MiddleFits, SortIsTask
  <2>2. todo' \in [Proc -> Seq(Task(n))]
    <3>1. todo' = [p \in Proc |-> IF p = "parent" THEN <<Sort(Middle + 1, n - 1)>> ELSE LeftHalf]
          \/ todo' = [todo EXCEPT !["parent"] = <<Sort(Middle + 1, n - 1)>>]
      BY <1>2 DEF Fork
    <3>2. CASE todo' = [p \in Proc |-> IF p = "parent" THEN <<Sort(Middle + 1, n - 1)>> ELSE LeftHalf]
      <4>1. <<Sort(Middle + 1, n - 1)>> \in Seq(Task(n)) /\ LeftHalf \in Seq(Task(n))
        BY <2>1, OneTask DEF LeftHalf
      <4> QED BY <3>2, <4>1
    <3>3. CASE todo' = [todo EXCEPT !["parent"] = <<Sort(Middle + 1, n - 1)>>]
      BY <2>1, <3>3, OneTask DEF BoundsInv
    <3> QED BY <3>1, <3>2, <3>3
  <2> QED BY <1>2, <2>2 DEF Fork, BoundsInv, Middle
<1>3. ASSUME NEW p \in Proc, MSort(p) PROVE BoundsInv'
  <2> DEFINE t == Head(todo[p])
  <2>1. t \in Task(n) /\ Tail(todo[p]) \in Seq(Task(n))
    BY <1>0, <1>3 DEF MSort
  <2>2. ASSUME t.right > t.left
        PROVE  <<Sort(t.left, Mid(t.left, t.right)), Sort(Mid(t.left, t.right) + 1, t.right),
                 MergeOf(t.left, Mid(t.left, t.right) + 1, t.right)>> \in Seq(Task(n))
    <3> DEFINE k == Mid(t.left, t.right)
    <3>1. t.left \in Nat /\ t.right \in Int /\ t.right <= n - 1 /\ t.right > t.left
      BY <2>1, <2>2 DEF Task
    <3>2. k \in Nat /\ t.left <= k /\ k < t.right
      BY <3>1, MidFits
    <3> HIDE DEF k, n, t
    <3>3. k + 1 \in Nat /\ k <= n - 1 /\ t.left <= k + 1 /\ k + 1 <= t.right + 1 /\ t.left < k + 1 /\ k \in Int
      BY <1>0, <3>1, <3>2
    <3>4. Sort(t.left, k) \in Task(n) /\ Sort(k + 1, t.right) \in Task(n) /\ MergeOf(t.left, k + 1, t.right) \in Task(n)
      BY <1>0, <3>1, <3>2, <3>3, SortIsTask, MergeIsTask
    <3> QED BY <3>4 DEF k
  <2>3. todo' = [todo EXCEPT ![p] =
          (IF t.right > t.left
           THEN <<Sort(t.left, Mid(t.left, t.right)), Sort(Mid(t.left, t.right) + 1, t.right),
                  MergeOf(t.left, Mid(t.left, t.right) + 1, t.right)>>
           ELSE << >>) \o Tail(todo[p])]
    BY <1>3 DEF MSort
  <2> HIDE DEF t
  <2>4. todo' \in [Proc -> Seq(Task(n))]
    BY <2>1, <2>2, <2>3 DEF BoundsInv
  <2> QED BY <1>3, <2>4 DEF MSort, BoundsInv, Middle
<1>4. ASSUME NEW p \in Proc, CallMerge(p) PROVE BoundsInv'
  <2> DEFINE t == Head(todo[p])
             m == Call(mem[p], t.left, t.mid, t.right)
  <2>1. t \in Task(n) /\ Tail(todo[p]) \in Seq(Task(n)) /\ t.call = "merge"
    BY <1>0, <1>4 DEF CallMerge
  <2>2. MergeOK(m, n)
    BY <1>0, <2>1, CallOK DEF Task
  <2>3. mem' = [mem EXCEPT ![p] = m] /\ todo' = [todo EXCEPT ![p] = Tail(@)]
    BY <1>4 DEF CallMerge
  <2> HIDE DEF t, m
  <2>4. m \in Memory(n)
    BY <2>2 DEF MergeOK
  <2>5. mem' \in [Proc -> Memory(n)] /\ (\A q \in Proc : MergeOK(mem'[q], n)) /\ todo' \in [Proc -> Seq(Task(n))]
    BY <2>1, <2>2, <2>3, <2>4 DEF BoundsInv
  <2> QED BY <1>4, <2>5 DEF CallMerge, BoundsInv, Middle
<1>5. ASSUME NEW p \in Proc, MergeStep(p) PROVE BoundsInv'
  <2>1. Busy(mem[p]) /\ mem' = [mem EXCEPT ![p] = Step(@)]
    BY <1>5 DEF MergeStep
  <2>2. MergeOK(Step(mem[p]), n)
    BY <1>0, <2>1, StepOK
  <2>3. Step(mem[p]) \in Memory(n)
    BY <2>2 DEF MergeOK
  <2>4. mem' \in [Proc -> Memory(n)] /\ (\A q \in Proc : MergeOK(mem'[q], n))
    BY <2>1, <2>2, <2>3 DEF BoundsInv
  <2> QED BY <1>5, <2>4 DEF MergeStep, BoundsInv, Middle
<1>6. CASE ChildWrites
  <2>1. [c \in 0 .. Middle |-> mem["child"].numbers[c]] \in [0 .. Middle -> Int]
    BY <1>0, Elements DEF Proc
  <2> QED BY <1>6, <2>1 DEF ChildWrites, BoundsInv, Middle
<1>7. CASE ParentReads
  <2>1. Sort(0, n - 1) \in Task(n) /\ MergeOf(0, Middle + 1, n - 1) \in Task(n)
    BY <1>0, SortIsTask, MergeIsTask
  <2>2. todo' \in [Proc -> Seq(Task(n))]
    <3>1. todo' = [todo EXCEPT !["parent"] = <<MergeOf(0, Middle + 1, n - 1)>>]
      BY <1>7 DEF ParentReads
    <3> QED BY <2>1, <3>1, OneTask DEF BoundsInv
  <2>3. CASE /\ pipe # << >> /\ pipe' = << >>
             /\ mem' = [mem EXCEPT !["parent"].numbers =
                          [c \in Cell |-> IF c \in 0 .. Middle THEN Head(pipe)[c] ELSE @[c]]]
    <3> DEFINE m == mem["parent"]
               a == [c \in Cell |-> IF c \in 0 .. Middle THEN Head(pipe)[c] ELSE m.numbers[c]]
               r == [m EXCEPT !.numbers = a]
    <3>1. Head(pipe) \in [0 .. Middle -> Int]
      BY <2>3 DEF BoundsInv
    <3>2. a \in Array(n)
      BY <1>0, <3>1, Elements DEF Array, Cell, Proc
    <3>3. m \in Memory(n) /\ ~Busy(m)
      BY <1>0, <1>7 DEF ParentReads, Idle, Proc
    <3>4. r \in Memory(n) /\ ~Busy(r)
      <4> HIDE DEF a, m
      <4> QED BY <3>2, <3>3 DEF Memory, Busy, Merging, Copying
    <3>5. mem' = [mem EXCEPT !["parent"] = r]
      BY <2>3
    <3> HIDE DEF r
    <3>6. mem' \in [Proc -> Memory(n)] /\ (\A q \in Proc : MergeOK(mem'[q], n))
      BY <1>0, <3>4, <3>5, IdleOK DEF BoundsInv
    <3>7. pipe' \in Seq([0 .. Middle -> Int])
      BY <2>3
    <3> QED BY <1>7, <2>2, <3>6, <3>7 DEF ParentReads, BoundsInv, Middle
  <2>4. CASE UNCHANGED <<mem, pipe>>
    BY <1>7, <2>2, <2>4 DEF ParentReads, BoundsInv, Middle
  <2> QED BY <1>7, <2>3, <2>4 DEF ParentReads
<1>8. CASE ParentEnds
  BY <1>8 DEF ParentEnds, BoundsInv, Middle
<1>9. CASE KillChild
  BY <1>9 DEF KillChild, BoundsInv, Middle
<1>10. CASE UNCHANGED vars
  BY <1>10 DEF vars, BoundsInv, Middle
<1> QED BY <1>1, <1>2, <1>3, <1>4, <1>5, <1>6, <1>7, <1>8, <1>9, <1>10
        DEF Next, Parent, Child, Sorts, Proc

\* merge() reads and writes elements, and at most the cell before the first, in
\* every call m_sort() and main() make, however the array is halved.
THEOREM IndicesInBoundsHolds == Spec => []IndicesInBounds
<1>1. BoundsInv => IndicesInBounds
  <2> SUFFICES ASSUME BoundsInv, NEW p \in Proc, Busy(mem[p])
               PROVE  LET m == mem[p] IN
                      IF Copying(m)
                      THEN m.right \in Cell
                      ELSE /\ m.tmp_pos \in Item
                           /\ m.left <= m.left_end => m.left \in Item
                           /\ m.mid <= m.right => m.mid \in Item
    BY DEF IndicesInBounds
  <2> DEFINE m == mem[p]
             n == array_size
  <2>1. MergeOK(m, n) /\ n \in Nat /\ Busy(m)
    BY DEF BoundsInv
  <2>2. m \in Memory(n)
    BY <2>1 DEF MergeOK
  <2>5. /\ m.left \in Int /\ m.left_end \in Int /\ m.mid \in Int /\ m.right \in Int
        /\ m.tmp_pos \in Int /\ m.num_elements \in Int /\ m.i \in Int
    BY <2>2 DEF Memory
  <2> HIDE DEF m, n
  <2>3. ASSUME Copying(m) PROVE m.right \in Cell
    <3>1. m.right \in -1 .. n - 1
      BY <2>1, <2>3, <2>5 DEF MergeOK, First, Final, Copying
    <3> QED BY <3>1 DEF Cell, n
  <2>4. ASSUME ~Copying(m)
        PROVE  /\ m.tmp_pos \in Item
               /\ m.left <= m.left_end => m.left \in Item
               /\ m.mid <= m.right => m.mid \in Item
    <3>1. Merging(m)
      BY <2>1, <2>4 DEF Busy
    <3>2. /\ m.tmp_pos \in 0 .. n - 1
          /\ m.left <= m.left_end => m.left \in 0 .. n - 1
          /\ m.mid <= m.right => m.mid \in 0 .. n - 1
      BY <2>1, <2>5, <3>1 DEF MergeOK, First, Final, Merging
    <3> QED BY <3>2 DEF Item, n
  <2> QED BY <2>3, <2>4 DEF m
<1> QED BY <1>1, BoundsInit, BoundsNext, PTL DEF Spec

-------------------------------------------------------------------------------
(* The calls that are still to return, W[a], ..., W[b]: a turn replaces    *)
(* the first by the calls it makes, which stay within its range and the    *)
(* last of which has its range, or by none; V are the calls then, from c,  *)
(* the others moved by d.                                                  *)

Apart(t, x, y) == t.right < x \/ y < t.left

\* When W[k] begins, x .. y is in order: it is now, or W[j] sorts it before.
Ready(W, a, k, numbers, x, y) ==
  \/ /\ Sorted(numbers, x, y)
     /\ \A i \in a .. k - 1 : Apart(W[i], x, y)
  \/ \E j \in a .. k - 1 :
       /\ W[j].left = x /\ W[j].right = y
       /\ \A i \in j + 1 .. k - 1 : Apart(W[i], x, y)

\* When W[k] begins, temp[] and numbers[] agree at e, where a call W[j] ended.
Agree(W, a, k, m, e) ==
  \/ /\ m.temp[e] = m.numbers[e]
     /\ \A i \in a .. k - 1 : Apart(W[i], e, e)
  \/ \E j \in a .. k - 1 :
       /\ W[j].left < e /\ W[j].right = e
       /\ \A i \in j + 1 .. k - 1 : Apart(W[i], e, e)

Within(s, t) == t.left <= s.left /\ s.right <= t.right

Moves(W, a, b, V, c, d) ==
  /\ a \in Int /\ b \in Int /\ c \in Int /\ d \in Int /\ a <= b /\ c <= a + d + 1
  /\ \A i \in a .. b : W[i].left \in Int /\ W[i].right \in Int
  /\ \A i \in a + 1 .. b : V[i + d] = W[i]
  /\ \A i \in c .. a + d : V[i].left \in Int /\ V[i].right \in Int /\ Within(V[i], W[a])
  /\ c <= a + d => V[a + d].left = W[a].left /\ V[a + d].right = W[a].right

\* Calls that were apart from x .. y are replaced by calls that are.
LEMMA ApartKept ==
  ASSUME NEW W, NEW a, NEW b, NEW V, NEW c, NEW d, Moves(W, a, b, V, c, d),
         NEW k \in a + 1 .. b + 1, NEW x \in Int, NEW y \in Int
  PROVE  /\ (\A i \in a .. k - 1 : Apart(W[i], x, y)) =>
              \A i \in c .. (k + d) - 1 : Apart(V[i], x, y)
         /\ \A j \in a .. k - 1 : (\A i \in j + 1 .. k - 1 : Apart(W[i], x, y)) =>
              \A i \in (j + d) + 1 .. (k + d) - 1 : Apart(V[i], x, y)
<1>0. a \in Int /\ b \in Int /\ c \in Int /\ d \in Int /\ k \in Int
  BY DEF Moves
<1>1. ASSUME NEW i \in Int, a + d < i, i <= (k + d) - 1
      PROVE  i - d \in a + 1 .. k - 1 /\ V[i] = W[i - d]
  <2>1. i - d \in a + 1 .. k - 1 /\ i - d \in a + 1 .. b /\ (i - d) + d = i
    BY <1>0, <1>1
  <2> QED BY <2>1 DEF Moves
<1>2. ASSUME \A i \in a .. k - 1 : Apart(W[i], x, y), NEW i \in c .. (k + d) - 1
      PROVE  Apart(V[i], x, y)
  <2>1. CASE i <= a + d
    <3>1. i \in c .. a + d /\ a \in a .. k - 1 /\ a \in a .. b
      BY <1>0, <2>1
    <3>2. Apart(W[a], x, y) /\ Within(V[i], W[a]) /\ V[i].left \in Int /\ V[i].right \in Int
      BY <1>2, <3>1 DEF Moves
    <3>3. W[a].left \in Int /\ W[a].right \in Int
      BY <3>1 DEF Moves
    <3> QED BY <3>2, <3>3 DEF Apart, Within
  <2>2. CASE a + d < i
    <3>1. i - d \in a .. k - 1 /\ V[i] = W[i - d]
      BY <1>0, <1>1, <2>2
    <3> QED BY <1>2, <3>1
  <2> QED BY <1>0, <2>1, <2>2
<1>3. ASSUME NEW j \in a .. k - 1, \A i \in j + 1 .. k - 1 : Apart(W[i], x, y),
             NEW i \in (j + d) + 1 .. (k + d) - 1
      PROVE  Apart(V[i], x, y)
  <2>1. i \in Int /\ a + d < i /\ i <= (k + d) - 1
    BY <1>0
  <2>2. i - d \in j + 1 .. k - 1 /\ V[i] = W[i - d]
    BY <1>0, <1>1, <2>1
  <2> QED BY <1>3, <2>2
<1> QED BY <1>2, <1>3

\* The call in the new list that stands for W[j].
LEMMA CallKept ==
  ASSUME NEW W, NEW a, NEW b, NEW V, NEW c, NEW d, Moves(W, a, b, V, c, d),
         NEW k \in a + 1 .. b + 1, NEW j \in a .. k - 1, j = a => c <= a + d
  PROVE  /\ j + d \in c .. (k + d) - 1
         /\ V[j + d].left = W[j].left /\ V[j + d].right = W[j].right
<1>0. a \in Int /\ b \in Int /\ c \in Int /\ d \in Int /\ c <= a + d + 1
  BY DEF Moves
<1>1. CASE j = a
  BY <1>0, <1>1 DEF Moves
<1>2. CASE j # a
  <2>1. j \in a + 1 .. b
    BY <1>0, <1>2
  <2>2. V[j + d] = W[j]
    BY <2>1 DEF Moves
  <2> QED BY <1>0, <2>1, <2>2
<1> QED BY <1>1, <1>2

\* What will be in order when a call begins will still be after the turn.
LEMMA ReadyKept ==
  ASSUME NEW W, NEW a, NEW b, NEW V, NEW c, NEW d, Moves(W, a, b, V, c, d),
         NEW k \in a + 1 .. b + 1, NEW x \in Int, NEW y \in Int, NEW f, NEW g,
         Ready(W, a, k, f, x, y),
         c = a + d + 1 => Sorted(g, W[a].left, W[a].right),
         \A e \in x .. y : e \notin W[a].left .. W[a].right => g[e] = f[e]
  PROVE  Ready(V, c, k + d, g, x, y)
<1>0. a \in Int /\ b \in Int /\ c \in Int /\ d \in Int /\ k \in Int /\ a \in a .. k - 1
      /\ c <= a + d + 1 /\ W[a].left \in Int /\ W[a].right \in Int
  BY DEF Moves
<1>1. CASE /\ Sorted(f, x, y)
           /\ \A i \in a .. k - 1 : Apart(W[i], x, y)
  <2>1. \A e \in x .. y : e \notin W[a].left .. W[a].right
    BY <1>0, <1>1 DEF Apart
  <2>2. Sorted(g, x, y)
    BY <1>1, <2>1 DEF Sorted
  <2>3. \A i \in c .. (k + d) - 1 : Apart(V[i], x, y)
    BY <1>1, ApartKept
  <2> QED BY <2>2, <2>3 DEF Ready
<1>2. ASSUME NEW j \in a .. k - 1, W[j].left = x, W[j].right = y,
             \A i \in j + 1 .. k - 1 : Apart(W[i], x, y)
      PROVE  Ready(V, c, k + d, g, x, y)
  <2>1. \A i \in (j + d) + 1 .. (k + d) - 1 : Apart(V[i], x, y)
    <3>1. \A h \in a .. k - 1 : (\A i \in h + 1 .. k - 1 : Apart(W[i], x, y)) =>
            \A i \in (h + d) + 1 .. (k + d) - 1 : Apart(V[i], x, y)
      BY ApartKept
    <3> QED BY <1>2, <3>1
  <2>2. CASE j = a /\ c = a + d + 1
    <3>1. Sorted(g, x, y)
      BY <1>2, <2>2
    <3>2. \A i \in c .. (k + d) - 1 : Apart(V[i], x, y)
      BY <2>1, <2>2
    <3> QED BY <3>1, <3>2 DEF Ready
  <2>3. CASE j = a => c <= a + d
    <3>1. /\ j + d \in c .. (k + d) - 1
          /\ V[j + d].left = x /\ V[j + d].right = y
      BY <1>2, <2>3, CallKept
    <3> QED BY <2>1, <3>1 DEF Ready
  <2> QED BY <1>0, <2>2, <2>3
<1> QED BY <1>1, <1>2 DEF Ready

\* And what will agree.
LEMMA AgreeKept ==
  ASSUME NEW W, NEW a, NEW b, NEW V, NEW c, NEW d, Moves(W, a, b, V, c, d),
         NEW k \in a + 1 .. b + 1, NEW e \in Int, NEW m, NEW r,
         Agree(W, a, k, m, e),
         c = a + d + 1 /\ W[a].left < e /\ W[a].right = e => r.temp[e] = r.numbers[e],
         e \notin W[a].left .. W[a].right => r.temp[e] = m.temp[e] /\ r.numbers[e] = m.numbers[e]
  PROVE  Agree(V, c, k + d, r, e)
<1>0. a \in Int /\ b \in Int /\ c \in Int /\ d \in Int /\ k \in Int /\ a \in a .. k - 1
      /\ c <= a + d + 1 /\ W[a].left \in Int /\ W[a].right \in Int
  BY DEF Moves
<1>1. CASE /\ m.temp[e] = m.numbers[e]
           /\ \A i \in a .. k - 1 : Apart(W[i], e, e)
  <2>1. e \notin W[a].left .. W[a].right
    BY <1>0, <1>1 DEF Apart
  <2>2. r.temp[e] = r.numbers[e]
    BY <1>1, <2>1
  <2>3. \A i \in c .. (k + d) - 1 : Apart(V[i], e, e)
    BY <1>1, ApartKept
  <2> QED BY <2>2, <2>3 DEF Agree
<1>2. ASSUME NEW j \in a .. k - 1, W[j].left < e, W[j].right = e,
             \A i \in j + 1 .. k - 1 : Apart(W[i], e, e)
      PROVE  Agree(V, c, k + d, r, e)
  <2>1. \A i \in (j + d) + 1 .. (k + d) - 1 : Apart(V[i], e, e)
    <3>1. \A h \in a .. k - 1 : (\A i \in h + 1 .. k - 1 : Apart(W[i], e, e)) =>
            \A i \in (h + d) + 1 .. (k + d) - 1 : Apart(V[i], e, e)
      BY ApartKept
    <3> QED BY <1>2, <3>1
  <2>2. CASE j = a /\ c = a + d + 1
    <3>1. r.temp[e] = r.numbers[e]
      BY <1>2, <2>2
    <3>2. \A i \in c .. (k + d) - 1 : Apart(V[i], e, e)
      BY <2>1, <2>2
    <3> QED BY <3>1, <3>2 DEF Agree
  <2>3. CASE j = a => c <= a + d
    <3>1. /\ j + d \in c .. (k + d) - 1
          /\ V[j + d].left = W[j].left /\ V[j + d].right = W[j].right
      BY <2>3, CallKept
    <3>2. V[j + d].left < e /\ V[j + d].right = e
      BY <1>2, <3>1
    <3> QED BY <2>1, <3>1, <3>2 DEF Agree
  <2> QED BY <1>0, <2>2, <2>3
<1> QED BY <1>1, <1>2 DEF Agree

-------------------------------------------------------------------------------
(* What is true of the calls W[a], ..., W[b] of a process whose elements   *)
(* are lo .. hi. The call of merge() that runs has the number 0.           *)

InRange(W, a, b, n, lo, hi) ==
  \A k \in a .. b : W[k] \in Task(n) /\ lo <= W[k].left /\ W[k].right <= hi

\* A call with a merge() that writes numbers[left - 1].
Strays(t, lo) == (t.call = "merge" \/ t.left < t.right) /\ lo < t.left

Agrees(W, a, b, m, lo) ==
  \A k \in a .. b : Strays(W[k], lo) => Agree(W, a, k, m, W[k].left - 1)

HalvesReady(W, a, k, numbers) ==
  /\ Ready(W, a, k, numbers, W[k].left, W[k].mid - 1)
  /\ Ready(W, a, k, numbers, W[k].mid, W[k].right)

AllReady(W, a, b, numbers, lo, hi) ==
  /\ \A k \in a .. b : k # 0 /\ W[k].call = "merge" => HalvesReady(W, a, k, numbers)
  /\ Ready(W, a, b + 1, numbers, lo, hi)

\* The three invariants of the calls of a process are kept, if the new calls have them.
LEMMA RangeKept ==
  ASSUME NEW W, NEW a, NEW b, NEW V, NEW c, NEW d, Moves(W, a, b, V, c, d),
         NEW n \in Nat, NEW lo \in Int, NEW hi \in Int, InRange(W, a, b, n, lo, hi),
         \A i \in c .. a + d : V[i] \in Task(n)
  PROVE  InRange(V, c, b + d, n, lo, hi)
<1>0. a \in Int /\ b \in Int /\ c \in Int /\ d \in Int /\ a \in a .. b
  BY DEF Moves
<1> SUFFICES ASSUME NEW i \in c .. b + d
             PROVE  V[i] \in Task(n) /\ lo <= V[i].left /\ V[i].right <= hi
  BY DEF InRange
<1>1. CASE i <= a + d
  <2>1. i \in c .. a + d
    BY <1>0, <1>1
  <2>2. Within(V[i], W[a]) /\ V[i].left \in Int /\ V[i].right \in Int /\ W[a].left \in Int /\ W[a].right \in Int
    BY <1>0, <2>1 DEF Moves
  <2>3. lo <= W[a].left /\ W[a].right <= hi
    BY <1>0 DEF InRange
  <2> QED BY <2>1, <2>2, <2>3 DEF Within
<1>2. CASE a + d < i
  <2>1. i - d \in a + 1 .. b /\ i - d \in a .. b /\ (i - d) + d = i
    BY <1>0, <1>2
  <2>2. V[i] = W[i - d]
    BY <2>1 DEF Moves
  <2> QED BY <2>1, <2>2 DEF InRange
<1> QED BY <1>0, <1>1, <1>2

LEMMA AgreesKept ==
  ASSUME NEW W, NEW a, NEW b, NEW V, NEW c, NEW d, Moves(W, a, b, V, c, d),
         NEW n \in Nat, NEW lo \in Int, NEW hi \in Int, InRange(W, a, b, n, lo, hi),
         NEW m, NEW r, Agrees(W, a, b, m, lo),
         \A e \in lo .. hi : e \notin W[a].left .. W[a].right =>
           r.temp[e] = m.temp[e] /\ r.numbers[e] = m.numbers[e],
         c = a + d + 1 => \A e \in lo .. hi : W[a].left < e /\ W[a].right = e => r.temp[e] = r.numbers[e],
         \A i \in c .. a + d : Strays(V[i], lo) => Agree(V, c, i, r, V[i].left - 1)
  PROVE  Agrees(V, c, b + d, r, lo)
<1>0. a \in Int /\ b \in Int /\ c \in Int /\ d \in Int /\ a \in a .. b
  BY DEF Moves
<1> SUFFICES ASSUME NEW i \in c .. b + d, Strays(V[i], lo)
             PROVE  Agree(V, c, i, r, V[i].left - 1)
  BY DEF Agrees
<1>1. CASE i <= a + d
  BY <1>0, <1>1
<1>2. CASE a + d < i
  <2> DEFINE k == i - d
             e == W[k].left - 1
  <2>1. k \in a + 1 .. b + 1 /\ k \in a + 1 .. b /\ k \in a .. b /\ k + d = i
    BY <1>0, <1>2
  <2>2. V[i] = W[k]
    BY <2>1 DEF Moves
  <2>3. W[k] \in Task(n) /\ W[k].right <= hi
    BY <2>1 DEF InRange
  <2>4. e \in Int /\ e \in lo .. hi
    BY <2>2, <2>3 DEF Strays, Task
  <2>5. Agree(W, a, k, m, e)
    BY <2>1, <2>2 DEF Agrees
  <2> HIDE DEF k, e
  <2>6. Agree(V, c, k + d, r, e)
    BY <2>1, <2>4, <2>5, AgreeKept
  <2> QED BY <2>1, <2>2, <2>6 DEF e
<1> QED BY <1>0, <1>1, <1>2

LEMMA AllReadyKept ==
  ASSUME NEW W, NEW a, NEW b, NEW V, NEW c, NEW d, Moves(W, a, b, V, c, d), 0 <= a,
         NEW n \in Nat, NEW lo \in Int, NEW hi \in Int, InRange(W, a, b, n, lo, hi),
         NEW f, NEW g, AllReady(W, a, b, f, lo, hi),
         \A e \in lo .. hi : e \notin W[a].left .. W[a].right => g[e] = f[e],
         c = a + d + 1 => Sorted(g, W[a].left, W[a].right),
         \A i \in c .. a + d : i # 0 /\ V[i].call = "merge" => HalvesReady(V, c, i, g)
  PROVE  AllReady(V, c, b + d, g, lo, hi)
<1>0. a \in Int /\ b \in Int /\ c \in Int /\ d \in Int /\ a \in a .. b /\ a <= b
  BY DEF Moves
<1>1. ASSUME NEW x \in Int, NEW y \in Int, lo <= x, y <= hi, NEW k \in a + 1 .. b + 1, Ready(W, a, k, f, x, y)
      PROVE  Ready(V, c, k + d, g, x, y)
  <2>1. \A e \in x .. y : e \notin W[a].left .. W[a].right => g[e] = f[e]
    <3>1. \A e \in x .. y : e \in lo .. hi
      BY <1>1
    <3> QED BY <3>1
  <2> QED BY <1>1, <2>1, ReadyKept
<1>2. Ready(V, c, (b + d) + 1, g, lo, hi)
  <2>1. b + 1 \in a + 1 .. b + 1 /\ (b + 1) + d = (b + d) + 1
    BY <1>0
  <2>2. Ready(W, a, b + 1, f, lo, hi)
    BY DEF AllReady
  <2>3. Ready(V, c, (b + 1) + d, g, lo, hi)
    BY <1>1, <2>1, <2>2
  <2> QED BY <2>1, <2>3
<1>3. ASSUME NEW i \in c .. b + d, i # 0, V[i].call = "merge"
      PROVE  HalvesReady(V, c, i, g)
  <2>1. CASE i <= a + d
    BY <1>0, <1>3, <2>1
  <2>2. CASE a + d < i
    <3> DEFINE k == i - d
    <3>1. k \in a + 1 .. b + 1 /\ k \in a + 1 .. b /\ k \in a .. b /\ k + d = i /\ k # 0
      BY <1>0, <2>2
    <3>2. V[i] = W[k]
      BY <3>1 DEF Moves
    <3>3. /\ W[k].left \in Int /\ W[k].mid \in Int /\ W[k].mid - 1 \in Int /\ W[k].right \in Int
          /\ lo <= W[k].left /\ W[k].right <= hi /\ lo <= W[k].mid /\ W[k].mid - 1 <= hi
      BY <1>3, <3>1, <3>2 DEF InRange, Task
    <3>4. HalvesReady(W, a, k, f)
      BY <1>3, <3>1, <3>2 DEF AllReady
    <3> HIDE DEF k
    <3>5. Ready(W, a, k, f, W[k].left, W[k].mid - 1) /\ Ready(W, a, k, f, W[k].mid, W[k].right)
      BY <3>4 DEF HalvesReady
    <3>6. Ready(V, c, k + d, g, W[k].left, W[k].mid - 1) /\ Ready(V, c, k + d, g, W[k].mid, W[k].right)
      BY <1>1, <3>1, <3>3, <3>5
    <3> QED BY <3>1, <3>2, <3>6 DEF HalvesReady
  <2> QED BY <1>0, <2>1, <2>2
<1> QED BY <1>2, <1>3 DEF AllReady

-------------------------------------------------------------------------------
(* The calls of a process, and what its turns make of them.                *)

Begin(m) == IF Busy(m) THEN 0 ELSE 1

Work(m, T) ==
  [k \in Begin(m) .. Len(T) |-> IF k = 0 THEN MergeOf(First(m), m.left_end + 1, Final(m)) ELSE T[k]]

Calls(m, T, n, lo, hi) ==
  /\ MergeOK(m, n) /\ Copied(m)
  /\ T \in Seq(Task(n))
  /\ lo \in Nat /\ hi \in Int /\ hi <= n - 1
  /\ InRange(Work(m, T), Begin(m), Len(T), n, lo, hi)
  /\ Agrees(Work(m, T), Begin(m), Len(T), m, lo)

InOrder(m, T, lo, hi) ==
  /\ MergeSorted(m)
  /\ AllReady(Work(m, T), Begin(m), Len(T), m.numbers, lo, hi)

\* The stack of calls as a sequence.
LEMMA Prepend3 ==
  ASSUME NEW S, NEW T \in Seq(S), T # << >>, NEW x \in S, NEW y \in S, NEW z \in S,
         NEW V, V = <<x, y, z>> \o Tail(T)
  PROVE  /\ V \in Seq(S) /\ Len(V) = Len(T) + 2
         /\ V[1] = x /\ V[2] = y /\ V[3] = z
         /\ \A k \in 2 .. Len(T) : V[k + 2] = T[k]
<1>1. Tail(T) \in Seq(S) /\ Len(Tail(T)) = Len(T) - 1 /\ Len(T) \in Nat
  OBVIOUS
<1>2. \A k \in 1 .. Len(T) - 1 : Tail(T)[k] = T[k + 1]
  OBVIOUS
<1>3. <<x, y, z>> \in Seq(S) /\ Len(<<x, y, z>>) = 3
  OBVIOUS
<1>4. V \in Seq(S) /\ Len(V) = Len(T) + 2
  BY <1>1, <1>3
<1>5. ASSUME NEW k \in 2 .. Len(T) PROVE V[k + 2] = T[k]
  <2>1. k + 2 \in 1 .. Len(V) /\ (k + 2) - 3 = k - 1 /\ k - 1 \in 1 .. Len(T) - 1 /\ (k - 1) + 1 = k
    BY <1>1, <1>4
  <2>2. V[k + 2] = Tail(T)[k - 1]
    BY <1>1, <1>3, <2>1
  <2> QED BY <1>2, <2>1, <2>2
<1>6. V[1] = x /\ V[2] = y /\ V[3] = z
  BY <1>1, <1>3
<1> QED BY <1>4, <1>5, <1>6

LEMMA Drop1 ==
  ASSUME NEW S, NEW T \in Seq(S), T # << >>
  PROVE  /\ Tail(T) \in Seq(S) /\ Len(Tail(T)) = Len(T) - 1 /\ Len(T) \in Nat \ {0}
         /\ \A k \in 2 .. Len(T) : Tail(T)[k - 1] = T[k]
         /\ Head(T) = T[1] /\ Head(T) \in S
<1>1. Tail(T) \in Seq(S) /\ Len(Tail(T)) = Len(T) - 1 /\ Len(T) \in Nat \ {0} /\ Head(T) = T[1] /\ Head(T) \in S
  OBVIOUS
<1>2. ASSUME NEW k \in 2 .. Len(T) PROVE Tail(T)[k - 1] = T[k]
  <2>1. k - 1 \in 1 .. Len(T) - 1 /\ (k - 1) + 1 = k
    BY <1>1
  <2>2. \A i \in 1 .. Len(T) - 1 : Tail(T)[i] = T[i + 1]
    OBVIOUS
  <2> QED BY <2>1, <2>2
<1> QED BY <1>1, <1>2

\* The calls as they are numbered.
LEMMA WorkAt ==
  ASSUME NEW n \in Nat, NEW T \in Seq(Task(n)), NEW m
  PROVE  /\ ~Busy(m) => Begin(m) = 1
         /\ Busy(m) => Begin(m) = 0 /\ Work(m, T)[0] = MergeOf(First(m), m.left_end + 1, Final(m))
         /\ \A k \in 1 .. Len(T) : Work(m, T)[k] = T[k] /\ T[k] \in Task(n)
<1>1. Len(T) \in Nat /\ \A k \in 1 .. Len(T) : T[k] \in Task(n)
  OBVIOUS
<1>2. \A k \in 1 .. Len(T) : Work(m, T)[k] = T[k]
  <2>1. \A k \in 1 .. Len(T) : k \in Begin(m) .. Len(T) /\ k # 0
    BY <1>1 DEF Begin
  <2> QED BY <2>1 DEF Work
<1>3. Busy(m) => 0 \in Begin(m) .. Len(T)
  BY <1>1 DEF Begin
<1> QED BY <1>1, <1>2, <1>3 DEF Work, Begin

LEMMA TaskBounds ==
  ASSUME NEW n \in Nat, NEW t \in Task(n)
  PROVE  /\ t.left \in Nat /\ t.left \in Int /\ t.right \in Int /\ t.mid \in Int
         /\ t.left <= t.right + 1 /\ t.right <= n - 1
         /\ t.call = "merge" => t.left < t.mid /\ t.mid <= t.right + 1
BY DEF Task

\* m_sort() of at most one element.
LEMMA SortNothing ==
  ASSUME NEW n \in Nat, NEW lo, NEW hi, NEW m, NEW T, Calls(m, T, n, lo, hi), ~Busy(m), T # << >>,
         ~(Head(T).right > Head(T).left)
  PROVE  /\ Calls(m, Tail(T), n, lo, hi)
         /\ InOrder(m, T, lo, hi) => InOrder(m, Tail(T), lo, hi)
<1> DEFINE V == Work(m, Tail(T))
           W == Work(m, T)
           b == Len(T)
<1>0. /\ T \in Seq(Task(n)) /\ Begin(m) = 1 /\ lo \in Int /\ lo \in Nat /\ hi \in Int /\ hi <= n - 1
      /\ InRange(W, 1, b, n, lo, hi) /\ Agrees(W, 1, b, m, lo)
  BY DEF Calls, Begin
<1>1. /\ Tail(T) \in Seq(Task(n)) /\ Len(Tail(T)) = b - 1 /\ b \in Nat \ {0}
      /\ \A k \in 2 .. b : Tail(T)[k - 1] = T[k]
      /\ Head(T) = T[1] /\ Head(T) \in Task(n)
  BY <1>0, Drop1
<1>2. /\ \A k \in 1 .. b : W[k] = T[k] /\ T[k] \in Task(n)
      /\ \A k \in 1 .. b - 1 : V[k] = Tail(T)[k]
  <2>1. \A k \in 1 .. b : W[k] = T[k] /\ T[k] \in Task(n)
    BY <1>0, WorkAt
  <2>2. \A k \in 1 .. Len(Tail(T)) : V[k] = Tail(T)[k]
    <3> DEFINE U == Tail(T)
    <3>1. U \in Seq(Task(n))
      BY <1>1
    <3> HIDE DEF U
    <3>2. \A k \in 1 .. Len(U) : Work(m, U)[k] = U[k]
      BY <3>1, WorkAt
    <3> QED BY <3>2 DEF U
  <2> QED BY <1>1, <2>1, <2>2
<1>3. W[1].left \in Int /\ W[1].right \in Int /\ ~(W[1].right > W[1].left)
  BY <1>1, <1>2, TaskBounds
<1> HIDE DEF V, W, b
<1>4. Moves(W, 1, b, V, 1, -1)
  <2>1. ASSUME NEW i \in 1 + 1 .. b PROVE V[i + (-1)] = W[i]
    <3>1. i \in 2 .. b /\ i \in 1 .. b /\ i + (-1) = i - 1 /\ i - 1 \in 1 .. b - 1
      BY <1>1
    <3> QED BY <1>1, <1>2, <3>1
  <2>2. \A i \in 1 .. 1 + (-1) : FALSE
    OBVIOUS
  <2>3. \A i \in 1 .. b : W[i].left \in Int /\ W[i].right \in Int
    BY <1>2, TaskBounds
  <2> QED BY <1>1, <2>1, <2>2, <2>3 DEF Moves
<1>5. b + (-1) = b - 1 /\ 1 + (-1) + 1 = 1 /\ \A i \in 1 .. 1 + (-1) : FALSE
  BY <1>1
<1>6. InRange(V, 1, b - 1, n, lo, hi)
  BY <1>0, <1>4, <1>5, RangeKept
<1>7. Agrees(V, 1, b - 1, m, lo)
  <2>1. \A e \in lo .. hi : ~(W[1].left < e /\ W[1].right = e)
    BY <1>0, <1>3
  <2> QED BY <1>0, <1>4, <1>5, <2>1, AgreesKept
<1>8. ASSUME AllReady(W, 1, b, m.numbers, lo, hi) PROVE AllReady(V, 1, b - 1, m.numbers, lo, hi)
  <2>1. Sorted(m.numbers, W[1].left, W[1].right)
    <3>1. \A x, y \in W[1].left .. W[1].right : x = y
      BY <1>3
    <3>2. ASSUME NEW x \in W[1].left .. W[1].right PROVE m.numbers[x] <= m.numbers[x]
      <4>0. 1 \in 1 .. b /\ W[1] \in Task(n)
        BY <1>1, <1>2
      <4>1. x \in -1 .. n - 1
        BY <1>3, <4>0, TaskBounds
      <4> QED BY <4>1, Elements DEF Calls, MergeOK
    <3> QED BY <3>1, <3>2 DEF Sorted
  <2>2. \A i \in 1 .. 1 + (-1) : i # 0 /\ V[i].call = "merge" => HalvesReady(V, 1, i, m.numbers)
    BY <1>5
  <2>3. \A e \in lo .. hi : e \notin W[1].left .. W[1].right => m.numbers[e] = m.numbers[e]
    OBVIOUS
  <2>4. AllReady(V, 1, b + (-1), m.numbers, lo, hi)
    <3> DEFINE c == 1
               d == -1
               f == m.numbers
    <3>1. 0 <= c /\ Moves(W, c, b, V, c, d) /\ InRange(W, c, b, n, lo, hi) /\ AllReady(W, c, b, f, lo, hi)
      BY <1>0, <1>4, <1>8
    <3>2. \A e \in lo .. hi : e \notin W[c].left .. W[c].right => f[e] = f[e]
      OBVIOUS
    <3>3. Sorted(f, W[c].left, W[c].right)
      BY <2>1
    <3>4. \A i \in c .. c + d : i # 0 /\ V[i].call = "merge" => HalvesReady(V, c, i, f)
      BY <2>2
    <3> HIDE DEF c, d, f
    <3>5. AllReady(V, c, b + d, f, lo, hi)
      BY <1>0, <3>1, <3>2, <3>3, <3>4, AllReadyKept
    <3> QED BY <3>5 DEF c, d, f
  <2> QED BY <1>5, <2>4
<1> QED BY <1>0, <1>1, <1>6, <1>7, <1>8 DEF Calls, InOrder, V, W, b

\* The left half is not the smaller one.
LEMMA MidBalanced ==
  ASSUME NEW left \in Nat, NEW right \in Nat, left < right, Mid(left, right) + 1 < right
  PROVE  left < Mid(left, right)
BY DEF Mid

Halves(t) ==
  <<Sort(t.left, Mid(t.left, t.right)), Sort(Mid(t.left, t.right) + 1, t.right),
    MergeOf(t.left, Mid(t.left, t.right) + 1, t.right)>>

\* m_sort() of more than one element, as two halves and their merge().
LEMMA SortHalves ==
  ASSUME NEW n \in Nat, NEW lo, NEW hi, NEW m, NEW T, Calls(m, T, n, lo, hi), ~Busy(m), T # << >>,
         Head(T).right > Head(T).left
  PROVE  /\ Calls(m, Halves(Head(T)) \o Tail(T), n, lo, hi)
         /\ InOrder(m, T, lo, hi) => InOrder(m, Halves(Head(T)) \o Tail(T), lo, hi)
<1> DEFINE t == Head(T)
           U == Halves(t) \o Tail(T)
<1>a. /\ t = Head(T) /\ t.right > t.left
      /\ U = <<Sort(t.left, Mid(t.left, t.right)), Sort(Mid(t.left, t.right) + 1, t.right),
               MergeOf(t.left, Mid(t.left, t.right) + 1, t.right)>> \o Tail(T)
  BY DEF Halves
<1> HIDE DEF t, U
<1> DEFINE V == Work(m, U)
           W == Work(m, T)
           b == Len(T)
           k == Mid(t.left, t.right)
           x == Sort(t.left, k)
           y == Sort(k + 1, t.right)
           z == MergeOf(t.left, k + 1, t.right)
<1>0. /\ T \in Seq(Task(n)) /\ Begin(m) = 1 /\ lo \in Int /\ lo \in Nat /\ hi \in Int /\ hi <= n - 1
      /\ InRange(W, 1, b, n, lo, hi) /\ Agrees(W, 1, b, m, lo)
  BY DEF Calls, Begin
<1>1. b \in Nat \ {0} /\ t = T[1] /\ t \in Task(n)
  BY <1>0, <1>a, Drop1
<1>2. /\ t.left \in Nat /\ t.left \in Int /\ t.right \in Int /\ t.right \in Nat /\ t.right <= n - 1 /\ t.left < t.right
  BY <1>1, <1>a, TaskBounds
<1>3. k \in Nat /\ t.left <= k /\ k < t.right /\ (k + 1 < t.right => t.left < k)
  BY <1>2, MidFits, MidBalanced
<1>4. x \in Task(n) /\ y \in Task(n) /\ z \in Task(n)
  <2> HIDE DEF k
  <2>1. /\ k \in Int /\ k + 1 \in Nat /\ k <= n - 1 /\ t.left <= k + 1 /\ k + 1 <= t.right + 1 /\ t.left < k + 1
    BY <1>2, <1>3
  <2> QED BY <1>2, <1>3, <2>1, SortIsTask, MergeIsTask
<1>5. /\ x.left = t.left /\ x.right = k /\ x.call = "m_sort"
      /\ y.left = k + 1 /\ y.right = t.right /\ y.call = "m_sort"
      /\ z.left = t.left /\ z.right = t.right /\ z.call = "merge" /\ z.mid = k + 1
  BY DEF Sort, MergeOf
<1> HIDE DEF k, x, y, z
<1>6. U = <<x, y, z>> \o Tail(T)
  BY <1>a DEF x, y, z, k
<1>7. /\ U \in Seq(Task(n)) /\ Len(U) = b + 2 /\ U[1] = x /\ U[2] = y /\ U[3] = z
      /\ \A i \in 2 .. b : U[i + 2] = T[i]
  BY <1>0, <1>4, <1>6, Prepend3
<1>8. /\ \A i \in 1 .. b : W[i] = T[i] /\ T[i] \in Task(n)
      /\ \A i \in 1 .. b + 2 : V[i] = U[i]
  <2>1. \A i \in 1 .. b : W[i] = T[i] /\ T[i] \in Task(n)
    BY <1>0, WorkAt
  <2>2. \A i \in 1 .. Len(U) : V[i] = U[i]
    <3>1. U \in Seq(Task(n))
      BY <1>7
    <3>2. n \in Nat
      OBVIOUS
    <3>3. \A i \in 1 .. Len(U) : Work(m, U)[i] = U[i]
      BY ONLY <3>1, <3>2, WorkAt
    <3> QED BY ONLY <3>3 DEF V
  <2> QED BY <1>7, <2>1, <2>2
<1> HIDE DEF V, W, b
<1>9. V[1] = x /\ V[2] = y /\ V[3] = z /\ W[1] = t /\ 1 \in 1 .. b
  <2>1. 1 \in 1 .. b /\ 1 \in 1 .. b + 2 /\ 2 \in 1 .. b + 2 /\ 3 \in 1 .. b + 2
    BY <1>1
  <2> QED BY <1>1, <1>7, <1>8, <2>1
<1>10. \A i \in 1 .. 1 + 2 : i = 1 \/ i = 2 \/ i = 3
  OBVIOUS
<1>11. Moves(W, 1, b, V, 1, 2)
  <2>1. ASSUME NEW i \in 1 + 1 .. b PROVE V[i + 2] = W[i]
    <3>1. i \in 2 .. b /\ i \in 1 .. b /\ i + 2 \in 1 .. b + 2
      BY <1>1
    <3> QED BY <1>7, <1>8, <3>1
  <2>2. ASSUME NEW i \in 1 .. 1 + 2 PROVE V[i].left \in Int /\ V[i].right \in Int /\ Within(V[i], W[1])
    BY SMTT(20), <1>2, <1>3, <1>5, <1>9, <1>10 DEF Within
  <2>3. \A i \in 1 .. b : W[i].left \in Int /\ W[i].right \in Int
    BY <1>8, TaskBounds
  <2>4. V[1 + 2].left = W[1].left /\ V[1 + 2].right = W[1].right
    BY <1>5, <1>9
  <2> QED BY <1>1, <2>1, <2>2, <2>3, <2>4 DEF Moves
<1>12. InRange(V, 1, b + 2, n, lo, hi)
  <2>1. \A i \in 1 .. 1 + 2 : V[i] \in Task(n)
    BY <1>4, <1>9, <1>10
  <2> QED BY <1>0, <1>11, <2>1, RangeKept
<1>13. ASSUME lo < t.left PROVE m.temp[t.left - 1] = m.numbers[t.left - 1]
  <2>1. Agree(W, 1, 1, m, t.left - 1)
    BY <1>0, <1>2, <1>9, <1>13 DEF Agrees, Strays
  <2>2. \A i \in 1 .. 1 - 1 : FALSE
    OBVIOUS
  <2> QED BY <2>1, <2>2 DEF Agree
<1>14. Agrees(V, 1, b + 2, m, lo)
  <2>1. ASSUME Strays(x, lo) PROVE Agree(V, 1, 1, m, x.left - 1)
    <3>1. m.temp[x.left - 1] = m.numbers[x.left - 1]
      BY <1>5, <1>13, <2>1 DEF Strays
    <3>2. \A i \in 1 .. 1 - 1 : FALSE
      OBVIOUS
    <3> QED BY <3>1, <3>2 DEF Agree
  <2>2. ASSUME Strays(y, lo) PROVE Agree(V, 1, 2, m, y.left - 1)
    <3>1. 1 \in 1 .. 2 - 1 /\ V[1].left < y.left - 1 /\ V[1].right = y.left - 1
      BY <1>2, <1>3, <1>5, <1>9, <2>2 DEF Strays
    <3>2. \A i \in 1 + 1 .. 2 - 1 : FALSE
      OBVIOUS
    <3> QED BY <3>1, <3>2 DEF Agree
  <2>3. ASSUME Strays(z, lo) PROVE Agree(V, 1, 3, m, z.left - 1)
    <3>1. m.temp[z.left - 1] = m.numbers[z.left - 1]
      BY <1>5, <1>13, <2>3 DEF Strays
    <3>2. Apart(V[1], z.left - 1, z.left - 1) /\ Apart(V[2], z.left - 1, z.left - 1)
      BY <1>2, <1>3, <1>5, <1>9 DEF Apart
    <3>3. \A i \in 1 .. 3 - 1 : i = 1 \/ i = 2
      OBVIOUS
    <3> QED BY <3>1, <3>2, <3>3 DEF Agree
  <2>4. \A i \in 1 .. 1 + 2 : Strays(V[i], lo) => Agree(V, 1, i, m, V[i].left - 1)
    BY <1>9, <1>10, <2>1, <2>2, <2>3
  <2> DEFINE c == 1
             d == 2
  <2>5. Moves(W, c, b, V, c, d) /\ InRange(W, c, b, n, lo, hi) /\ Agrees(W, c, b, m, lo) /\ c # c + d + 1
    BY <1>0, <1>11
  <2>6. \A i \in c .. c + d : Strays(V[i], lo) => Agree(V, c, i, m, V[i].left - 1)
    BY <2>4
  <2> HIDE DEF c, d
  <2>7. Agrees(V, c, b + d, m, lo)
    BY <1>0, <2>5, <2>6, AgreesKept
  <2> QED BY <2>7 DEF c, d
<1>15. ASSUME AllReady(W, 1, b, m.numbers, lo, hi) PROVE AllReady(V, 1, b + 2, m.numbers, lo, hi)
  <2>1. Ready(V, 1, 3, m.numbers, z.left, z.mid - 1)
    <3>1. 1 \in 1 .. 3 - 1 /\ V[1].left = z.left /\ V[1].right = z.mid - 1
      BY <1>2, <1>3, <1>5, <1>9
    <3>2. \A i \in 1 + 1 .. 3 - 1 : i = 2
      OBVIOUS
    <3>3. Apart(V[2], z.left, z.mid - 1)
      BY <1>2, <1>3, <1>5, <1>9 DEF Apart
    <3> QED BY <3>1, <3>2, <3>3 DEF Ready
  <2>2. Ready(V, 1, 3, m.numbers, z.mid, z.right)
    <3>1. 2 \in 1 .. 3 - 1 /\ V[2].left = z.mid /\ V[2].right = z.right
      BY <1>5, <1>9
    <3>2. \A i \in 2 + 1 .. 3 - 1 : FALSE
      OBVIOUS
    <3> QED BY <3>1, <3>2 DEF Ready
  <2>3. \A i \in 1 .. 1 + 2 : i # 0 /\ V[i].call = "merge" => HalvesReady(V, 1, i, m.numbers)
    BY <1>5, <1>9, <1>10, <2>1, <2>2 DEF HalvesReady
  <2> DEFINE c == 1
             d == 2
             f == m.numbers
  <2>4. /\ 0 <= c /\ Moves(W, c, b, V, c, d) /\ InRange(W, c, b, n, lo, hi) /\ AllReady(W, c, b, f, lo, hi)
        /\ c # c + d + 1
    BY <1>0, <1>11, <1>15
  <2>5. \A e \in lo .. hi : e \notin W[c].left .. W[c].right => f[e] = f[e]
    OBVIOUS
  <2>6. \A i \in c .. c + d : i # 0 /\ V[i].call = "merge" => HalvesReady(V, c, i, f)
    BY <2>3
  <2> HIDE DEF c, d, f
  <2>7. AllReady(V, c, b + d, f, lo, hi)
    BY <1>0, <2>4, <2>5, <2>6, AllReadyKept
  <2> QED BY <2>7 DEF c, d, f
<1> QED BY <1>0, <1>7, <1>12, <1>14, <1>15 DEF Calls, InOrder, V, W, b, U, t

\* merge() begins.
LEMMA MergeBegins ==
  ASSUME NEW n \in Nat, NEW lo, NEW hi, NEW m, NEW T, Calls(m, T, n, lo, hi), ~Busy(m), T # << >>,
         Head(T).call = "merge", NEW r, r = Call(m, Head(T).left, Head(T).mid, Head(T).right)
  PROVE  /\ Calls(r, Tail(T), n, lo, hi)
         /\ InOrder(m, T, lo, hi) => InOrder(r, Tail(T), lo, hi)
<1> DEFINE t == Head(T)
           U == Tail(T)
<1>b. t = Head(T) /\ t.call = "merge" /\ r = Call(m, t.left, t.mid, t.right) /\ U = Tail(T)
  OBVIOUS
<1> HIDE DEF t, U
<1> DEFINE V == Work(r, U)
           W == Work(m, T)
           b == Len(T)
<1>0. /\ T \in Seq(Task(n)) /\ Begin(m) = 1 /\ lo \in Int /\ lo \in Nat /\ hi \in Int /\ hi <= n - 1
      /\ InRange(W, 1, b, n, lo, hi) /\ Agrees(W, 1, b, m, lo) /\ m \in Memory(n)
  BY DEF Calls, Begin, MergeOK
<1>1. /\ U \in Seq(Task(n)) /\ Len(U) = b - 1 /\ b \in Nat \ {0}
      /\ \A k \in 2 .. b : U[k - 1] = T[k]
      /\ t = T[1] /\ t \in Task(n)
  BY <1>0, <1>b, Drop1
<1>2. /\ t.left \in Nat /\ t.left \in Int /\ t.right \in Int /\ t.mid \in Nat /\ t.mid \in Int
      /\ t.left < t.mid /\ t.mid <= t.right + 1 /\ t.right <= n - 1
  BY <1>1, <1>b DEF Task
<1>3. /\ MergeOK(r, n) /\ First(r) = t.left /\ Final(r) = t.right /\ Merging(r) /\ Busy(r)
      /\ r.left = t.left /\ r.mid = t.mid /\ r.left_end = t.mid - 1 /\ r.right = t.right /\ r.tmp_pos = t.left
      /\ r.numbers = m.numbers /\ r.temp = m.temp
  BY SMTT(20), <1>0, <1>2, <1>b, CallOK DEF Busy
<1>4. MergeOf(t.left, t.mid, t.right) \in Task(n)
  BY <1>2, MergeIsTask
<1>5. /\ \A k \in 1 .. b : W[k] = T[k] /\ T[k] \in Task(n)
      /\ \A k \in 1 .. b - 1 : V[k] = U[k]
      /\ Begin(r) = 0 /\ V[0] = MergeOf(t.left, t.mid, t.right)
  <2>1. \A k \in 1 .. b : W[k] = T[k] /\ T[k] \in Task(n)
    BY <1>0, WorkAt
  <2>2. U \in Seq(Task(n)) /\ n \in Nat
    BY <1>1
  <2>3. /\ \A k \in 1 .. Len(U) : V[k] = U[k]
        /\ Busy(r) => Begin(r) = 0 /\ V[0] = MergeOf(First(r), r.left_end + 1, Final(r))
    BY ONLY <2>2, WorkAt DEF V
  <2>4. r.left_end + 1 = t.mid
    BY <1>2, <1>3
  <2> QED BY <1>1, <1>3, <2>1, <2>3, <2>4
<1> HIDE DEF V, W, b
<1>6. W[1] = t /\ V[0].left = t.left /\ V[0].right = t.right /\ V[0].call = "merge" /\ 1 \in 1 .. b
  BY <1>1, <1>5 DEF MergeOf
<1> DEFINE a == 1
           c == 0
           d == -1
<1>7. /\ a = 1 /\ c = 0 /\ d \in Int /\ c # a + d + 1 /\ a + d = 0 /\ b + d = b - 1 /\ 0 <= a
      /\ \A i \in c .. a + d : i = 0
  BY <1>1
<1>a. c # a + d + 1 /\ 0 <= a /\ n \in Nat /\ lo \in Int /\ hi \in Int
  BY <1>0
<1>8. Moves(W, a, b, V, c, d)
  <2>1. ASSUME NEW i \in a + 1 .. b PROVE V[i + d] = W[i]
    <3>1. i \in 2 .. b /\ i \in 1 .. b /\ i + d = i - 1 /\ i - 1 \in 1 .. b - 1
      BY <1>1
    <3> QED BY <1>1, <1>5, <3>1
  <2>2. ASSUME NEW i \in c .. a + d PROVE V[i].left \in Int /\ V[i].right \in Int /\ Within(V[i], W[a])
    BY <1>2, <1>6, <1>7 DEF Within
  <2>3. \A i \in a .. b : W[i].left \in Int /\ W[i].right \in Int
    BY <1>5, TaskBounds
  <2>4. V[a + d].left = W[a].left /\ V[a + d].right = W[a].right
    BY <1>6, <1>7
  <2> QED BY <1>1, <2>1, <2>2, <2>3, <2>4 DEF Moves
<1> HIDE DEF a, c, d
<1>9. InRange(V, c, b + d, n, lo, hi)
  <2>1. \A i \in c .. a + d : V[i] \in Task(n)
    BY <1>4, <1>5, <1>7
  <2> QED BY <1>0, <1>7, <1>8, <2>1, RangeKept
<1>10. Agrees(V, c, b + d, r, lo)
  <2>1. ASSUME Strays(V[0], lo) PROVE Agree(V, c, 0, r, V[0].left - 1)
    <3>1. Agree(W, 1, 1, m, t.left - 1)
      BY <1>0, <1>6, <2>1, <1>b DEF Agrees, Strays
    <3>2. (\A i \in 1 .. 1 - 1 : FALSE) /\ (\A i \in 0 .. 0 - 1 : FALSE)
      OBVIOUS
    <3>3. m.temp[t.left - 1] = m.numbers[t.left - 1]
      BY <3>1, <3>2 DEF Agree
    <3> QED BY <1>3, <1>6, <1>7, <3>2, <3>3 DEF Agree
  <2>2. \A i \in c .. a + d : Strays(V[i], lo) => Agree(V, c, i, r, V[i].left - 1)
    BY <1>7, <2>1
  <2>3. \A e \in lo .. hi : e \notin W[a].left .. W[a].right =>
          r.temp[e] = m.temp[e] /\ r.numbers[e] = m.numbers[e]
    BY <1>3
  <2>4. InRange(W, a, b, n, lo, hi) /\ Agrees(W, a, b, m, lo)
    BY <1>0, <1>7
  <2> QED BY ONLY <1>a, <1>8, <2>2, <2>3, <2>4, AgreesKept
<1>11. ASSUME AllReady(W, 1, b, m.numbers, lo, hi)
       PROVE  AllReady(V, c, b + d, r.numbers, lo, hi) /\ MergeSorted(r)
  <2>1. InRange(W, a, b, n, lo, hi) /\ AllReady(W, a, b, m.numbers, lo, hi)
    BY <1>0, <1>7, <1>11
  <2>2. \A e \in lo .. hi : e \notin W[a].left .. W[a].right => r.numbers[e] = m.numbers[e]
    BY <1>3
  <2>3. \A i \in c .. a + d : i # 0 /\ V[i].call = "merge" => HalvesReady(V, c, i, r.numbers)
    BY <1>7
  <2>4. AllReady(V, c, b + d, r.numbers, lo, hi)
    <3>1. c = a + d + 1 => Sorted(r.numbers, W[a].left, W[a].right)
      BY <1>a
    <3> QED BY ONLY <1>a, <1>8, <2>1, <2>2, <2>3, <3>1, AllReadyKept
  <2>5. HalvesReady(W, 1, 1, m.numbers)
    BY <1>6, <1>11, <1>b DEF AllReady
  <2>6. \A i \in 1 .. 1 - 1 : FALSE
    OBVIOUS
  <2>7. Sorted(m.numbers, t.left, t.mid - 1) /\ Sorted(m.numbers, t.mid, t.right)
    BY <1>6, <2>5, <2>6 DEF HalvesReady, Ready
  <2>8. \A i \in t.left .. t.left - 1 : FALSE
    BY <1>2
  <2>9. t.mid - 1 + 1 = t.mid
    BY <1>2
  <2>10. Sorted(r.temp, First(r), r.tmp_pos - 1)
    BY <1>3, <2>8 DEF Sorted
  <2>11. MergeSorted(r)
    BY <1>3, <2>7, <2>8, <2>9, <2>10 DEF MergeSorted
  <2> QED BY <2>4, <2>11
<1>12. Copied(r)
  <2>1. \A i \in t.right + 1 .. t.right : FALSE
    BY <1>2
  <2> QED BY <1>3, <2>1 DEF Copied
<1> QED BY <1>0, <1>1, <1>3, <1>5, <1>7, <1>9, <1>10, <1>11, <1>12 DEF Calls, InOrder, V, W, b, U

\* A turn of merge() leaves the other elements of the process alone.
LEMMA OthersKept ==
  ASSUME NEW n \in Nat, NEW lo, NEW hi, NEW m, NEW T, Calls(m, T, n, lo, hi), Busy(m),
         NEW e \in lo .. hi, e \notin First(m) .. Final(m)
  PROVE  Step(m).temp[e] = m.temp[e] /\ Step(m).numbers[e] = m.numbers[e]
<1> DEFINE W == Work(m, T)
<1>0. /\ T \in Seq(Task(n)) /\ lo \in Nat /\ hi \in Int /\ hi <= n - 1 /\ MergeOK(m, n)
      /\ Agrees(W, 0, Len(T), m, lo) /\ 0 \in 0 .. Len(T)
  BY DEF Calls, Begin
<1>1. W[0] = MergeOf(First(m), m.left_end + 1, Final(m))
  BY <1>0, WorkAt
<1>2. W[0].call = "merge" /\ W[0].left = First(m)
  BY <1>1 DEF MergeOf
<1> HIDE DEF W
<1>3. First(m) \in Int /\ e \in -1 .. n - 1
  <2>1. m \in Memory(n) /\ e \in -1 .. n - 1
    BY <1>0 DEF MergeOK
  <2> QED BY <2>1 DEF Memory, First
<1>4. ASSUME e = First(m) - 1 PROVE m.temp[e] = m.numbers[e]
  <2>1. lo < First(m)
    BY <1>0, <1>3, <1>4
  <2>2. Agree(W, 0, 0, m, First(m) - 1)
    BY <1>0, <1>2, <2>1 DEF Agrees, Strays
  <2>3. \A i \in 0 .. 0 - 1 : FALSE
    OBVIOUS
  <2> QED BY <1>4, <2>2, <2>3 DEF Agree
<1> QED BY <1>0, <1>3, <1>4, StepEffect

\* A turn of merge(), and its last.
LEMMA MergeTurns ==
  ASSUME NEW n \in Nat, NEW lo, NEW hi, NEW m, NEW T, Calls(m, T, n, lo, hi), Busy(m),
         NEW r, r = Step(m)
  PROVE  /\ Calls(r, T, n, lo, hi)
         /\ InOrder(m, T, lo, hi) => InOrder(r, T, lo, hi)
<1> DEFINE V == Work(r, T)
           W == Work(m, T)
           b == Len(T)
           a == 0
           c == Begin(r)
           d == 0
<1>0. /\ T \in Seq(Task(n)) /\ Begin(m) = 0 /\ lo \in Int /\ lo \in Nat /\ hi \in Int /\ hi <= n - 1
      /\ InRange(W, 0, b, n, lo, hi) /\ Agrees(W, 0, b, m, lo) /\ m \in Memory(n) /\ b \in Nat
      /\ MergeOK(m, n) /\ Copied(m)
  BY DEF Calls, Begin, MergeOK
<1>1. MergeOK(r, n) /\ First(r) = First(m) /\ Final(r) = Final(m) /\ Copied(r)
  BY <1>0, StepOK, StepCopied
<1>2. /\ First(m) \in Int /\ Final(m) \in Int /\ First(m) \in Nat /\ First(m) - 1 \in -1 .. n - 1
      /\ r.left_end \in Int /\ r \in Memory(n)
  <2>1. r \in Memory(n)
    BY <1>1 DEF MergeOK
  <2>2. First(m) \in Int /\ Final(m) \in Int /\ r.left_end \in Int /\ m.left_end \in Int
    <3>1. m \in Memory(n)
      BY <1>0
    <3> QED BY ONLY <2>1, <3>1 DEF Memory, First, Final
  <2>3. 0 <= First(m) /\ First(m) <= m.left_end /\ m.left_end <= Final(m) /\ Final(m) <= n - 1
    BY <1>0 DEF MergeOK
  <2> QED BY <2>1, <2>2, <2>3
<1>3. /\ \A k \in 1 .. b : W[k] = T[k] /\ T[k] \in Task(n) /\ V[k] = T[k]
      /\ W[0] = MergeOf(First(m), m.left_end + 1, Final(m))
      /\ Busy(r) => V[0] = MergeOf(First(m), r.left_end + 1, Final(m))
  <2>1. \A k \in 1 .. b : V[k] = T[k]
    BY <1>0, WorkAt
  <2> QED BY <1>0, <1>1, <2>1, WorkAt
<1>4. /\ c \in {0, 1} /\ (c = 0 <=> Busy(r)) /\ a = 0 /\ d = 0 /\ (c = a + d + 1 <=> ~Busy(r)) /\ b + d = b
      /\ a \in 0 .. b /\ \A i \in c .. a + d : i = 0 /\ Busy(r)
  BY <1>0 DEF Begin
<1>a. n \in Nat /\ lo \in Int /\ hi \in Int
  BY <1>0
<1> HIDE DEF V, W, b, a, c, d
<1>5. W[0].left = First(m) /\ W[0].right = Final(m) /\ W[0].call = "merge"
  BY <1>3 DEF MergeOf
<1>6. ASSUME Busy(r)
      PROVE  V[0].left = First(m) /\ V[0].right = Final(m) /\ V[0] \in Task(n)
  <2>1. V[0].left = First(m) /\ V[0].right = Final(m)
    BY <1>3, <1>6 DEF MergeOf
  <2>2. First(m) < r.left_end + 1 /\ r.left_end + 1 <= Final(m) + 1 /\ Final(m) <= n - 1 /\ r.left_end + 1 \in Nat
    BY <1>1, <1>2, <1>6 DEF MergeOK
  <2> QED BY <1>2, <1>3, <1>6, <2>1, <2>2, MergeIsTask
<1>7. Moves(W, a, b, V, c, d)
  <2>1. ASSUME NEW i \in a + 1 .. b PROVE V[i + d] = W[i]
    BY <1>0, <1>3, <1>4
  <2>2. ASSUME NEW i \in c .. a + d PROVE V[i].left \in Int /\ V[i].right \in Int /\ Within(V[i], W[a])
    BY <1>2, <1>4, <1>5, <1>6 DEF Within
  <2>3. ASSUME NEW i \in a .. b PROVE W[i].left \in Int /\ W[i].right \in Int
    <3>1. i = 0 \/ i \in 1 .. b
      BY <1>0, <1>4
    <3> QED BY <1>2, <1>3, <1>5, <3>1, TaskBounds
  <2>4. c <= a + d => V[a + d].left = W[a].left /\ V[a + d].right = W[a].right
    BY <1>4, <1>5, <1>6
  <2> QED BY <1>0, <1>4, <2>1, <2>2, <2>3, <2>4 DEF Moves
<1>8. InRange(V, c, b + d, n, lo, hi)
  <2>1. \A i \in c .. a + d : V[i] \in Task(n)
    BY <1>4, <1>6
  <2>2. InRange(W, a, b, n, lo, hi)
    BY <1>0, <1>4
  <2> QED BY <1>0, <1>7, <2>1, <2>2, RangeKept
<1>9. \A e \in lo .. hi : e \notin W[a].left .. W[a].right =>
        r.temp[e] = m.temp[e] /\ r.numbers[e] = m.numbers[e]
  BY <1>4, <1>5, OthersKept
<1>10. Agrees(V, c, b + d, r, lo)
  <2>1. ASSUME Busy(r), Strays(V[0], lo) PROVE Agree(V, c, 0, r, V[0].left - 1)
    <3>0. lo < First(m) /\ V[0].left = First(m)
      BY <1>6, <2>1 DEF Strays
    <3>1. Agree(W, 0, 0, m, First(m) - 1)
      BY <1>0, <1>4, <1>5, <3>0 DEF Agrees, Strays
    <3>2. \A i \in 0 .. 0 - 1 : FALSE
      OBVIOUS
    <3>3. m.temp[First(m) - 1] = m.numbers[First(m) - 1]
      BY <3>1, <3>2 DEF Agree
    <3>4. First(m) - 1 \notin First(m) .. Final(m)
      BY <1>2
    <3>5. r.temp[First(m) - 1] = r.numbers[First(m) - 1]
      BY <1>0, <1>2, <3>3, <3>4, StepEffect
    <3> QED BY <1>4, <2>1, <3>0, <3>2, <3>5 DEF Agree
  <2>2. \A i \in c .. a + d : Strays(V[i], lo) => Agree(V, c, i, r, V[i].left - 1)
    BY <1>4, <2>1
  <2>3. InRange(W, a, b, n, lo, hi) /\ Agrees(W, a, b, m, lo)
    BY <1>0, <1>4
  <2>4. c = a + d + 1 => \A e \in lo .. hi : W[a].left < e /\ W[a].right = e => r.temp[e] = r.numbers[e]
    <3>1. ~Busy(r) => \A e \in First(m) .. Final(m) : r.temp[e] = r.numbers[e]
      BY <1>0, MergeEnds
    <3>2. \A e \in lo .. hi : First(m) < e /\ Final(m) = e => e \in First(m) .. Final(m)
      BY <1>0, <1>2
    <3> QED BY <1>4, <1>5, <3>1, <3>2
  <2> QED BY ONLY ZenonT(20), <1>a, <1>7, <1>9, <2>2, <2>3, <2>4, AgreesKept
<1>11. ASSUME AllReady(W, 0, b, m.numbers, lo, hi), MergeSorted(m)
       PROVE  AllReady(V, c, b + d, r.numbers, lo, hi) /\ MergeSorted(r)
  <2>1. InRange(W, a, b, n, lo, hi) /\ AllReady(W, a, b, m.numbers, lo, hi) /\ 0 <= a
    BY <1>0, <1>4, <1>11
  <2>2. \A e \in lo .. hi : e \notin W[a].left .. W[a].right => r.numbers[e] = m.numbers[e]
    BY <1>9
  <2>3. \A i \in c .. a + d : i # 0 /\ V[i].call = "merge" => HalvesReady(V, c, i, r.numbers)
    BY <1>4
  <2>4. c = a + d + 1 => Sorted(r.numbers, W[a].left, W[a].right)
    BY <1>0, <1>4, <1>5, <1>11, MergeEnds
  <2>5. AllReady(V, c, b + d, r.numbers, lo, hi)
    BY <1>a, <1>7, <2>1, <2>2, <2>3, <2>4, AllReadyKept
  <2> QED BY <1>0, <1>11, <2>5, StepSorted
<1> QED BY <1>0, <1>1, <1>4, <1>8, <1>10, <1>11 DEF Calls, InOrder, V, W, b, c

-------------------------------------------------------------------------------
(* Nothing is lost: how often a value v is there.                          *)

CountIn(f, S, v) == Cardinality({c \in S : f[c] = v})

\* Counting over finite sets.
LEMMA CountNat ==
  ASSUME NEW f, NEW v, NEW S, IsFiniteSet(S)
  PROVE  IsFiniteSet({c \in S : f[c] = v}) /\ CountIn(f, S, v) \in Nat
<1>1. IsFiniteSet({c \in S : f[c] = v})
  BY FS_Subset
<1> QED BY <1>1, FS_CardinalityType DEF CountIn

LEMMA CountSame ==
  ASSUME NEW f, NEW g, NEW v, NEW S, \A c \in S : f[c] = g[c]
  PROVE  CountIn(f, S, v) = CountIn(g, S, v)
<1>1. {c \in S : f[c] = v} = {c \in S : g[c] = v}
  OBVIOUS
<1> QED BY <1>1 DEF CountIn

LEMMA CountSplit ==
  ASSUME NEW f, NEW v, NEW S, NEW R, IsFiniteSet(S), IsFiniteSet(R), S \cap R = {}
  PROVE  CountIn(f, S \cup R, v) = CountIn(f, S, v) + CountIn(f, R, v)
<1> DEFINE A == {c \in S : f[c] = v}
           B == {c \in R : f[c] = v}
<1>1. {c \in S \cup R : f[c] = v} = A \cup B /\ A \cap B = {}
  OBVIOUS
<1>2. IsFiniteSet(A) /\ IsFiniteSet(B)
  BY CountNat
<1> HIDE DEF A, B
<1>3. Cardinality(A \cup B) = Cardinality(A) + Cardinality(B) - Cardinality(A \cap B)
  BY <1>2, FS_Union
<1>4. Cardinality(A \cap B) = 0 /\ Cardinality(A) \in Nat /\ Cardinality(B) \in Nat
  BY <1>1, <1>2, FS_EmptySet, FS_CardinalityType
<1>5. Cardinality(A \cup B) = Cardinality(A) + Cardinality(B)
  BY <1>3, <1>4
<1> QED BY <1>1, <1>5 DEF CountIn, A, B

LEMMA CountAdd ==
  ASSUME NEW f, NEW v, NEW S, IsFiniteSet(S), NEW x, x \notin S
  PROVE  CountIn(f, S \cup {x}, v) = CountIn(f, S, v) + (IF f[x] = v THEN 1 ELSE 0)
<1> DEFINE A == {c \in S : f[c] = v}
<1>1. IsFiniteSet(A) /\ x \notin A
  BY CountNat
<1>2. Cardinality(A) \in Nat
  BY <1>1, FS_CardinalityType
<1>3. CASE f[x] = v
  <2>1. {c \in S \cup {x} : f[c] = v} = A \cup {x}
    BY <1>3
  <2> HIDE DEF A
  <2>2. Cardinality(A \cup {x}) = Cardinality(A) + 1
    BY <1>1, FS_AddElement
  <2> QED BY <1>3, <2>1, <2>2 DEF CountIn, A
<1>4. CASE f[x] # v
  <2>1. {c \in S \cup {x} : f[c] = v} = A
    BY <1>4
  <2>2. CountIn(f, S \cup {x}, v) = CountIn(f, S, v)
    BY <2>1 DEF CountIn
  <2>3. CountIn(f, S, v) \in Nat
    BY CountNat
  <2> QED BY ONLY <1>4, <2>2, <2>3
<1> QED BY <1>3, <1>4

\* The elements temp[] has been given.
Taken(m) == (First(m) .. m.left - 1) \cup (m.left_end + 1 .. m.mid - 1)

\* merge() has the elements of its range in temp[] once numbers[] is overwritten.
Held(m, lo, hi, v) ==
  IF Copying(m)
  THEN CountIn(m.temp, First(m) .. Final(m), v) +
       CountIn(m.numbers, (lo .. hi) \ (First(m) .. Final(m)), v)
  ELSE CountIn(m.numbers, lo .. hi, v)

TempHolds(m, v) == CountIn(m.temp, First(m) .. m.tmp_pos - 1, v) = CountIn(m.numbers, Taken(m), v)

LEMMA FiniteRange == ASSUME NEW x \in Int, NEW y \in Int PROVE IsFiniteSet(x .. y)
BY FS_Interval

LEMMA TakenFinite ==
  ASSUME NEW n \in Nat, NEW m \in Memory(n)
  PROVE  IsFiniteSet(Taken(m))
<1>1. /\ First(m) \in Int /\ m.left - 1 \in Int /\ m.left_end + 1 \in Int /\ m.mid - 1 \in Int
  BY DEF Memory, First
<1>2. IsFiniteSet(First(m) .. m.left - 1) /\ IsFiniteSet(m.left_end + 1 .. m.mid - 1)
  BY <1>1, FiniteRange
<1> QED BY <1>2, FS_Union DEF Taken

\* A turn of the first loops adds to temp[] what it takes from numbers[].
LEMMA TakeCounts ==
  ASSUME NEW n \in Nat, NEW m, MergeOK(m, n), Merging(m), NEW v, TempHolds(m, v),
         NEW x, x \notin Taken(m), m.tmp_pos \in 0 .. n - 1,
         NEW r, r.temp = [m.temp EXCEPT ![m.tmp_pos] = m.numbers[x]], r.numbers = m.numbers,
         Taken(r) = Taken(m) \cup {x}, First(r) = First(m), r.tmp_pos = m.tmp_pos + 1
  PROVE  TempHolds(r, v)
<1> DEFINE S == First(m) .. m.tmp_pos - 1
<1>0. m \in Memory(n) /\ m.tmp_pos \in Int /\ First(m) \in Int
  BY DEF MergeOK, Memory, First
<1>1. m.temp \in [-1 .. n - 1 -> Int] /\ m.tmp_pos \in -1 .. n - 1
  <2>1. m.temp \in [-1 .. n - 1 -> Int]
    BY <1>0 DEF Memory, Array
  <2> QED BY <1>0, <2>1
<1>2. 0 <= First(m) /\ First(m) <= m.tmp_pos
  <2>1. First(m) <= m.left /\ m.left_end + 1 <= m.mid /\ m.tmp_pos = m.left + m.mid - m.left_end - 1 /\ 0 <= First(m)
    BY DEF MergeOK, Busy
  <2>2. m.left \in Int /\ m.left_end \in Int /\ m.mid \in Int
    BY <1>0 DEF Memory
  <2> QED BY <1>0, <2>1, <2>2
<1>3. First(r) .. r.tmp_pos - 1 = S \cup {m.tmp_pos} /\ m.tmp_pos \notin S /\ IsFiniteSet(S)
  BY <1>0, <1>2, FiniteRange
<1>4. CountIn(r.temp, S, v) = CountIn(m.temp, S, v)
  <2>1. \A c \in S : r.temp[c] = m.temp[c]
    <3>1. \A c \in S : c \in -1 .. n - 1 /\ c # m.tmp_pos
      BY <1>0, <1>1, <1>2
    <3> QED BY <1>1, <3>1
  <2> HIDE DEF S
  <2> QED BY ONLY <2>1, CountSame
<1>5. r.temp[m.tmp_pos] = m.numbers[x]
  BY <1>1
<1>6. CountIn(m.temp, S, v) = CountIn(m.numbers, Taken(m), v)
  BY DEF TempHolds
<1> HIDE DEF S
<1>7. CountIn(r.temp, S \cup {m.tmp_pos}, v) = CountIn(r.temp, S, v) + (IF r.temp[m.tmp_pos] = v THEN 1 ELSE 0)
  BY ONLY <1>3, CountAdd
<1>8. CountIn(m.numbers, Taken(m) \cup {x}, v) = CountIn(m.numbers, Taken(m), v) + (IF m.numbers[x] = v THEN 1 ELSE 0)
  BY <1>0, TakenFinite, CountAdd
<1> QED BY <1>3, <1>4, <1>5, <1>6, <1>7, <1>8 DEF TempHolds

\* merge() runs within the elements of the process.
LEMMA RangeOwned ==
  ASSUME NEW n \in Nat, NEW lo, NEW hi, NEW m, NEW T, Calls(m, T, n, lo, hi), Busy(m)
  PROVE  /\ lo \in Int /\ hi \in Int /\ hi <= n - 1 /\ 0 <= lo
         /\ First(m) \in Int /\ Final(m) \in Int /\ lo <= First(m) /\ Final(m) <= hi
<1> DEFINE W == Work(m, T)
<1>0. /\ T \in Seq(Task(n)) /\ lo \in Nat /\ hi \in Int /\ hi <= n - 1 /\ MergeOK(m, n)
      /\ InRange(W, 0, Len(T), n, lo, hi) /\ 0 \in 0 .. Len(T)
  BY DEF Calls, Begin
<1>1. W[0] = MergeOf(First(m), m.left_end + 1, Final(m))
  BY <1>0, WorkAt
<1>2. W[0].left = First(m) /\ W[0].right = Final(m)
  BY <1>1 DEF MergeOf
<1> HIDE DEF W
<1>3. lo <= First(m) /\ Final(m) <= hi
  BY <1>0, <1>2 DEF InRange
<1>4. m \in Memory(n)
  BY <1>0 DEF MergeOK
<1>5. First(m) \in Int /\ Final(m) \in Int
  BY <1>4 DEF Memory, First, Final
<1> QED BY <1>0, <1>3, <1>5

\* The elements of a process are those of the call that runs and the others.
LEMMA CountOwned ==
  ASSUME NEW f, NEW v, NEW lo \in Int, NEW hi \in Int, NEW x \in Int, NEW y \in Int, lo <= x, y <= hi
  PROVE  CountIn(f, lo .. hi, v) = CountIn(f, x .. y, v) + CountIn(f, (lo .. hi) \ (x .. y), v)
<1> DEFINE S == x .. y
           R == (lo .. hi) \ (x .. y)
<1>1. IsFiniteSet(S) /\ IsFiniteSet(R) /\ S \cap R = {}
  BY FiniteRange, FS_Subset
<1>2. lo .. hi = S \cup R
  OBVIOUS
<1> HIDE DEF S, R
<1>3. CountIn(f, S \cup R, v) = CountIn(f, S, v) + CountIn(f, R, v)
  BY <1>1, CountSplit
<1> QED BY <1>2, <1>3 DEF S, R

\* The last element of the range has been given to temp[].
LEMMA AllTaken ==
  ASSUME NEW n \in Nat, NEW r, MergeOK(r, n), Busy(r), ~Merging(r)
  PROVE  Taken(r) = First(r) .. Final(r) /\ r.tmp_pos - 1 = Final(r)
<1>0. r \in Memory(n)
  BY DEF MergeOK
<1>1. First(r) \in Int /\ Final(r) \in Int /\ r.left \in Int /\ r.left_end \in Int /\ r.mid \in Int /\ r.tmp_pos \in Int
  BY <1>0 DEF Memory, First, Final
<1>2. /\ r.left = r.left_end + 1 /\ r.mid = Final(r) + 1 /\ r.tmp_pos = r.left + r.mid - r.left_end - 1
      /\ First(r) <= r.left_end /\ r.left_end <= Final(r)
  BY DEF MergeOK
<1>3. r.left - 1 = r.left_end /\ r.mid - 1 = Final(r) /\ r.tmp_pos - 1 = Final(r)
  BY <1>1, <1>2
<1>4. (First(r) .. r.left_end) \cup (r.left_end + 1 .. Final(r)) = First(r) .. Final(r)
  BY <1>1, <1>2
<1> QED BY <1>3, <1>4 DEF Taken

\* The first loops lose nothing, the last of their turns included.
LEMMA HeldThere ==
  ASSUME NEW n \in Nat, NEW lo, NEW hi, NEW m, NEW T, Calls(m, T, n, lo, hi), Merging(m),
         NEW v, TempHolds(m, v), NEW r, MergeOK(r, n), Busy(r), First(r) = First(m), Final(r) = Final(m),
         r.numbers = m.numbers, TempHolds(r, v)
  PROVE  Held(r, lo, hi, v) = Held(m, lo, hi, v)
<1>1. /\ lo \in Int /\ hi \in Int /\ First(m) \in Int /\ Final(m) \in Int /\ lo <= First(m) /\ Final(m) <= hi
  BY RangeOwned DEF Busy
<1>2. Held(m, lo, hi, v) = CountIn(m.numbers, lo .. hi, v)
  BY DEF Held, Copying
<1>3. CASE ~Copying(r)
  BY <1>2, <1>3 DEF Held
<1>4. CASE Copying(r)
  <2>1. ~Merging(r)
    BY <1>4 DEF Copying
  <2>2. Taken(r) = First(m) .. Final(m) /\ r.tmp_pos - 1 = Final(m)
    BY <2>1, AllTaken
  <2>3. CountIn(r.temp, First(m) .. Final(m), v) = CountIn(m.numbers, First(m) .. Final(m), v)
    BY <2>2 DEF TempHolds
  <2>4. CountIn(m.numbers, lo .. hi, v) =
          CountIn(m.numbers, First(m) .. Final(m), v) + CountIn(m.numbers, (lo .. hi) \ (First(m) .. Final(m)), v)
    BY <1>1, CountOwned
  <2> QED BY <1>2, <1>4, <2>3, <2>4 DEF Held
<1> QED BY <1>3, <1>4

\* A turn loses nothing.
LEMMA HeldKept ==
  ASSUME NEW n \in Nat, NEW lo, NEW hi, NEW m, NEW T, Calls(m, T, n, lo, hi), Busy(m),
         NEW v, Merging(m) => TempHolds(m, v)
  PROVE  /\ Held(Step(m), lo, hi, v) = Held(m, lo, hi, v)
         /\ Merging(Step(m)) => TempHolds(Step(m), v)
<1> DEFINE r == Step(m)
<1>0. MergeOK(m, n) /\ Copied(m) /\ m \in Memory(n)
  BY DEF Calls, MergeOK
<1>1. MergeOK(r, n) /\ First(r) = First(m) /\ Final(r) = Final(m)
  BY <1>0, StepOK
<1>2. /\ lo \in Int /\ hi \in Int /\ hi <= n - 1 /\ 0 <= lo
      /\ First(m) \in Int /\ Final(m) \in Int /\ lo <= First(m) /\ Final(m) <= hi
  BY RangeOwned
<1>3. /\ m.left \in Int /\ m.left_end \in Int /\ m.mid \in Int /\ m.right \in Int
      /\ m.tmp_pos \in Int
  BY <1>0 DEF Memory
<1>4. /\ First(m) <= m.left /\ m.left <= m.left_end + 1
      /\ m.left_end + 1 <= m.mid /\ m.mid <= Final(m) + 1
  BY <1>0 DEF MergeOK
<1>5. CASE /\ Merging(m) /\ r = TakeLeft(m) /\ LeftIsNext(m)
           /\ m.tmp_pos \in 0 .. n - 1 /\ m.left \in 0 .. n - 1
  <2>1. /\ r.temp = [m.temp EXCEPT ![m.tmp_pos] = m.numbers[m.left]]
        /\ r.tmp_pos = m.tmp_pos + 1 /\ r.left = m.left + 1
        /\ r.left_end = m.left_end /\ r.mid = m.mid /\ r.numbers = m.numbers
    BY <1>0, <1>5, TakeLeftFields
  <2>2. m.left <= m.left_end
    BY <1>5 DEF LeftIsNext
  <2> HIDE DEF r
  <2>3. Taken(r) = Taken(m) \cup {m.left} /\ m.left \notin Taken(m)
    <3>1. First(m) .. m.left + 1 - 1 = (First(m) .. m.left - 1) \cup {m.left}
      BY <1>2, <1>3, <1>4
    <3>2. m.left \notin First(m) .. m.left - 1 /\ m.left \notin m.left_end + 1 .. m.mid - 1
      BY <1>2, <1>3, <2>2
    <3> QED BY <1>1, <2>1, <3>1, <3>2 DEF Taken
  <2>4. TempHolds(r, v)
    BY <1>0, <1>1, <1>5, <2>1, <2>3, TakeCounts
  <2>5. Busy(r)
    BY <1>0, <1>5, LastTurn DEF r, Copying
  <2> QED BY <1>1, <1>5, <2>1, <2>4, <2>5, HeldThere DEF r
<1>6. CASE /\ Merging(m) /\ r = TakeRight(m) /\ ~LeftIsNext(m) /\ m.mid <= m.right
           /\ m.tmp_pos \in 0 .. n - 1 /\ m.mid \in 0 .. n - 1
  <2>1. /\ r.temp = [m.temp EXCEPT ![m.tmp_pos] = m.numbers[m.mid]]
        /\ r.tmp_pos = m.tmp_pos + 1 /\ r.left = m.left
        /\ r.left_end = m.left_end /\ r.mid = m.mid + 1 /\ r.numbers = m.numbers
    BY <1>0, <1>6, TakeRightFields
  <2> HIDE DEF r
  <2>3. Taken(r) = Taken(m) \cup {m.mid} /\ m.mid \notin Taken(m)
    <3>1. m.left_end + 1 .. m.mid + 1 - 1 = (m.left_end + 1 .. m.mid - 1) \cup {m.mid}
      BY <1>2, <1>3, <1>4
    <3>2. m.mid \notin First(m) .. m.left - 1 /\ m.mid \notin m.left_end + 1 .. m.mid - 1
      BY <1>2, <1>3, <1>4
    <3> QED BY <1>1, <2>1, <3>1, <3>2 DEF Taken
  <2>4. TempHolds(r, v)
    BY <1>0, <1>1, <1>6, <2>1, <2>3, TakeCounts
  <2>5. Busy(r)
    BY <1>0, <1>6, LastTurn DEF r, Copying
  <2> QED BY <1>1, <1>6, <2>1, <2>4, <2>5, HeldThere DEF r
<1>7. CASE Copying(m) /\ r = CopyBack(m) /\ m.right \in -1 .. n - 1
  <2>1. /\ r.temp = m.temp /\ r.right = m.right - 1
        /\ r.left_end = m.left_end /\ r.left = m.left /\ r.mid = m.mid
    BY <1>0, <1>7, CopyBackFields
  <2>2. ~Merging(r)
    BY <1>3, <1>7, <2>1 DEF Merging, Copying
  <2> DEFINE S == First(m) .. Final(m)
             R == (lo .. hi) \ S
  <2>3. CountIn(r.numbers, R, v) = CountIn(m.numbers, R, v)
    <3>1. \A c \in R : r.numbers[c] = m.numbers[c]
      BY OthersKept
    <3> HIDE DEF r, R
    <3> QED BY ONLY <3>1, CountSame
  <2>4. Held(m, lo, hi, v) = CountIn(m.temp, S, v) + CountIn(m.numbers, R, v)
    BY <1>7 DEF Held
  <2>5. CASE Copying(r)
    BY <1>1, <2>1, <2>2, <2>3, <2>4, <2>5 DEF Held
  <2>6. CASE ~Copying(r)
    <3>1. ~Busy(r)
      BY <2>2, <2>6 DEF Busy
    <3>2. \A c \in S : r.numbers[c] = m.temp[c]
      BY <1>0, <3>1, MergeEnds
    <3> HIDE DEF r
    <3>3. CountIn(r.numbers, S, v) = CountIn(m.temp, S, v)
      <4> HIDE DEF S
      <4> QED BY ONLY <3>2, CountSame
    <3>4. CountIn(r.numbers, lo .. hi, v) = CountIn(r.numbers, S, v) + CountIn(r.numbers, R, v)
      BY <1>2, CountOwned
    <3>5. Held(r, lo, hi, v) = CountIn(r.numbers, lo .. hi, v)
      BY <2>6 DEF Held
    <3> QED BY <2>2, <2>3, <2>4, <3>3, <3>4, <3>5 DEF r
  <2> QED BY <2>5, <2>6
<1> QED BY <1>0, <1>5, <1>6, <1>7, Turns

-------------------------------------------------------------------------------
(* Every turn of a process, and its first and last call.                   *)

Counted(m, v) == Merging(m) => TempHolds(m, v)

LEMMA CountNone == ASSUME NEW f, NEW v, NEW S, S = {} PROVE CountIn(f, S, v) = 0
<1>1. {c \in S : f[c] = v} = {}
  OBVIOUS
<1> QED BY <1>1, FS_EmptySet DEF CountIn

\* merge() begins with nothing in temp[].
LEMMA BeginCounts ==
  ASSUME NEW n \in Nat, NEW m \in Memory(n), ~Busy(m), NEW left \in Nat, NEW mid \in Nat, NEW right \in Int,
         left < mid, mid <= right + 1, right <= n - 1, NEW r, r = Call(m, left, mid, right),
         NEW v, NEW lo, NEW hi
  PROVE  Counted(r, v) /\ Held(r, lo, hi, v) = Held(m, lo, hi, v)
<1>1. /\ First(r) = left /\ Merging(r) /\ r.left = left /\ r.mid = mid /\ r.left_end = mid - 1
      /\ r.tmp_pos = left /\ r.numbers = m.numbers
  BY CallOK
<1>2. First(r) .. r.tmp_pos - 1 = {} /\ Taken(r) = {}
  BY <1>1 DEF Taken
<1>3. Counted(r, v)
  BY <1>2, CountNone DEF Counted, TempHolds
<1>4. ~Copying(r) /\ ~Copying(m)
  BY <1>1 DEF Copying, Busy
<1> QED BY <1>1, <1>3, <1>4 DEF Held

\* A process begins with one call, for all its elements.
LEMMA FirstCall ==
  ASSUME NEW n \in Nat, NEW lo \in Nat, NEW hi \in Int, NEW m \in Memory(n), ~Busy(m),
         NEW t \in Task(n), t.left = lo, t.right = hi
  PROVE  /\ Calls(m, <<t>>, n, lo, hi)
         /\ (t.call = "merge" => Sorted(m.numbers, lo, t.mid - 1) /\ Sorted(m.numbers, t.mid, hi)) =>
              InOrder(m, <<t>>, lo, hi)
<1> DEFINE T == <<t>>
           W == Work(m, T)
<1>1. T \in Seq(Task(n)) /\ Len(T) = 1 /\ T[1] = t
  OBVIOUS
<1>2. Begin(m) = 1
  BY DEF Begin
<1>3. hi <= n - 1
  BY TaskBounds
<1> HIDE DEF T
<1>4. \A k \in 1 .. Len(T) : W[k] = T[k]
  BY <1>1, WorkAt
<1>5. W[1] = t /\ \A k \in 1 .. 1 : k = 1
  BY <1>1, <1>4
<1> HIDE DEF W
<1>6. InRange(W, 1, 1, n, lo, hi)
  BY <1>5 DEF InRange
<1>7. Agrees(W, 1, 1, m, lo)
  BY <1>5 DEF Agrees, Strays
<1>8. MergeOK(m, n) /\ Copied(m) /\ MergeSorted(m)
  BY IdleOK DEF Copied, MergeSorted
<1>9. Ready(W, 1, 1 + 1, m.numbers, lo, hi)
  <2>1. 1 \in 1 .. (1 + 1) - 1 /\ \A i \in 1 + 1 .. (1 + 1) - 1 : FALSE
    OBVIOUS
  <2> QED BY <1>5, <2>1 DEF Ready
<1>10. ASSUME t.call = "merge", Sorted(m.numbers, lo, t.mid - 1), Sorted(m.numbers, t.mid, hi)
       PROVE  HalvesReady(W, 1, 1, m.numbers)
  <2>1. \A i \in 1 .. 1 - 1 : FALSE
    OBVIOUS
  <2> QED BY <1>5, <1>10, <2>1 DEF HalvesReady, Ready
<1>11. Calls(m, T, n, lo, hi)
  BY <1>1, <1>2, <1>3, <1>6, <1>7, <1>8 DEF Calls, W
<1>12. ASSUME t.call = "merge" => Sorted(m.numbers, lo, t.mid - 1) /\ Sorted(m.numbers, t.mid, hi)
       PROVE  InOrder(m, T, lo, hi)
  <2>1. AllReady(W, 1, 1, m.numbers, lo, hi)
    BY <1>5, <1>9, <1>10, <1>12 DEF AllReady
  <2> QED BY <1>1, <1>2, <1>8, <2>1 DEF InOrder, W
<1> QED BY <1>11, <1>12 DEF T

\* With no call left the elements are in order.
LEMMA NoCallLeft ==
  ASSUME NEW n \in Nat, NEW lo, NEW hi, NEW m, ~Busy(m), InOrder(m, << >>, lo, hi)
  PROVE  Sorted(m.numbers, lo, hi)
<1> DEFINE W == Work(m, << >>)
<1>1. Begin(m) = 1 /\ Len(<< >>) = 0
  BY DEF Begin
<1> HIDE DEF W
<1>2. Ready(W, 1, 0 + 1, m.numbers, lo, hi)
  BY <1>1 DEF InOrder, AllReady, W
<1>3. \A j \in 1 .. (0 + 1) - 1 : FALSE
  OBVIOUS
<1> QED BY <1>2, <1>3 DEF Ready

\* m_sort(), the beginning of merge() and its turns keep all that.
LEMMA TurnKept ==
  ASSUME BoundsInv, NEW p \in Proc, Sorts(p), NEW lo, NEW hi, Calls(mem[p], todo[p], array_size, lo, hi)
  PROVE  /\ Calls(mem'[p], todo'[p], array_size, lo, hi)
         /\ InOrder(mem[p], todo[p], lo, hi) => InOrder(mem'[p], todo'[p], lo, hi)
         /\ \A v : Counted(mem[p], v) =>
              Counted(mem'[p], v) /\ Held(mem'[p], lo, hi, v) = Held(mem[p], lo, hi, v)
         /\ \A q \in Proc \ {p} : mem'[q] = mem[q] /\ todo'[q] = todo[q]
         /\ UNCHANGED <<program, array_size, input, pc, pipe, failed>>
<1> DEFINE n == array_size
           m == mem[p]
           T == todo[p]
<1>0. n \in Nat /\ mem \in [Proc -> Memory(n)] /\ todo \in [Proc -> Seq(Task(n))] /\ m \in Memory(n) /\ T \in Seq(Task(n))
  BY DEF BoundsInv
<1>1. CASE MSort(p)
  <2> DEFINE t == Head(T)
             U == todo'[p]
  <2>1. /\ ~Busy(m) /\ T # << >> /\ mem'[p] = m
        /\ UNCHANGED <<mem, program, array_size, input, pc, pipe, failed>>
    BY <1>1 DEF MSort, Idle
  <2>2. /\ U = (IF t.right > t.left
                THEN <<Sort(t.left, Mid(t.left, t.right)), Sort(Mid(t.left, t.right) + 1, t.right),
                       MergeOf(t.left, Mid(t.left, t.right) + 1, t.right)>>
                ELSE << >>) \o Tail(T)
        /\ \A q \in Proc \ {p} : todo'[q] = todo[q]
    BY <1>0, <1>1 DEF MSort
  <2>3. CASE t.right > t.left
    <3>1. U = <<Sort(t.left, Mid(t.left, t.right)), Sort(Mid(t.left, t.right) + 1, t.right),
                MergeOf(t.left, Mid(t.left, t.right) + 1, t.right)>> \o Tail(T)
      BY <2>2, <2>3
    <3>a. Calls(m, T, n, lo, hi) /\ t = Head(T) /\ n \in Nat /\ ~Busy(m) /\ T # << >>
      BY <1>0, <2>1
    <3> HIDE DEF m, T, U, n, t
    <3>2. Calls(m, U, n, lo, hi) /\ (InOrder(m, T, lo, hi) => InOrder(m, U, lo, hi))
      BY ONLY <2>3, <3>1, <3>a, SortHalves DEF Halves
    <3> QED BY <2>1, <2>2, <3>2 DEF m, T, U, n
  <2>4. CASE ~(t.right > t.left)
    <3>1. U = Tail(T)
      <4>1. U = << >> \o Tail(T) /\ Tail(T) \in Seq(Task(n))
        BY <1>0, <2>1, <2>2, <2>4
      <4> HIDE DEF U, T
      <4> QED BY <4>1
    <3>2. Calls(m, Tail(T), n, lo, hi) /\ (InOrder(m, T, lo, hi) => InOrder(m, Tail(T), lo, hi))
      <4> HIDE DEF m, T, U, n
      <4> QED BY <1>0, <2>1, <2>4, SortNothing DEF m, T, n
    <3> QED BY <2>1, <2>2, <3>1, <3>2
  <2> QED BY <2>3, <2>4
<1>2. CASE CallMerge(p)
  <2> DEFINE t == Head(T)
             r == mem'[p]
             U == todo'[p]
  <2>1. /\ ~Busy(m) /\ T # << >> /\ t.call = "merge"
        /\ UNCHANGED <<program, array_size, input, pc, pipe, failed>>
    BY <1>2 DEF CallMerge, Idle
  <2>2. /\ r = Call(m, t.left, t.mid, t.right) /\ U = Tail(T)
        /\ \A q \in Proc \ {p} : mem'[q] = mem[q] /\ todo'[q] = todo[q]
    BY <1>0, <1>2 DEF CallMerge
  <2>3. t \in Task(n)
    BY <1>0, <2>1, Drop1
  <2>4. t.left \in Nat /\ t.mid \in Nat /\ t.right \in Int /\ t.left < t.mid /\ t.mid <= t.right + 1 /\ t.right <= n - 1
    BY <2>1, <2>3 DEF Task
  <2>a. Calls(m, T, n, lo, hi)
    OBVIOUS
  <2> HIDE DEF m, T, U, n, r, t
  <2>b. t = Head(T)
    BY DEF t
  <2>5. Calls(r, U, n, lo, hi) /\ (InOrder(m, T, lo, hi) => InOrder(r, U, lo, hi))
    <3>1. n \in Nat /\ ~Busy(m) /\ T # << >> /\ t.call = "merge"
      BY <1>0, <2>1
    <3>2. r = Call(m, t.left, t.mid, t.right) /\ U = Tail(T)
      BY <2>2
    <3> QED BY ONLY <2>a, <2>b, <3>1, <3>2, MergeBegins
  <2>6. \A v : Counted(r, v) /\ Held(r, lo, hi, v) = Held(m, lo, hi, v)
    <3>1. n \in Nat /\ ~Busy(m) /\ m \in Memory(n)
      BY <1>0, <2>1
    <3>2. r = Call(m, t.left, t.mid, t.right)
      BY <2>2
    <3> QED BY ONLY <2>4, <3>1, <3>2, BeginCounts
  <2> QED BY <2>1, <2>2, <2>5, <2>6 DEF m, T, U, n, r
<1>3. CASE MergeStep(p)
  <2> DEFINE r == mem'[p]
  <2>1. /\ Busy(m) /\ UNCHANGED <<program, array_size, input, pc, todo, pipe, failed>>
    BY <1>3 DEF MergeStep
  <2>2. /\ r = Step(m)
        /\ \A q \in Proc \ {p} : mem'[q] = mem[q]
    BY <1>0, <1>3 DEF MergeStep
  <2>a. Calls(m, T, n, lo, hi)
    OBVIOUS
  <2> HIDE DEF m, T, n, r
  <2>3. Calls(r, T, n, lo, hi) /\ (InOrder(m, T, lo, hi) => InOrder(r, T, lo, hi))
    BY ONLY <1>0, <2>1, <2>2, <2>a, MergeTurns
  <2>4. \A v : Counted(m, v) => Counted(r, v) /\ Held(r, lo, hi, v) = Held(m, lo, hi, v)
    BY ONLY <1>0, <2>1, <2>2, <2>a, HeldKept DEF Counted
  <2> QED BY <2>1, <2>2, <2>3, <2>4 DEF m, T, n, r
<1> QED BY <1>1, <1>2, <1>3 DEF Sorts

-------------------------------------------------------------------------------
(* The two processes.                                                      *)

Lo(p) == IF p = "parent" /\ pc[p] = "half" THEN Middle + 1 ELSE 0

Hi(p) == IF p = "child" THEN Middle ELSE array_size - 1

PcInv ==
  /\ pc \in [Proc -> {"mergeSort", "none", "half", "last", "end", "ended", "dead"}]
  /\ pc["parent"] \in {"mergeSort", "half", "last", "end"}
  /\ pc["child"] \in {"none", "half", "ended", "dead"}
  /\ pc["parent"] = "mergeSort" =>
       /\ pc["child"] = "none" /\ pipe = << >>
       /\ \A p \in Proc : ~Busy(mem[p]) /\ \A c \in Item : mem[p].numbers[c] = input[c]

WorkInv ==
  \A p \in Proc : pc[p] \in {"half", "last"} => Calls(mem[p], todo[p], array_size, Lo(p), Hi(p))

\* Where the two processes are, and that what each has still to do fits its half.
TurnInv == BoundsInv /\ PcInv /\ WorkInv

\* The elements of a process are a range.
LEMMA OwnBounds ==
  ASSUME BoundsInv, NEW p \in Proc
  PROVE  /\ Lo(p) \in Nat /\ Hi(p) \in Int /\ Hi(p) <= array_size - 1 /\ Own(p) = Lo(p) .. Hi(p)
         /\ Middle \in Nat /\ Middle + 1 \in Nat /\ Middle <= array_size - 1 /\ array_size \in Nat
BY MiddleFits DEF BoundsInv, Lo, Hi, Own, Item, Proc

LEMMA PcInit == Init => PcInv /\ WorkInv
<1> SUFFICES ASSUME Init PROVE PcInv /\ WorkInv
  OBVIOUS
<1>1. /\ pc["parent"] = "mergeSort" /\ pc["child"] = "none" /\ pipe = << >>
      /\ pc \in [Proc -> {"mergeSort", "none", "half", "last", "end", "ended", "dead"}]
      /\ \A p \in Proc : pc[p] \notin {"half", "last"}
  BY DEF Init, Proc
<1>2. ASSUME NEW p \in Proc
      PROVE  ~Busy(mem[p]) /\ \A c \in Item : mem[p].numbers[c] = input[c]
  <2>1. array_size \in Nat
    BY MergeSortAssumption DEF Init
  <2>2. \A c \in Item : c \in Cell /\ c # -1
    BY <2>1 DEF Item, Cell
  <2>3. mem[p] = NoCall([c \in Cell |-> IF c = -1 THEN 0 ELSE input[c]], [c \in Cell |-> 0])
    BY DEF Init
  <2> QED BY <2>2, <2>3 DEF NoCall, Busy, Merging, Copying
<1> QED BY <1>1, <1>2 DEF PcInv, WorkInv

\* fork(), and the sort by one process.
LEMMA BeginKept ==
  ASSUME TurnInv, NEW p \in Proc, ~Busy(mem[p]), NEW left \in Nat, NEW right \in Int,
         left <= right + 1, right <= array_size - 1
  PROVE  /\ Calls(mem[p], <<Sort(left, right)>>, array_size, left, right)
         /\ InOrder(mem[p], <<Sort(left, right)>>, left, right)
<1> DEFINE t == Sort(left, right)
<1>1. t \in Task(array_size) /\ t.left = left /\ t.right = right /\ t.call = "m_sort"
  BY SortIsTask DEF Sort, TurnInv, BoundsInv
<1>2. mem[p] \in Memory(array_size) /\ array_size \in Nat
  BY DEF TurnInv, BoundsInv
<1> HIDE DEF t
<1> QED BY <1>1, <1>2, FirstCall DEF t

\* The last merge() of the parent.
LEMMA LastCall ==
  ASSUME TurnInv, NEW m \in Memory(array_size), ~Busy(m)
  PROVE  /\ Calls(m, <<MergeOf(0, Middle + 1, array_size - 1)>>, array_size, 0, array_size - 1)
         /\ Sorted(m.numbers, 0, Middle) /\ Sorted(m.numbers, Middle + 1, array_size - 1) =>
              InOrder(m, <<MergeOf(0, Middle + 1, array_size - 1)>>, 0, array_size - 1)
<1> DEFINE n == array_size
           t == MergeOf(0, Middle + 1, n - 1)
<1>1. n \in Nat /\ n - 1 \in Int /\ Middle \in Nat /\ Middle + 1 \in Nat /\ 0 < Middle + 1
      /\ Middle + 1 <= (n - 1) + 1 /\ n - 1 <= n - 1 /\ 0 \in Nat
  BY MiddleFits DEF TurnInv, BoundsInv
<1>2. t \in Task(n)
  <2> HIDE DEF n
  <2> QED BY <1>1, MergeIsTask
<1>3. t.left = 0 /\ t.right = n - 1 /\ t.mid - 1 = Middle /\ t.mid = Middle + 1
  BY <1>1 DEF MergeOf
<1> HIDE DEF t, n
<1>4. m \in Memory(n)
  BY DEF n
<1>5. /\ Calls(m, <<t>>, n, 0, n - 1)
      /\ (t.call = "merge" => Sorted(m.numbers, 0, t.mid - 1) /\ Sorted(m.numbers, t.mid, n - 1)) =>
           InOrder(m, <<t>>, 0, n - 1)
  BY <1>1, <1>2, <1>3, <1>4, FirstCall
<1> QED BY <1>3, <1>5 DEF t, n

\* What ParentReads makes of the memory of the parent.
LEMMA ReadEffect ==
  ASSUME TurnInv, ParentReads
  PROVE  /\ mem'["parent"] \in Memory(array_size) /\ ~Busy(mem'["parent"])
         /\ pipe # << >> => \A c \in 0 .. Middle : mem'["parent"].numbers[c] = Head(pipe)[c]
         /\ \A c \in Middle + 1 .. array_size - 1 : mem'["parent"].numbers[c] = mem["parent"].numbers[c]
         /\ mem'["child"] = mem["child"]
<1> DEFINE m == mem["parent"]
           a == [c \in Cell |-> IF c \in 0 .. Middle THEN Head(pipe)[c] ELSE m.numbers[c]]
           r == [m EXCEPT !.numbers = a]
<1>0. m \in Memory(array_size) /\ ~Busy(m) /\ mem \in [Proc -> Memory(array_size)] /\ array_size \in Nat
      /\ "parent" \in Proc /\ "child" \in Proc
      /\ Middle \in Nat /\ Middle <= array_size - 1
  BY OwnBounds DEF TurnInv, BoundsInv, ParentReads, Idle, Proc
<1>1. CASE pipe # << >>
  <2>1. mem' = [mem EXCEPT !["parent"] = r]
    BY <1>1 DEF ParentReads
  <2>2. Head(pipe) \in [0 .. Middle -> Int]
    BY <1>1 DEF TurnInv, BoundsInv
  <2>3. a \in Array(array_size)
    BY <1>0, <2>2, Elements DEF Array, Cell
  <2>4. /\ \A c \in 0 .. Middle : a[c] = Head(pipe)[c]
        /\ \A c \in Middle + 1 .. array_size - 1 : a[c] = m.numbers[c]
    BY <1>0 DEF Cell
  <2>5. r \in Memory(array_size) /\ ~Busy(r) /\ r.numbers = a
    <3> HIDE DEF a, m
    <3> QED BY <1>0, <2>3 DEF Memory, Busy, Merging, Copying
  <2>6. mem'["parent"] = r /\ mem'["child"] = mem["child"]
    <3> HIDE DEF r, m
    <3> QED BY <1>0, <2>1
  <2> HIDE DEF r, a
  <2> QED BY <2>4, <2>5, <2>6
<1>2. CASE pipe = << >>
  BY <1>0, <1>2 DEF ParentReads
<1> QED BY <1>1, <1>2

\* Every step of the program keeps the calls of both processes in their halves.
LEMMA TurnNext == TurnInv /\ [Next]_vars => PcInv' /\ WorkInv'
<1> SUFFICES ASSUME TurnInv, [Next]_vars PROVE PcInv' /\ WorkInv'
  OBVIOUS
<1> DEFINE n == array_size
<1>0. /\ BoundsInv /\ PcInv /\ WorkInv /\ n \in Nat \ {0} /\ n \in Nat /\ todo \in [Proc -> Seq(Task(n))]
      /\ mem \in [Proc -> Memory(n)]
      /\ Middle \in Nat /\ Middle <= n - 1 /\ Middle + 1 \in Nat /\ "parent" \in Proc /\ "child" \in Proc
      /\ \A p \in Proc : p = "parent" \/ p = "child"
  BY OwnBounds DEF TurnInv, BoundsInv, Proc
<1>1. CASE SortAlone
  <2>1. PcInv'
    BY <1>0, <1>1 DEF SortAlone, PcInv
  <2>2. /\ todo'["parent"] = <<Sort(0, n - 1)>> /\ pc'["parent"] = "last" /\ pc'["child"] = "none"
        /\ ~Busy(mem["parent"]) /\ UNCHANGED <<mem, array_size>>
    BY <1>0, <1>1 DEF SortAlone, PcInv
  <2>3. Calls(mem["parent"], <<Sort(0, n - 1)>>, n, 0, n - 1)
    <3>1. 0 \in Nat /\ n - 1 \in Int /\ 0 <= (n - 1) + 1 /\ n - 1 <= array_size - 1
      BY <1>0
    <3> QED BY <1>0, <2>2, <3>1, BeginKept
  <2>4. Lo("parent")' = 0 /\ Hi("parent")' = n - 1
    BY <2>2 DEF Lo, Hi
  <2> QED BY <1>0, <2>1, <2>2, <2>3, <2>4 DEF WorkInv
<1>2. CASE Fork
  <2>1. PcInv'
    BY <1>0, <1>2 DEF Fork, PcInv
  <2>2. /\ \A p \in Proc : ~Busy(mem[p])
        /\ todo'["parent"] = <<Sort(Middle + 1, n - 1)>> /\ pc'["parent"] = "half"
        /\ pc'["child"] = "none" \/ (pc'["child"] = "half" /\ todo'["child"] = <<Sort(0, Middle)>>)
        /\ UNCHANGED <<mem, array_size>>
    BY <1>0, <1>2 DEF Fork, PcInv, LeftHalf
  <2>3. /\ Calls(mem["parent"], <<Sort(Middle + 1, n - 1)>>, n, Middle + 1, n - 1)
        /\ Calls(mem["child"], <<Sort(0, Middle)>>, n, 0, Middle)
    <3>1. /\ Middle + 1 \in Nat /\ n - 1 \in Int /\ Middle + 1 <= (n - 1) + 1 /\ n - 1 <= array_size - 1
          /\ 0 \in Nat /\ Middle \in Int /\ 0 <= Middle + 1 /\ Middle <= array_size - 1
      BY <1>0
    <3> QED BY <1>0, <2>2, <3>1, BeginKept
  <2>4. Lo("parent")' = Middle + 1 /\ Hi("parent")' = n - 1 /\ Lo("child")' = 0 /\ Hi("child")' = Middle
    BY <2>2 DEF Lo, Hi, Middle
  <2> QED BY <1>0, <2>1, <2>2, <2>3, <2>4 DEF WorkInv
<1>3. ASSUME NEW p \in Proc, Sorts(p) PROVE PcInv' /\ WorkInv'
  <2>1. pc[p] \in {"half", "last"}
    BY <1>3 DEF Sorts, MSort, CallMerge, MergeStep, Idle
  <2>2. Calls(mem[p], todo[p], n, Lo(p), Hi(p))
    BY <1>0, <2>1 DEF WorkInv
  <2>3. /\ Calls(mem'[p], todo'[p], n, Lo(p), Hi(p))
        /\ \A q \in Proc \ {p} : mem'[q] = mem[q] /\ todo'[q] = todo[q]
        /\ UNCHANGED <<program, array_size, input, pc, pipe, failed>>
    BY <1>0, <1>3, <2>2, TurnKept
  <2>4. \A q \in Proc : Lo(q)' = Lo(q) /\ Hi(q)' = Hi(q)
    BY <2>3 DEF Lo, Hi, Middle
  <2>5. WorkInv'
    BY <1>0, <2>3, <2>4 DEF WorkInv
  <2>6. pc["parent"] # "mergeSort"
    BY <1>0, <2>1 DEF PcInv
  <2>7. PcInv'
    BY <1>0, <2>3, <2>6 DEF PcInv
  <2> QED BY <2>5, <2>7
<1>4. CASE ChildWrites
  <2>1. /\ pc["child"] = "half" /\ pc' = [pc EXCEPT !["child"] = "ended"]
        /\ UNCHANGED <<program, array_size, input, mem, todo, failed>>
    BY <1>4 DEF ChildWrites
  <2>2. pc["parent"] # "mergeSort"
    BY <1>0, <2>1 DEF PcInv
  <2>3. PcInv'
    BY <1>0, <2>1, <2>2 DEF PcInv
  <2>4. pc'["parent"] = pc["parent"] /\ pc'["child"] = "ended"
    BY <1>0, <2>1 DEF PcInv
  <2>5. Lo("parent")' = Lo("parent") /\ Hi("parent")' = Hi("parent")
    BY <2>1, <2>4 DEF Lo, Hi, Middle
  <2> QED BY <1>0, <2>1, <2>3, <2>4, <2>5 DEF WorkInv
<1>5. CASE ParentReads
  <2>1. /\ pc["parent"] = "half" /\ pc' = [pc EXCEPT !["parent"] = "last"]
        /\ todo'["parent"] = <<MergeOf(0, Middle + 1, n - 1)>> /\ todo'["child"] = todo["child"]
        /\ UNCHANGED <<program, array_size, input, failed>>
    BY <1>0, <1>5 DEF ParentReads
  <2>2. PcInv'
    BY <1>0, <2>1 DEF PcInv
  <2>3. pc'["parent"] = "last" /\ pc'["child"] = pc["child"]
    BY <1>0, <2>1 DEF PcInv
  <2>4. mem'["child"] = mem["child"] /\ mem'["parent"] \in Memory(n) /\ ~Busy(mem'["parent"])
    BY <1>5, ReadEffect
  <2>5. Calls(mem'["parent"], <<MergeOf(0, Middle + 1, n - 1)>>, n, 0, n - 1)
    BY <2>4, LastCall
  <2>6. Lo("child")' = Lo("child") /\ Hi("child")' = Hi("child") /\ Lo("parent")' = 0 /\ Hi("parent")' = n - 1
    BY <2>1, <2>3 DEF Lo, Hi, Middle
  <2> QED BY <1>0, <2>1, <2>2, <2>3, <2>4, <2>5, <2>6 DEF WorkInv
<1>6. CASE ParentEnds
  <2>1. /\ pc["parent"] = "last" /\ pc' = [pc EXCEPT !["parent"] = "end"]
        /\ UNCHANGED <<program, array_size, input, mem, todo, pipe, failed>>
    BY <1>6 DEF ParentEnds
  <2>2. PcInv'
    BY <1>0, <2>1 DEF PcInv
  <2>3. pc'["parent"] = "end" /\ pc'["child"] = pc["child"]
    BY <1>0, <2>1 DEF PcInv
  <2>4. Lo("child")' = Lo("child") /\ Hi("child")' = Hi("child")
    BY <2>1, <2>3 DEF Lo, Hi, Middle
  <2> QED BY <1>0, <2>1, <2>2, <2>3, <2>4 DEF WorkInv
<1>7. CASE KillChild
  <2>1. /\ pc["child"] = "half" /\ pc' = [pc EXCEPT !["child"] = "dead"]
        /\ UNCHANGED <<program, array_size, input, mem, todo, pipe>>
    BY <1>7 DEF KillChild
  <2>2. pc["parent"] # "mergeSort"
    BY <1>0, <2>1 DEF PcInv
  <2>3. PcInv'
    BY <1>0, <2>1, <2>2 DEF PcInv
  <2>4. pc'["parent"] = pc["parent"] /\ pc'["child"] = "dead"
    BY <1>0, <2>1 DEF PcInv
  <2>5. Lo("parent")' = Lo("parent") /\ Hi("parent")' = Hi("parent")
    BY <2>1, <2>4 DEF Lo, Hi, Middle
  <2> QED BY <1>0, <2>1, <2>3, <2>4, <2>5 DEF WorkInv
<1>8. CASE UNCHANGED vars
  <2>1. UNCHANGED <<array_size, input, pc, mem, todo, pipe>>
    BY <1>8 DEF vars
  <2>2. \A q \in Proc : Lo(q)' = Lo(q) /\ Hi(q)' = Hi(q)
    BY <2>1 DEF Lo, Hi, Middle
  <2>3. WorkInv'
    BY <1>0, <2>1, <2>2 DEF WorkInv
  <2>4. PcInv'
    BY <1>0, <2>1 DEF PcInv, Item
  <2> QED BY <2>3, <2>4
<1> QED BY <1>0, <1>1, <1>2, <1>3, <1>4, <1>5, <1>6, <1>7, <1>8 DEF Next, Parent, Child

\* The invariant of the two properties about single turns.
LEMMA TurnInvHolds == Spec => []TurnInv
<1>1. Init => TurnInv
  BY BoundsInit, PcInit DEF TurnInv
<1>2. TurnInv /\ [Next]_vars => TurnInv'
  BY BoundsNext, TurnNext DEF TurnInv
<1> QED BY <1>1, <1>2, PTL DEF Spec

\* The turn too many of merge() writes a cell of the call above, or the cell
\* before the array: no element the process is there to sort changes outside
\* the range that is merged.
THEOREM OtherHalfKeptHolds == Spec => OtherHalfKept
<1>1. TurnInv /\ [Next]_vars =>
        [\A p \in Proc : MergeStep(p) =>
           \A c \in Own(p) \ Range0(mem[p]) : mem'[p].numbers[c] = mem[p].numbers[c]]_vars
  <2> SUFFICES ASSUME TurnInv, NEW p \in Proc, MergeStep(p), NEW c \in Own(p) \ Range0(mem[p])
               PROVE  mem'[p].numbers[c] = mem[p].numbers[c]
    OBVIOUS
  <2> DEFINE m == mem[p]
             n == array_size
  <2>1. Busy(m) /\ mem'[p] = Step(m) /\ pc[p] \in {"half", "last"}
    BY DEF MergeStep, TurnInv, BoundsInv
  <2>2. Calls(m, todo[p], n, Lo(p), Hi(p)) /\ MergeOK(m, n) /\ n \in Nat /\ m \in Memory(n)
    BY <2>1 DEF TurnInv, WorkInv, BoundsInv
  <2>3. c \in Lo(p) .. Hi(p)
    BY OwnBounds DEF TurnInv
  <2>4. Range0(m) = First(m) .. Final(m)
    <3>0. m.right \in Int /\ m.i \in Int /\ m.num_elements \in Int
      BY <2>2 DEF Memory
    <3>1. Copying(m) \/ m.i = 0
      BY <2>1, <2>2 DEF MergeOK, Busy
    <3> HIDE DEF m
    <3> QED BY <3>0, <3>1 DEF Range0, First, Final
  <2>5. c \notin First(m) .. Final(m)
    BY <2>4
  <2> HIDE DEF m, n
  <2>6. Step(m).numbers[c] = m.numbers[c]
    BY ONLY <2>1, <2>2, <2>3, <2>5, OthersKept
  <2> QED BY <2>1, <2>6 DEF m
<1> QED BY <1>1, TurnInvHolds, PTL DEF Spec, OtherHalfKept

-------------------------------------------------------------------------------
(* The result.                                                             *)

\* The numbers on lo .. hi are those that were filled in there.
SameNumbers(f, lo, hi) == \A v : CountIn(f, lo .. hi, v) = CountIn(input, lo .. hi, v)

Whole(m, lo, hi) == \A v : Counted(m, v) /\ Held(m, lo, hi, v) = CountIn(input, lo .. hi, v)

\* The last merge() of the parent finds the child's half sorted if nothing failed.
Sane(p) == pc[p] = "half" \/ (pc[p] = "last" /\ ~failed)

OrderInv ==
  \A p \in Proc : Sane(p) =>
    InOrder(mem[p], todo[p], Lo(p), Hi(p)) /\ Whole(mem[p], Lo(p), Hi(p))

PipeInv ==
  /\ pipe # << >> => Sorted(Head(pipe), 0, Middle) /\ SameNumbers(Head(pipe), 0, Middle)
  /\ pc["parent"] = "half" /\ ~failed =>
       \/ pc["child"] = "half" /\ pipe = << >>
       \/ pc["child"] = "ended" /\ pipe # << >>

EndInv ==
  pc["parent"] = "end" /\ ~failed =>
    /\ Sorted(mem["parent"].numbers, 0, array_size - 1)
    /\ SameNumbers(mem["parent"].numbers, 0, array_size - 1)

SortInv == OrderInv /\ PipeInv /\ EndInv

\* Outside merge() numbers[] holds everything.
LEMMA IdleWhole ==
  ASSUME NEW m, ~Busy(m), NEW lo, NEW hi
  PROVE  Whole(m, lo, hi) <=> SameNumbers(m.numbers, lo, hi)
<1>1. ~Copying(m) /\ ~Merging(m)
  BY DEF Busy
<1> QED BY <1>1 DEF Whole, Counted, Held, SameNumbers

\* Before fork() the numbers are those that were filled in.
LEMMA UntouchedWhole ==
  ASSUME TurnInv, pc["parent"] = "mergeSort", NEW p \in Proc,
         NEW lo \in Nat, NEW hi \in Int, hi <= array_size - 1
  PROVE  Whole(mem[p], lo, hi)
<1>1. ~Busy(mem[p]) /\ \A c \in Item : mem[p].numbers[c] = input[c]
  BY DEF TurnInv, PcInv
<1>2. \A c \in lo .. hi : c \in Item
  BY DEF Item, TurnInv, BoundsInv
<1>3. \A c \in lo .. hi : mem[p].numbers[c] = input[c]
  BY <1>1, <1>2
<1>4. SameNumbers(mem[p].numbers, lo, hi)
  BY <1>3, CountSame DEF SameNumbers
<1> QED BY <1>1, <1>4, IdleWhole

\* A half that is done.
LEMMA HalfDone ==
  ASSUME TurnInv, OrderInv, NEW p \in Proc, Sane(p), Idle(p), todo[p] = << >>
  PROVE  Sorted(mem[p].numbers, Lo(p), Hi(p)) /\ SameNumbers(mem[p].numbers, Lo(p), Hi(p))
<1>1. InOrder(mem[p], << >>, Lo(p), Hi(p)) /\ Whole(mem[p], Lo(p), Hi(p)) /\ ~Busy(mem[p])
  BY DEF OrderInv, Idle
<1>2. SameNumbers(mem[p].numbers, Lo(p), Hi(p))
  BY <1>1, IdleWhole
<1>3. array_size \in Nat
  BY DEF TurnInv, BoundsInv
<1> QED BY <1>1, <1>2, <1>3, NoCallLeft

\* The two halves have all numbers.
LEMMA HalvesWhole ==
  ASSUME NEW n \in Nat, NEW k \in Nat, k <= n - 1, NEW f,
         SameNumbers(f, 0, k), SameNumbers(f, k + 1, n - 1)
  PROVE  SameNumbers(f, 0, n - 1)
<1> SUFFICES ASSUME NEW v PROVE CountIn(f, 0 .. n - 1, v) = CountIn(input, 0 .. n - 1, v)
  BY DEF SameNumbers
<1>1. (0 .. n - 1) \ (0 .. k) = k + 1 .. n - 1
  OBVIOUS
<1>2. /\ CountIn(f, 0 .. n - 1, v) = CountIn(f, 0 .. k, v) + CountIn(f, (0 .. n - 1) \ (0 .. k), v)
      /\ CountIn(input, 0 .. n - 1, v) = CountIn(input, 0 .. k, v) + CountIn(input, (0 .. n - 1) \ (0 .. k), v)
  <2>1. 0 \in Int /\ n - 1 \in Int /\ k \in Int /\ 0 <= 0 /\ k <= n - 1
    OBVIOUS
  <2> QED BY ONLY <2>1, CountOwned
<1>3. /\ CountIn(f, 0 .. k, v) = CountIn(input, 0 .. k, v)
      /\ CountIn(f, k + 1 .. n - 1, v) = CountIn(input, k + 1 .. n - 1, v)
  BY DEF SameNumbers
<1> QED BY <1>1, <1>2, <1>3

LEMMA SortInit == Init => SortInv
BY DEF Init, SortInv, OrderInv, PipeInv, EndInv, Sane, Proc

\* Every step of the program keeps the order and the numbers.
LEMMA SortNext == TurnInv /\ TurnInv' /\ SortInv /\ [Next]_vars => SortInv'
<1> SUFFICES ASSUME TurnInv, TurnInv', SortInv, [Next]_vars PROVE SortInv'
  OBVIOUS
<1> DEFINE n == array_size
<1>0. /\ BoundsInv /\ PcInv /\ WorkInv /\ n \in Nat /\ todo \in [Proc -> Seq(Task(n))]
      /\ Middle \in Nat /\ Middle <= n - 1 /\ Middle + 1 \in Nat /\ "parent" \in Proc /\ "child" \in Proc
      /\ \A p \in Proc : p = "parent" \/ p = "child"
      /\ OrderInv /\ PipeInv /\ EndInv
  BY OwnBounds DEF TurnInv, BoundsInv, Proc, SortInv
<1>1. CASE SortAlone
  <2>1. /\ todo'["parent"] = <<Sort(0, n - 1)>> /\ pc["parent"] = "mergeSort"
        /\ pc'["parent"] = "last" /\ pc'["child"] = "none" /\ pipe = << >>
        /\ ~Busy(mem["parent"]) /\ UNCHANGED <<mem, array_size, input, pipe, failed>>
    BY <1>0, <1>1 DEF SortAlone, PcInv
  <2>2. InOrder(mem["parent"], <<Sort(0, n - 1)>>, 0, n - 1) /\ Whole(mem["parent"], 0, n - 1)
    <3>1. 0 \in Nat /\ n - 1 \in Int /\ 0 <= (n - 1) + 1 /\ n - 1 <= array_size - 1
      BY <1>0
    <3> QED BY <1>0, <2>1, <3>1, BeginKept, UntouchedWhole
  <2>3. Lo("parent")' = 0 /\ Hi("parent")' = n - 1
    BY <2>1 DEF Lo, Hi
  <2>4. Whole(mem["parent"], 0, n - 1)'
    BY <2>1, <2>2 DEF Whole
  <2>5. OrderInv'
    BY <1>0, <2>1, <2>2, <2>3, <2>4 DEF OrderInv, Sane
  <2> QED BY <2>1, <2>5 DEF SortInv, PipeInv, EndInv
<1>2. CASE Fork
  <2>1. /\ pc["parent"] = "mergeSort" /\ pipe = << >>
        /\ \A p \in Proc : ~Busy(mem[p])
        /\ todo'["parent"] = <<Sort(Middle + 1, n - 1)>> /\ pc'["parent"] = "half"
        /\ (pc'["child"] = "none" /\ failed') \/ (pc'["child"] = "half" /\ todo'["child"] = <<Sort(0, Middle)>>)
        /\ UNCHANGED <<mem, array_size, input, pipe>>
    BY <1>0, <1>2 DEF Fork, PcInv, LeftHalf
  <2>2. /\ InOrder(mem["parent"], <<Sort(Middle + 1, n - 1)>>, Middle + 1, n - 1)
        /\ Whole(mem["parent"], Middle + 1, n - 1)
        /\ InOrder(mem["child"], <<Sort(0, Middle)>>, 0, Middle)
        /\ Whole(mem["child"], 0, Middle)
    <3>1. /\ Middle + 1 \in Nat /\ n - 1 \in Int /\ Middle + 1 <= (n - 1) + 1 /\ n - 1 <= array_size - 1
          /\ 0 \in Nat /\ Middle \in Int /\ 0 <= Middle + 1 /\ Middle <= array_size - 1
      BY <1>0
    <3> QED BY <1>0, <2>1, <3>1, BeginKept, UntouchedWhole
  <2>3. Lo("parent")' = Middle + 1 /\ Hi("parent")' = n - 1 /\ Lo("child")' = 0 /\ Hi("child")' = Middle
    BY <2>1 DEF Lo, Hi, Middle
  <2>4. Whole(mem["parent"], Middle + 1, n - 1)' /\ Whole(mem["child"], 0, Middle)'
    BY <2>1, <2>2 DEF Whole, Middle
  <2>5. OrderInv'
    BY <1>0, <2>1, <2>2, <2>3, <2>4 DEF OrderInv, Sane, Middle
  <2> QED BY <2>1, <2>5 DEF SortInv, PipeInv, EndInv
<1>3. ASSUME NEW p \in Proc, Sorts(p) PROVE SortInv'
  <2>1. pc[p] \in {"half", "last"}
    BY <1>3 DEF Sorts, MSort, CallMerge, MergeStep, Idle
  <2>2. Calls(mem[p], todo[p], n, Lo(p), Hi(p))
    BY <1>0, <2>1 DEF WorkInv
  <2>3. /\ Calls(mem'[p], todo'[p], n, Lo(p), Hi(p))
        /\ InOrder(mem[p], todo[p], Lo(p), Hi(p)) => InOrder(mem'[p], todo'[p], Lo(p), Hi(p))
        /\ \A v : Counted(mem[p], v) =>
             Counted(mem'[p], v) /\ Held(mem'[p], Lo(p), Hi(p), v) = Held(mem[p], Lo(p), Hi(p), v)
        /\ \A q \in Proc \ {p} : mem'[q] = mem[q] /\ todo'[q] = todo[q]
        /\ UNCHANGED <<program, array_size, input, pc, pipe, failed>>
    BY <1>0, <1>3, <2>2, TurnKept
  <2>4. \A q \in Proc : Lo(q)' = Lo(q) /\ Hi(q)' = Hi(q) /\ (Sane(q)' <=> Sane(q))
    BY <2>3 DEF Lo, Hi, Middle, Sane
  <2>5. ASSUME NEW q \in Proc, Sane(q)
        PROVE  InOrder(mem'[q], todo'[q], Lo(q), Hi(q)) /\ Whole(mem[q], Lo(q), Hi(q))'
    <3>1. InOrder(mem[q], todo[q], Lo(q), Hi(q)) /\ Whole(mem[q], Lo(q), Hi(q))
      BY <1>0, <2>5 DEF OrderInv
    <3>2. \A v : Counted(mem'[q], v) /\ Held(mem'[q], Lo(q), Hi(q), v) = CountIn(input, Lo(q) .. Hi(q), v)
      BY <2>3, <3>1 DEF Whole
    <3>3. Whole(mem[q], Lo(q), Hi(q))'
      BY <2>3, <2>4, <3>2 DEF Whole
    <3> QED BY <2>3, <3>1, <3>3
  <2>6. OrderInv'
    BY <2>4, <2>5 DEF OrderInv
  <2>7. PipeInv'
    BY <1>0, <2>3 DEF PipeInv, SameNumbers, Middle
  <2>8. EndInv'
    <3>1. p = "parent" => pc["parent"] # "end"
      BY <2>1
    <3>2. p # "parent" => mem'["parent"] = mem["parent"]
      BY <1>0, <2>3
    <3> QED BY <1>0, <2>3, <3>1, <3>2 DEF EndInv, SameNumbers
  <2> QED BY <2>6, <2>7, <2>8 DEF SortInv
<1>4. CASE ChildWrites
  <2> DEFINE m == mem["child"]
             a == [c \in 0 .. Middle |-> m.numbers[c]]
  <2>1. /\ pc["child"] = "half" /\ pc' = [pc EXCEPT !["child"] = "ended"] /\ pipe' = <<a>>
        /\ Idle("child") /\ todo["child"] = << >>
        /\ UNCHANGED <<program, array_size, input, mem, todo, failed>>
    BY <1>4 DEF ChildWrites
  <2>2. pc'["parent"] = pc["parent"] /\ pc'["child"] = "ended"
    BY <1>0, <2>1 DEF PcInv
  <2>3. Sorted(m.numbers, 0, Middle) /\ SameNumbers(m.numbers, 0, Middle)
    <3>1. Sane("child") /\ Lo("child") = 0 /\ Hi("child") = Middle
      BY <2>1 DEF Sane, Lo, Hi
    <3> QED BY <1>0, <2>1, <3>1, HalfDone
  <2>4. \A c \in 0 .. Middle : a[c] = m.numbers[c]
    OBVIOUS
  <2> HIDE DEF a, m
  <2>5. Sorted(a, 0, Middle)
    BY <2>3, <2>4 DEF Sorted
  <2>6. SameNumbers(a, 0, Middle)
    <3>1. \A v : CountIn(a, 0 .. Middle, v) = CountIn(m.numbers, 0 .. Middle, v)
      <4> DEFINE S == 0 .. Middle
      <4>1. \A c \in S : a[c] = m.numbers[c]
        BY <2>4
      <4> HIDE DEF S
      <4>2. \A v : CountIn(a, S, v) = CountIn(m.numbers, S, v)
        BY ONLY <4>1, CountSame
      <4> QED BY <4>2 DEF S
    <3> QED BY <2>3, <3>1 DEF SameNumbers
  <2>7. Head(pipe') = a /\ pipe' # << >> /\ Middle' = Middle
    BY <2>1 DEF Middle
  <2>8. SameNumbers(Head(pipe), 0, Middle)'
    BY <2>1, <2>6, <2>7 DEF SameNumbers
  <2>9. PipeInv'
    BY <2>2, <2>5, <2>7, <2>8 DEF PipeInv
  <2>10. Lo("parent")' = Lo("parent") /\ Hi("parent")' = Hi("parent") /\ (Sane("parent")' <=> Sane("parent"))
         /\ ~Sane("child")'
    BY <2>1, <2>2 DEF Lo, Hi, Middle, Sane
  <2>11. Whole(mem["parent"], Lo("parent"), Hi("parent"))' <=> Whole(mem["parent"], Lo("parent"), Hi("parent"))
    BY <2>1, <2>10 DEF Whole
  <2>12. OrderInv'
    BY <1>0, <2>1, <2>10, <2>11 DEF OrderInv
  <2>13. EndInv'
    BY <1>0, <2>1, <2>2 DEF EndInv, SameNumbers
  <2> QED BY <2>9, <2>12, <2>13 DEF SortInv
<1>5. CASE ParentReads
  <2> DEFINE m == mem["parent"]
             r == mem'["parent"]
  <2>1. /\ pc["parent"] = "half" /\ pc' = [pc EXCEPT !["parent"] = "last"] /\ pipe' = << >>
        /\ todo'["parent"] = <<MergeOf(0, Middle + 1, n - 1)>> /\ todo'["child"] = todo["child"]
        /\ Idle("parent") /\ todo["parent"] = << >>
        /\ UNCHANGED <<program, array_size, input, failed>>
    BY <1>0, <1>5 DEF ParentReads
  <2>2. pc'["parent"] = "last" /\ pc'["child"] = pc["child"]
    BY <1>0, <2>1 DEF PcInv
  <2>3. /\ r \in Memory(n) /\ ~Busy(r) /\ mem'["child"] = mem["child"]
        /\ pipe # << >> => \A c \in 0 .. Middle : r.numbers[c] = Head(pipe)[c]
        /\ \A c \in Middle + 1 .. n - 1 : r.numbers[c] = m.numbers[c]
    BY <1>5, ReadEffect
  <2>4. Sorted(m.numbers, Middle + 1, n - 1) /\ SameNumbers(m.numbers, Middle + 1, n - 1)
    <3>1. Sane("parent") /\ Lo("parent") = Middle + 1 /\ Hi("parent") = n - 1
      BY <2>1 DEF Sane, Lo, Hi
    <3> QED BY <1>0, <2>1, <3>1, HalfDone
  <2> HIDE DEF r, m
  <2>5. Sorted(r.numbers, Middle + 1, n - 1) /\ SameNumbers(r.numbers, Middle + 1, n - 1)
    <3>1. Sorted(r.numbers, Middle + 1, n - 1)
      BY <2>3, <2>4 DEF Sorted
    <3>2. \A v : CountIn(r.numbers, Middle + 1 .. n - 1, v) = CountIn(m.numbers, Middle + 1 .. n - 1, v)
      <4> DEFINE S == Middle + 1 .. n - 1
      <4>1. \A c \in S : r.numbers[c] = m.numbers[c]
        BY <2>3
      <4> HIDE DEF S
      <4>2. \A v : CountIn(r.numbers, S, v) = CountIn(m.numbers, S, v)
        BY ONLY <4>1, CountSame
      <4> QED BY <4>2 DEF S
    <3> QED BY <2>4, <3>1, <3>2 DEF SameNumbers
  <2>6. ASSUME ~failed
        PROVE  InOrder(r, <<MergeOf(0, Middle + 1, n - 1)>>, 0, n - 1) /\ Whole(r, 0, n - 1)
    <3>1. pipe # << >> /\ Sorted(Head(pipe), 0, Middle) /\ SameNumbers(Head(pipe), 0, Middle)
      <4>1. pipe # << >>
        BY <1>0, <2>1, <2>6, <1>5 DEF PipeInv, ParentReads, PipeEof
      <4> QED BY <1>0, <4>1 DEF PipeInv
    <3> DEFINE a == Head(pipe)
    <3>2. \A c \in 0 .. Middle : r.numbers[c] = a[c]
      BY <2>3, <3>1
    <3> HIDE DEF a
    <3>3. Sorted(r.numbers, 0, Middle)
      BY <3>1, <3>2 DEF Sorted, a
    <3>4. \A v : CountIn(r.numbers, 0 .. Middle, v) = CountIn(a, 0 .. Middle, v)
      <4> DEFINE S == 0 .. Middle
      <4>1. \A c \in S : r.numbers[c] = a[c]
        BY <3>2
      <4> HIDE DEF S
      <4>2. \A v : CountIn(r.numbers, S, v) = CountIn(a, S, v)
        BY ONLY <4>1, CountSame
      <4> QED BY <4>2 DEF S
    <3>5. SameNumbers(r.numbers, 0, Middle)
      BY <3>1, <3>4 DEF SameNumbers, a
    <3>6. SameNumbers(r.numbers, 0, n - 1)
      BY <1>0, <2>5, <3>5, HalvesWhole
    <3> QED BY <2>3, <2>5, <3>3, <3>6, LastCall, IdleWhole
  <2>7. /\ Lo("child")' = Lo("child") /\ Hi("child")' = Hi("child") /\ (Sane("child")' <=> Sane("child"))
        /\ Lo("parent")' = 0 /\ Hi("parent")' = n - 1 /\ (Sane("parent")' <=> ~failed)
    BY <2>1, <2>2 DEF Lo, Hi, Middle, Sane
  <2>8. /\ Whole(mem["child"], Lo("child"), Hi("child"))' <=> Whole(mem["child"], Lo("child"), Hi("child"))
        /\ Whole(mem["parent"], Lo("parent"), Hi("parent"))' <=> Whole(r, 0, n - 1)
    BY <2>1, <2>3, <2>7 DEF Whole, r
  <2>9. OrderInv'
    <3>1. ASSUME Sane("child")' PROVE (InOrder(mem["child"], todo["child"], Lo("child"), Hi("child"))
                                       /\ Whole(mem["child"], Lo("child"), Hi("child")))'
      BY <1>0, <2>1, <2>3, <2>7, <2>8, <3>1 DEF OrderInv
    <3>2. ASSUME Sane("parent")' PROVE (InOrder(mem["parent"], todo["parent"], Lo("parent"), Hi("parent"))
                                        /\ Whole(mem["parent"], Lo("parent"), Hi("parent")))'
      BY <2>1, <2>6, <2>7, <2>8, <3>2 DEF r
    <3> QED BY <1>0, <3>1, <3>2 DEF OrderInv
  <2>10. PipeInv' /\ EndInv'
    BY <2>1, <2>2 DEF PipeInv, EndInv
  <2> QED BY <2>9, <2>10 DEF SortInv
<1>6. CASE ParentEnds
  <2>1. /\ pc["parent"] = "last" /\ pc' = [pc EXCEPT !["parent"] = "end"]
        /\ Idle("parent") /\ todo["parent"] = << >>
        /\ UNCHANGED <<program, array_size, input, mem, todo, pipe, failed>>
    BY <1>6 DEF ParentEnds
  <2>2. pc'["parent"] = "end" /\ pc'["child"] = pc["child"]
    BY <1>0, <2>1 DEF PcInv
  <2>3. ~failed => Sorted(mem["parent"].numbers, 0, n - 1) /\ SameNumbers(mem["parent"].numbers, 0, n - 1)
    <3>1. Lo("parent") = 0 /\ Hi("parent") = n - 1 /\ (~failed => Sane("parent"))
      BY <2>1 DEF Sane, Lo, Hi
    <3> QED BY <1>0, <2>1, <3>1, HalfDone
  <2>4. EndInv'
    BY <2>1, <2>3 DEF EndInv, SameNumbers
  <2>5. Lo("child")' = Lo("child") /\ Hi("child")' = Hi("child") /\ (Sane("child")' <=> Sane("child"))
        /\ ~Sane("parent")'
    BY <2>1, <2>2 DEF Lo, Hi, Middle, Sane
  <2>6. Whole(mem["child"], Lo("child"), Hi("child"))' <=> Whole(mem["child"], Lo("child"), Hi("child"))
    BY <2>1, <2>5 DEF Whole
  <2>7. OrderInv'
    BY <1>0, <2>1, <2>5, <2>6 DEF OrderInv
  <2>8. PipeInv'
    BY <1>0, <2>1, <2>2 DEF PipeInv, SameNumbers, Middle
  <2> QED BY <2>4, <2>7, <2>8 DEF SortInv
<1>7. CASE KillChild
  <2>1. /\ pc["child"] = "half" /\ pc' = [pc EXCEPT !["child"] = "dead"] /\ failed'
        /\ UNCHANGED <<program, array_size, input, mem, todo, pipe>>
    BY <1>7 DEF KillChild
  <2>2. pc'["parent"] = pc["parent"] /\ pc'["child"] = "dead"
    BY <1>0, <2>1 DEF PcInv
  <2>3. Lo("parent")' = Lo("parent") /\ Hi("parent")' = Hi("parent") /\ (Sane("parent")' => Sane("parent"))
        /\ ~Sane("child")'
    BY <2>1, <2>2 DEF Lo, Hi, Middle, Sane
  <2>4. Whole(mem["parent"], Lo("parent"), Hi("parent"))' <=> Whole(mem["parent"], Lo("parent"), Hi("parent"))
    BY <2>1, <2>3 DEF Whole
  <2>5. OrderInv'
    BY <1>0, <2>1, <2>3, <2>4 DEF OrderInv
  <2>6. PipeInv' /\ EndInv'
    BY <1>0, <2>1 DEF PipeInv, EndInv, SameNumbers, Middle
  <2> QED BY <2>5, <2>6 DEF SortInv
<1>8. CASE UNCHANGED vars
  <2>1. UNCHANGED <<array_size, input, pc, mem, todo, pipe, failed>>
    BY <1>8 DEF vars
  <2>2. \A q \in Proc : Lo(q)' = Lo(q) /\ Hi(q)' = Hi(q) /\ (Sane(q)' <=> Sane(q))
    BY <2>1 DEF Lo, Hi, Middle, Sane
  <2>3. \A q \in Proc : Whole(mem[q], Lo(q), Hi(q))' <=> Whole(mem[q], Lo(q), Hi(q))
    BY <2>1, <2>2 DEF Whole
  <2>4. OrderInv'
    BY <1>0, <2>1, <2>2, <2>3 DEF OrderInv
  <2>5. PipeInv' /\ EndInv'
    BY <1>0, <2>1 DEF PipeInv, EndInv, SameNumbers, Middle
  <2> QED BY <2>4, <2>5 DEF SortInv
<1> QED BY <1>0, <1>1, <1>2, <1>3, <1>4, <1>5, <1>6, <1>7, <1>8 DEF Next, Parent, Child

\* Both programs print the numbers they were filled with, in order, whatever the
\* size of the array and the speed of the two processes, if fork() worked and the
\* child was left to end.
THEOREM SortedAtEndHolds == Spec => []SortedAtEnd
<1>1. Init => SortInv
  BY SortInit
<1>2. TurnInv /\ TurnInv' /\ SortInv /\ [Next]_vars => SortInv'
  BY SortNext
<1>3. TurnInv /\ SortInv => SortedAtEnd
  <2> SUFFICES ASSUME TurnInv, SortInv, pc["parent"] = "end", ~failed
               PROVE  LET out == mem["parent"].numbers IN
                      /\ \A c, d \in Item : c < d => out[c] <= out[d]
                      /\ \A v \in Values : Count(out, v) = Count(input, v)
    BY DEF SortedAtEnd
  <2> DEFINE out == mem["parent"].numbers
  <2>1. Sorted(out, 0, array_size - 1) /\ SameNumbers(out, 0, array_size - 1)
    BY DEF SortInv, EndInv
  <2>2. ASSUME NEW c \in Item, NEW d \in Item, c < d PROVE out[c] <= out[d]
    <3>1. c <= d
      BY <2>2 DEF Item, TurnInv, BoundsInv
    <3> QED BY <2>1, <3>1 DEF Sorted, Item
  <2>3. \A v \in Values : Count(out, v) = Count(input, v)
    BY <2>1 DEF SameNumbers, CountIn, Count, Item
  <2> QED BY <2>2, <2>3
<1> QED BY <1>1, <1>2, <1>3, TurnInvHolds, PTL DEF Spec

-------------------------------------------------------------------------------
(* The result when fork() failed or the child was killed: the parent merges    *)
(* its own copy of the left half, which nobody has sorted.                     *)

Lost == [input EXCEPT ![Middle] = 0]

\* The failure leaves the pipe empty.
FailInv ==
  /\ failed => pc["parent"] # "mergeSort" /\ pc["child"] \in {"none", "dead"}
  /\ pc["child"] \in {"none", "half", "dead"} => pipe = << >>
  /\ pc["child"] = "half" => pc["parent"] = "half"

\* Until the parent has sorted its half, temp[] is still zero on the other one and
\* only the last element there may have been overwritten with that.
LeftInv ==
  pc["parent"] \in {"mergeSort", "half"} =>
    /\ \A c \in 0 .. Middle : mem["parent"].temp[c] = 0
    /\ \A c \in 0 .. Middle - 1 : mem["parent"].numbers[c] = input[c]
    /\ mem["parent"].numbers[Middle] \in {input[Middle], 0}

\* The numbers on Item are those of the array b.
WholeOf(m, b) ==
  \A v : Counted(m, v) /\ Held(m, 0, array_size - 1, v) = CountIn(b, 0 .. array_size - 1, v)

RestInv ==
  failed /\ pc["parent"] \in {"last", "end"} =>
    WholeOf(mem["parent"], input) \/ WholeOf(mem["parent"], Lost)

LostInv ==
  /\ input \in [Item -> Values]
  /\ FailInv /\ LeftInv /\ RestInv
  /\ pc["parent"] = "end" => ~Busy(mem["parent"])

\* A turn writes numbers[c] outside its range only from temp[c].
LEMMA StrayEffect ==
  ASSUME NEW n \in Nat, NEW m, MergeOK(m, n), Busy(m), NEW c \in -1 .. n - 1, c \notin First(m) .. Final(m)
  PROVE  Step(m).numbers[c] \in {m.numbers[c], m.temp[c]}
<1> DEFINE r == Step(m)
<1>1. m \in Memory(n) /\ m.numbers \in [-1 .. n - 1 -> Int]
  BY DEF MergeOK, Memory, Array
<1>2. ASSUME r.numbers = m.numbers PROVE r.numbers[c] = m.numbers[c]
  BY <1>2
<1>3. CASE r = TakeLeft(m) /\ m.tmp_pos \in 0 .. n - 1 /\ m.left \in 0 .. n - 1
  BY <1>1, <1>2, <1>3, TakeLeftFields
<1>4. CASE r = TakeRight(m) /\ m.tmp_pos \in 0 .. n - 1 /\ m.mid \in 0 .. n - 1
  BY <1>1, <1>2, <1>4, TakeRightFields
<1>5. CASE r = CopyBack(m) /\ m.right \in -1 .. n - 1
  <2>1. r.numbers = [m.numbers EXCEPT ![m.right] = m.temp[m.right]]
    BY <1>1, <1>5, CopyBackFields
  <2> HIDE DEF r
  <2>2. c = m.right => r.numbers[c] = m.temp[c]
    BY <1>1, <2>1
  <2>3. c # m.right => r.numbers[c] = m.numbers[c]
    BY <1>1, <2>1
  <2> QED BY <2>2, <2>3 DEF r
<1> QED BY <1>3, <1>4, <1>5, Turns

\* The call of merge() that runs is within the elements of the process.
LEMMA WithinOwn ==
  ASSUME NEW m, NEW T, NEW n, NEW lo, NEW hi, Calls(m, T, n, lo, hi), Busy(m)
  PROVE  lo <= First(m) /\ Final(m) <= hi
<1>1. Len(T) \in Nat /\ Begin(m) = 0 /\ 0 \in 0 .. Len(T)
  BY DEF Calls, Begin
<1>2. lo <= Work(m, T)[0].left /\ Work(m, T)[0].right <= hi
  BY <1>1 DEF Calls, InRange
<1>3. Work(m, T)[0] = MergeOf(First(m), m.left_end + 1, Final(m))
  BY <1>1 DEF Work
<1> QED BY <1>2, <1>3 DEF MergeOf

\* What a step of m_sort() or merge() in its own half does to the other half.
LEMMA LeftKept ==
  ASSUME BoundsInv, Sorts("parent"), NEW hi, Calls(mem["parent"], todo["parent"], array_size, Middle + 1, hi),
         NEW c \in 0 .. Middle
  PROVE  /\ mem'["parent"].temp[c] = mem["parent"].temp[c]
         /\ mem'["parent"].numbers[c] \in {mem["parent"].numbers[c], mem["parent"].temp[c]}
         /\ c # Middle => mem'["parent"].numbers[c] = mem["parent"].numbers[c]
<1> DEFINE m == mem["parent"]
           n == array_size
<1>0. /\ n \in Nat /\ mem \in [Proc -> Memory(n)] /\ m \in Memory(n) /\ MergeOK(m, n)
      /\ Middle \in Nat /\ Middle <= n - 1 /\ c \in -1 .. n - 1 /\ c \in Int /\ "parent" \in Proc
  <2>1. "parent" \in Proc
    BY DEF Proc
  <2>2. Middle \in Nat /\ Middle <= n - 1 /\ n \in Nat
    BY <2>1, OwnBounds
  <2> QED BY <2>1, <2>2 DEF BoundsInv
<1>1. CASE MSort("parent")
  BY <1>1 DEF MSort
<1>2. CASE CallMerge("parent")
  <2>1. PICK x, y, z : mem' = [mem EXCEPT !["parent"] = Call(@, x, y, z)]
    BY <1>2 DEF CallMerge
  <2>2. mem'["parent"] = Call(m, x, y, z)
    BY <1>0, <2>1
  <2> HIDE DEF m
  <2>3. Call(m, x, y, z).numbers = m.numbers /\ Call(m, x, y, z).temp = m.temp
    BY <1>0 DEF Call, Memory
  <2> QED BY <2>2, <2>3 DEF m
<1>3. CASE MergeStep("parent")
  <2>1. Busy(m) /\ mem'["parent"] = Step(m)
    BY <1>0, <1>3 DEF MergeStep
  <2>2. Middle + 1 <= First(m) /\ First(m) \in Int /\ Final(m) \in Int
    <3>1. Middle + 1 <= First(m)
      BY <2>1, WithinOwn
    <3> HIDE DEF m
    <3> QED BY <1>0, <3>1 DEF First, Final, Memory
  <2>3. c \notin First(m) .. Final(m) /\ (c # Middle => c # First(m) - 1)
    <3> HIDE DEF m
    <3> QED BY <1>0, <2>2
  <2> HIDE DEF m, n
  <2> QED BY <1>0, <2>1, <2>3, StepEffect, StrayEffect DEF m
<1> QED BY <1>1, <1>2, <1>3 DEF Sorts

\* An array that is the same outside merge() has the same numbers.
LEMMA RestWhole ==
  ASSUME NEW m, ~Busy(m), NEW b
  PROVE  WholeOf(m, b) <=> \A v : CountIn(m.numbers, 0 .. array_size - 1, v) = CountIn(b, 0 .. array_size - 1, v)
<1>1. ~Copying(m) /\ ~Merging(m)
  BY DEF Busy
<1> QED BY <1>1 DEF WholeOf, Counted, Held

\* An array with the left half of b and the numbers of the right half.
LEMMA HalvesOf ==
  ASSUME NEW n \in Nat, n = array_size, NEW k \in Nat, k <= n - 1, NEW f, NEW b,
         \A c \in 0 .. k : f[c] = b[c], \A c \in k + 1 .. n - 1 : b[c] = input[c],
         SameNumbers(f, k + 1, n - 1)
  PROVE  \A v : CountIn(f, 0 .. n - 1, v) = CountIn(b, 0 .. n - 1, v)
<1> SUFFICES ASSUME NEW v PROVE CountIn(f, 0 .. n - 1, v) = CountIn(b, 0 .. n - 1, v)
  OBVIOUS
<1> DEFINE L == 0 .. k
           R == k + 1 .. n - 1
<1>1. (0 .. n - 1) \ (0 .. k) = R
  OBVIOUS
<1>2. /\ CountIn(f, 0 .. n - 1, v) = CountIn(f, L, v) + CountIn(f, (0 .. n - 1) \ L, v)
      /\ CountIn(b, 0 .. n - 1, v) = CountIn(b, L, v) + CountIn(b, (0 .. n - 1) \ L, v)
  <2>1. 0 \in Int /\ n - 1 \in Int /\ k \in Int /\ 0 <= 0 /\ k <= n - 1
    OBVIOUS
  <2> QED BY ONLY <2>1, CountOwned
<1>3. CountIn(f, R, v) = CountIn(input, R, v) /\ (\A c \in L : f[c] = b[c]) /\ (\A c \in R : b[c] = input[c])
  BY DEF SameNumbers
<1>4. (0 .. n - 1) \ L = R
  BY <1>1
<1> HIDE DEF L, R
<1>5. CountIn(f, L, v) = CountIn(b, L, v) /\ CountIn(b, R, v) = CountIn(input, R, v)
  BY ONLY <1>3, CountSame
<1> QED BY <1>2, <1>3, <1>4, <1>5

LEMMA LostFields ==
  ASSUME BoundsInv, input \in [Item -> Values]
  PROVE  /\ Lost[Middle] = 0
         /\ \A c \in Item : c # Middle => Lost[c] = input[c]
         /\ Middle \in Item /\ 0 .. Middle - 1 \subseteq Item /\ Middle \in Nat /\ Middle <= array_size - 1
         /\ array_size \in Nat
<1>1. Middle \in Nat /\ Middle <= array_size - 1 /\ array_size \in Nat
  <2>1. "parent" \in Proc
    BY DEF Proc
  <2> QED BY <2>1, OwnBounds
<1>2. Middle \in Item /\ 0 .. Middle - 1 \subseteq Item
  BY <1>1 DEF Item
<1> QED BY <1>1, <1>2 DEF Lost

LEMMA LostInit == Init => LostInv
<1> SUFFICES ASSUME Init PROVE LostInv
  OBVIOUS
<1>1. array_size \in Nat \ {0} /\ BoundsInv /\ input \in [Item -> Values]
  BY BoundsInit, MergeSortAssumption DEF Init
<1>2. /\ \A c \in 0 .. Middle : c \in Cell /\ c # -1
      /\ \A c \in 0 .. Middle - 1 : c \in 0 .. Middle
      /\ Middle \in 0 .. Middle
  BY <1>1, LostFields DEF Cell
<1>3. mem["parent"] = NoCall([c \in Cell |-> IF c = -1 THEN 0 ELSE input[c]], [c \in Cell |-> 0])
      /\ pc["parent"] = "mergeSort" /\ pc["child"] = "none" /\ pipe = << >> /\ ~failed
  BY DEF Init, Proc
<1>4. LeftInv
  BY <1>2, <1>3 DEF LeftInv, NoCall
<1> QED BY <1>1, <1>3, <1>4 DEF LostInv, FailInv, RestInv

LEMMA LostNext == TurnInv /\ TurnInv' /\ SortInv /\ LostInv /\ [Next]_vars => LostInv'
<1> SUFFICES ASSUME TurnInv, TurnInv', SortInv, LostInv, [Next]_vars PROVE LostInv'
  OBVIOUS
<1> DEFINE n == array_size
           m == mem["parent"]
<1>0. /\ BoundsInv /\ PcInv /\ WorkInv /\ OrderInv /\ n \in Nat /\ "parent" \in Proc /\ "child" \in Proc
      /\ Middle \in Nat /\ Middle <= n - 1 /\ Middle \in Item
      /\ FailInv /\ LeftInv /\ RestInv /\ input \in [Item -> Values]
      /\ pc \in [Proc -> {"mergeSort", "none", "half", "last", "end", "ended", "dead"}]
  BY LostFields DEF TurnInv, SortInv, LostInv, Proc, PcInv
<1>1. /\ UNCHANGED <<array_size, input>>
      /\ input' \in [Item' -> Values] /\ Middle' = Middle /\ Lost' = Lost
  <2>1. UNCHANGED <<array_size, input>>
    BY DEF Next, Parent, Child, Sorts, SortAlone, Fork, MSort, CallMerge, MergeStep, ParentReads,
           ParentEnds, ChildWrites, KillChild, vars
  <2> QED BY <1>0, <2>1 DEF Item, Middle, Lost
<1>2. ASSUME UNCHANGED <<mem, failed>>, pc'["parent"] = pc["parent"], FailInv'
      PROVE  LostInv'
  BY <1>0, <1>1, <1>2 DEF LostInv, LeftInv, RestInv, WholeOf
<1>3. CASE SortAlone
  <2>1. /\ pc["parent"] = "mergeSort" /\ pc["child"] = "none" /\ pipe = << >> /\ ~failed
        /\ UNCHANGED <<failed, pipe>> /\ pc'["parent"] = "last" /\ pc'["child"] = "none"
    BY <1>0, <1>3 DEF SortAlone, PcInv, FailInv
  <2> QED BY <1>1, <2>1 DEF LostInv, FailInv, LeftInv, RestInv
<1>4. CASE Fork
  <2>1. /\ pc["parent"] = "mergeSort" /\ pc["child"] = "none" /\ pipe = << >> /\ ~failed
        /\ UNCHANGED <<mem, pipe>> /\ pc'["parent"] = "half"
        /\ (pc'["child"] = "half" /\ ~failed') \/ (pc'["child"] = "none" /\ failed')
    BY <1>0, <1>4 DEF Fork, PcInv, FailInv
  <2>2. LeftInv'
    BY <1>0, <1>1, <2>1 DEF LeftInv
  <2> QED BY <1>1, <2>1, <2>2 DEF LostInv, FailInv, RestInv
<1>5. ASSUME NEW p \in Proc, Sorts(p) PROVE LostInv'
  <2>1. pc[p] \in {"half", "last"}
    BY <1>5 DEF Sorts, MSort, CallMerge, MergeStep, Idle
  <2>2. Calls(mem[p], todo[p], n, Lo(p), Hi(p))
    BY <1>0, <2>1 DEF WorkInv
  <2>3. /\ \A v : Counted(mem[p], v) =>
             Counted(mem'[p], v) /\ Held(mem'[p], Lo(p), Hi(p), v) = Held(mem[p], Lo(p), Hi(p), v)
        /\ \A q \in Proc \ {p} : mem'[q] = mem[q]
        /\ UNCHANGED <<pc, pipe, failed>>
    BY ZenonT(20), <1>0, <1>5, <2>2, TurnKept
  <2>4. FailInv'
    BY <1>0, <2>3 DEF FailInv
  <2>5. CASE p = "child"
    <3>1. mem'["parent"] = mem["parent"]
      BY <1>0, <2>3, <2>5
    <3> QED BY <1>0, <1>1, <2>3, <2>4, <3>1 DEF LostInv, LeftInv, RestInv, WholeOf
  <2>6. CASE p = "parent" /\ pc["parent"] = "half"
    <3>1. Calls(m, todo["parent"], n, Middle + 1, Hi(p))
      BY <2>2, <2>6 DEF Lo
    <3>2. ASSUME NEW c \in 0 .. Middle
          PROVE  /\ mem'["parent"].temp[c] = m.temp[c]
                 /\ mem'["parent"].numbers[c] \in {m.numbers[c], m.temp[c]}
                 /\ c # Middle => mem'["parent"].numbers[c] = m.numbers[c]
      BY <1>0, <1>5, <2>6, <3>1, LeftKept
    <3>3. /\ Middle \in 0 .. Middle
          /\ \A c \in 0 .. Middle - 1 : c \in 0 .. Middle /\ c # Middle
      BY <1>0
    <3>4. /\ \A c \in 0 .. Middle : m.temp[c] = 0
          /\ \A c \in 0 .. Middle - 1 : m.numbers[c] = input[c]
          /\ m.numbers[Middle] \in {input[Middle], 0}
      BY <1>0, <2>6 DEF LeftInv
    <3> HIDE DEF m
    <3>5. /\ \A c \in 0 .. Middle : mem'["parent"].temp[c] = 0
          /\ \A c \in 0 .. Middle - 1 : mem'["parent"].numbers[c] = input[c]
          /\ mem'["parent"].numbers[Middle] \in {input[Middle], 0}
      BY <3>2, <3>3, <3>4
    <3>6. LeftInv'
      BY <1>1, <3>5 DEF LeftInv
    <3> QED BY <1>1, <2>3, <2>4, <2>6, <3>6 DEF LostInv, RestInv
  <2>7. CASE p = "parent" /\ pc["parent"] = "last"
    <3>1. Lo(p) = 0 /\ Hi(p) = n - 1
      BY <2>7 DEF Lo, Hi
    <3>2. \A b : WholeOf(mem["parent"], b) => \A v :
            Counted(mem'["parent"], v) /\ Held(mem'["parent"], 0, n - 1, v) = CountIn(b, 0 .. n - 1, v)
      BY <2>3, <2>7, <3>1 DEF WholeOf
    <3>3. RestInv'
      BY <1>0, <1>1, <2>3, <2>7, <3>2 DEF RestInv, WholeOf
    <3> QED BY <1>1, <2>3, <2>4, <2>7, <3>3 DEF LostInv, LeftInv
  <2> QED BY <1>0, <2>1, <2>5, <2>6, <2>7 DEF Proc
<1>6. CASE ChildWrites
  <2>1. /\ pc["child"] = "half" /\ pc'["parent"] = pc["parent"] /\ pc'["child"] = "ended"
        /\ UNCHANGED <<mem, failed>>
    BY <1>0, <1>6 DEF ChildWrites
  <2>2. FailInv'
    BY <1>0, <2>1 DEF FailInv
  <2> QED BY <1>2, <2>1, <2>2
<1>7. CASE ParentReads
  <2>1. /\ pc["parent"] = "half" /\ pc'["parent"] = "last" /\ pc'["child"] = pc["child"]
        /\ Idle("parent") /\ todo["parent"] = << >> /\ pipe' = << >> /\ failed' = failed
    BY <1>0, <1>7 DEF ParentReads
  <2>2. pipe # << >> => pc["child"] = "ended"
    BY <1>0 DEF FailInv, PcInv
  <2>3. pc["child"] # "half" /\ (pipe = << >> => mem' = mem)
    BY <1>7, <2>2 DEF ParentReads, PipeEof
  <2>4. FailInv'
    BY <1>0, <2>1, <2>3 DEF FailInv
  <2>5. ASSUME failed PROVE WholeOf(m, input) \/ WholeOf(m, Lost)
    <3>1. Sane("parent") /\ Lo("parent") = Middle + 1 /\ Hi("parent") = n - 1
      BY <2>1 DEF Sane, Lo, Hi
    <3>2. SameNumbers(m.numbers, Middle + 1, n - 1) /\ ~Busy(m)
      BY <1>0, <2>1, <3>1, HalfDone DEF Idle
    <3>3. /\ \A c \in 0 .. Middle - 1 : m.numbers[c] = input[c]
          /\ m.numbers[Middle] \in {input[Middle], 0}
      BY <1>0, <2>1 DEF LeftInv
    <3>4. /\ \A c \in 0 .. Middle : c = Middle \/ c \in 0 .. Middle - 1
          /\ \A c \in 0 .. Middle - 1 : c \in Item /\ c # Middle
          /\ \A c \in Middle + 1 .. n - 1 : c \in Item /\ c # Middle
      BY <1>0 DEF Item
    <3>5. Lost[Middle] = 0 /\ \A c \in Item : c # Middle => Lost[c] = input[c]
      BY <1>0, LostFields
    <3> HIDE DEF m
    <3>6. CASE m.numbers[Middle] = input[Middle]
      <4>1. \A c \in 0 .. Middle : m.numbers[c] = input[c]
        BY <3>3, <3>4, <3>6
      <4>2. \A v : CountIn(m.numbers, 0 .. n - 1, v) = CountIn(input, 0 .. n - 1, v)
        BY <1>0, <3>2, <4>1, HalvesOf
      <4> QED BY <3>2, <4>2, RestWhole
    <3>7. CASE m.numbers[Middle] = 0
      <4>1. \A c \in 0 .. Middle : m.numbers[c] = Lost[c]
        BY <3>3, <3>4, <3>5, <3>7
      <4>2. \A c \in Middle + 1 .. n - 1 : Lost[c] = input[c]
        BY <3>4, <3>5
      <4>3. \A v : CountIn(m.numbers, 0 .. n - 1, v) = CountIn(Lost, 0 .. n - 1, v)
        BY <1>0, <3>2, <4>1, <4>2, HalvesOf
      <4> QED BY <3>2, <4>3, RestWhole
    <3> QED BY <3>3, <3>6, <3>7
  <2>6. RestInv'
    <3>1. failed => mem'["parent"] = mem["parent"]
      BY <1>0, <2>3 DEF FailInv
    <3> QED BY <1>1, <2>1, <2>5, <3>1 DEF RestInv, WholeOf
  <2> QED BY <1>1, <2>1, <2>4, <2>6 DEF LostInv, LeftInv
<1>8. CASE ParentEnds
  <2>1. /\ pc["parent"] = "last" /\ pc'["parent"] = "end" /\ pc'["child"] = pc["child"]
        /\ ~Busy(mem["parent"]) /\ UNCHANGED <<mem, pipe, failed>>
    BY <1>0, <1>8 DEF ParentEnds, Idle
  <2>2. FailInv' /\ RestInv'
    BY <1>0, <1>1, <2>1 DEF FailInv, RestInv, WholeOf
  <2> QED BY <1>1, <2>1, <2>2 DEF LostInv, LeftInv
<1>9. CASE KillChild
  <2>1. /\ pc["child"] = "half" /\ pc'["parent"] = pc["parent"] /\ pc'["child"] = "dead" /\ failed'
        /\ UNCHANGED <<mem, pipe>>
    BY <1>0, <1>9 DEF KillChild
  <2>2. FailInv' /\ pc["parent"] = "half"
    BY <1>0, <2>1 DEF FailInv
  <2> QED BY <1>0, <1>1, <2>1, <2>2 DEF LostInv, LeftInv, RestInv
<1>10. CASE UNCHANGED vars
  <2>1. UNCHANGED <<mem, failed>> /\ pc'["parent"] = pc["parent"] /\ FailInv'
    BY <1>0, <1>10 DEF vars, FailInv
  <2> QED BY <1>2, <2>1
<1> QED BY <1>0, <1>3, <1>4, <1>5, <1>6, <1>7, <1>8, <1>9, <1>10 DEF Next, Parent, Child

\* When fork() failed or the child was killed, the parent still prints the numbers
\* it was filled with, but for at most one, the last of the left half, in whose
\* place it prints a 0.
THEOREM OnlyOneLostHolds == Spec => []OnlyOneLost
<1>1. Init => SortInv /\ LostInv
  BY SortInit, LostInit
<1>2. TurnInv /\ TurnInv' /\ SortInv /\ LostInv /\ [Next]_vars => SortInv' /\ LostInv'
  BY SortNext, LostNext
<1>3. TurnInv /\ LostInv => OnlyOneLost
  <2> SUFFICES ASSUME TurnInv, LostInv, pc["parent"] = "end", failed
               PROVE  \/ \A v \in Values : Count(mem["parent"].numbers, v) = Count(input, v)
                      \/ \A v \in Values \cup {0} : Count(mem["parent"].numbers, v) = Count(Lost, v)
    BY DEF OnlyOneLost, Lost
  <2>1. ~Busy(mem["parent"]) /\ (WholeOf(mem["parent"], input) \/ WholeOf(mem["parent"], Lost))
    BY DEF LostInv, RestInv
  <2>2. \A f, v : CountIn(f, 0 .. array_size - 1, v) = Count(f, v)
    BY DEF CountIn, Count, Item
  <2> QED BY <2>1, <2>2, RestWhole
<1> QED BY <1>1, <1>2, <1>3, TurnInvHolds, PTL DEF Spec

===============================================================================

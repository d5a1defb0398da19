-------------------------- MODULE SchedulerProofs --------------------------
(***************************************************************************)
(* Proofs about Scheduler, for any targets, timers, plans and frames, and   *)
(* any number of functions handed to the cocos thread.                      *)
(*                                                                         *)
(* Two inductive invariants.  IInv looks at the vector of functions and at   *)
(* update's copy of it on their own, and says that the copy is empty unless  *)
(* update works through it.  TInv is about the timers: who is listed where,  *)
(* who holds a timer, where update stands in the list of its target, and     *)
(* which times have passed.                                                 *)
(***************************************************************************)
EXTENDS Scheduler, TLAPS, FiniteSetTheorems, SequenceTheorems

\* Append and Tail, place by place.
LEMMA Appended ==
  ASSUME NEW S, NEW s \in Seq(S), NEW e \in S
  PROVE  /\ Append(s, e) \in Seq(S) /\ Len(Append(s, e)) = Len(s) + 1
         /\ Len(s) \in Nat /\ DOMAIN s = 1..Len(s)
         /\ DOMAIN Append(s, e) = 1..Len(s) + 1
         /\ \A i \in 1..Len(s) : Append(s, e)[i] = s[i]
         /\ Append(s, e)[Len(s) + 1] = e
<1>1. Append(s, e) \in Seq(S) /\ Len(Append(s, e)) = Len(s) + 1
  BY AppendProperties
<1>2. DOMAIN Append(s, e) = 1..Len(s) + 1
  BY <1>1, LenProperties
<1>3. DOMAIN s = 1..Len(s) /\ Len(s) \in Nat
  BY LenProperties
<1> QED
  BY <1>1, <1>2, <1>3, AppendProperties

LEMMA Tailed ==
  ASSUME NEW S, NEW s \in Seq(S), s # << >>
  PROVE  /\ Tail(s) \in Seq(S) /\ Len(Tail(s)) = Len(s) - 1
         /\ Len(s) \in Nat \ {0} /\ DOMAIN s = 1..Len(s)
         /\ DOMAIN Tail(s) = 1..Len(s) - 1
         /\ \A i \in 1..Len(s) - 1 : Tail(s)[i] = s[i + 1]
         /\ Head(s) = s[1] /\ Head(s) \in S
<1>1. Tail(s) \in Seq(S) /\ Len(Tail(s)) = Len(s) - 1 /\ Head(s) \in S
  BY HeadTailProperties
<1>2. DOMAIN Tail(s) = 1..Len(s) - 1
  BY <1>1, LenProperties
<1>3. DOMAIN s = 1..Len(s) /\ Len(s) \in Nat \ {0}
  BY LenProperties, EmptySeq
<1>4. \A i \in 1..Len(s) - 1 : Tail(s)[i] = s[i + 1]
  BY <1>1, HeadTailProperties
<1> QED
  BY <1>1, <1>2, <1>3, <1>4

\* No member of a sequence occurs twice.
OneEach(s) == \A i, j \in DOMAIN s : s[i] = s[j] => i = j

LEMMA Members ==
  ASSUME NEW S, NEW s \in Seq(S)
  PROVE  /\ DOMAIN s = 1..Len(s) /\ Len(s) \in Nat /\ ToSet(s) \subseteq S
         /\ \A i \in 1..Len(s) : s[i] \in S /\ s[i] \in ToSet(s)
         /\ \A x \in ToSet(s) : \E i \in 1..Len(s) : s[i] = x
<1>1. DOMAIN s = 1..Len(s) /\ Len(s) \in Nat
  BY LenProperties
<1>2. \A i \in 1..Len(s) : s[i] \in S
  BY ElementOfSeq
<1> QED
  BY <1>1, <1>2 DEF ToSet

LEMMA EmptyList ==
  ASSUME NEW S
  PROVE  <<>> \in Seq(S) /\ OneEach(<<>>) /\ ToSet(<<>>) = {} /\ DOMAIN <<>> = {}
<1>1. DOMAIN <<>> = {}
  OBVIOUS
<1> QED
  BY <1>1, EmptySeq DEF ToSet, OneEach

\* The place of a member.
LEMMA PlaceOf ==
  ASSUME NEW S, NEW s \in Seq(S), NEW x \in ToSet(s)
  PROVE  Place(s, x) \in 1..Len(s) /\ s[Place(s, x)] = x
<1>1. DOMAIN s = 1..Len(s)
  BY LenProperties
<1>2. \E i \in DOMAIN s : s[i] = x
  BY DEF ToSet
<1> QED
  BY <1>1, <1>2 DEF Place

\* RemoveAt, place by place.
LEMMA RemovedPlaces ==
  ASSUME NEW S, NEW s \in Seq(S), NEW p \in 1..Len(s)
  PROVE  /\ RemoveAt(s, p) \in Seq(S) /\ Len(RemoveAt(s, p)) = Len(s) - 1
         /\ \A i \in 1..Len(s) - 1 :
              RemoveAt(s, p)[i] = IF i < p THEN s[i] ELSE s[i + 1]
<1> DEFINE n == Len(s)
           a == SubSeq(s, 1, p - 1)
           b == SubSeq(s, p + 1, n)
<1>1. n \in Nat /\ \A i \in 1..n : s[i] \in S
  BY LenProperties, ElementOfSeq
<1>2. /\ a \in Seq(S) /\ Len(a) = p - 1
      /\ \A i \in 1..p - 1 : a[i] = s[i]
  <2>1. p - 1 \in Int /\ \A i \in 1..p - 1 : s[i] \in S
    BY <1>1
  <2>2. /\ a \in Seq(S) /\ Len(a) = IF 1 <= p - 1 THEN (p - 1) - 1 + 1 ELSE 0
        /\ \A i \in 1..(p - 1) - 1 + 1 : a[i] = s[1 + i - 1]
    BY <2>1, SubSeqProperties
  <2> HIDE DEF a, n
  <2> QED
    BY <1>1, <2>2
<1>3. /\ b \in Seq(S) /\ Len(b) = n - p
      /\ \A i \in 1..n - p : b[i] = s[p + i]
  <2>1. p + 1 \in Int /\ n \in Int /\ \A i \in p + 1..n : s[i] \in S
    BY <1>1
  <2>2. /\ b \in Seq(S) /\ Len(b) = IF p + 1 <= n THEN n - (p + 1) + 1 ELSE 0
        /\ \A i \in 1..n - (p + 1) + 1 : b[i] = s[(p + 1) + i - 1]
    BY <2>1, SubSeqProperties
  <2> HIDE DEF b
  <2> QED
    BY <1>1, <2>2
<1>4. /\ a \o b \in Seq(S) /\ Len(a \o b) = Len(a) + Len(b)
      /\ \A i \in 1..Len(a) + Len(b) : (a \o b)[i] =
           IF i <= Len(a) THEN a[i] ELSE b[i - Len(a)]
  BY <1>2, <1>3, ConcatProperties
<1>5. RemoveAt(s, p) = a \o b
  BY DEF RemoveAt
<1> HIDE DEF a, b, n
<1>6. Len(a) + Len(b) = n - 1
  BY <1>1, <1>2, <1>3
<1>7. ASSUME NEW i \in 1..n - 1
      PROVE  (a \o b)[i] = IF i < p THEN s[i] ELSE s[i + 1]
  <2>1. CASE i < p
    BY <1>1, <1>2, <1>4, <1>6, <2>1
  <2>2. CASE ~(i < p)
    <3>1. ~(i <= Len(a)) /\ i - Len(a) = i - p + 1 /\ i - p + 1 \in 1..n - p
      BY <1>1, <1>2, <2>2
    <3>2. (a \o b)[i] = b[i - p + 1]
      BY <1>1, <1>4, <1>6, <3>1
    <3>3. p + (i - p + 1) = i + 1
      BY <1>1
    <3>4. b[i - p + 1] = s[p + (i - p + 1)]
      BY <1>3, <3>1
    <3> QED
      BY <2>2, <3>2, <3>3, <3>4
  <2> QED
    BY <2>1, <2>2
<1> QED
  BY <1>4, <1>5, <1>6, <1>7 DEF n

\* A list without one of its members.
LEMMA WithoutOne ==
  ASSUME NEW S, NEW s \in Seq(S), OneEach(s), NEW x \in ToSet(s)
  PROVE  /\ Without(s, x) \in Seq(S) /\ Len(Without(s, x)) = Len(s) - 1
         /\ OneEach(Without(s, x)) /\ ToSet(Without(s, x)) = ToSet(s) \ {x}
         /\ \A i \in 1..Len(s) - 1 : Without(s, x)[i] =
              IF i < Place(s, x) THEN s[i] ELSE s[i + 1]
<1> DEFINE p == Place(s, x)
           n == Len(s)
           w == Without(s, x)
<1>1. p \in 1..n /\ s[p] = x /\ n \in Nat /\ DOMAIN s = 1..n
  BY PlaceOf, LenProperties
<1>2. /\ w \in Seq(S) /\ Len(w) = n - 1
      /\ \A i \in 1..n - 1 : w[i] = IF i < p THEN s[i] ELSE s[i + 1]
  BY <1>1, RemovedPlaces DEF Without
<1>3. DOMAIN w = 1..n - 1
  BY <1>2, LenProperties
<1> HIDE DEF p, n, w
\* From a place of the new list to the old one and back.
<1> DEFINE Old(i) == IF i < p THEN i ELSE i + 1
<1>4. \A i \in 1..n - 1 : Old(i) \in 1..n /\ Old(i) # p /\ w[i] = s[Old(i)]
  BY <1>1, <1>2
<1>5. \A i, j \in 1..n - 1 : Old(i) = Old(j) => i = j
  BY <1>1
<1>6. \A j \in 1..n : j # p => \E i \in 1..n - 1 : Old(i) = j
  <2>1. SUFFICES ASSUME NEW j \in 1..n, j # p PROVE \E i \in 1..n - 1 : Old(i) = j
    OBVIOUS
  <2>2. CASE j < p
    <3>1. j \in 1..n - 1 /\ Old(j) = j
      BY <1>1, <2>2
    <3> QED
      BY <3>1
  <2>3. CASE j > p
    <3>1. j - 1 \in 1..n - 1 /\ Old(j - 1) = j
      BY <1>1, <2>3
    <3> QED
      BY <3>1
  <2> QED
    BY <1>1, <2>1, <2>2, <2>3
<1> HIDE DEF Old
<1>7. \A i, j \in 1..n : s[i] = s[j] => i = j
  BY <1>1 DEF OneEach
<1>8. OneEach(w)
  BY <1>3, <1>4, <1>5, <1>7 DEF OneEach
<1>9. ToSet(w) = ToSet(s) \ {x}
  <2>1. ASSUME NEW i \in 1..n - 1 PROVE w[i] \in ToSet(s) \ {x}
    BY <1>1, <1>4, <1>7 DEF ToSet
  <2>2. ASSUME NEW j \in 1..n, s[j] # x PROVE s[j] \in ToSet(w)
    <3>1. PICK i \in 1..n - 1 : Old(i) = j
      BY <1>1, <1>6, <2>2
    <3> QED
      BY <1>3, <1>4, <3>1 DEF ToSet
  <2> QED
    BY <1>1, <1>3, <2>1, <2>2 DEF ToSet
<1> QED
  BY <1>2, <1>8, <1>9 DEF n, w, p

\* A list with one more member.
LEMMA WithOne ==
  ASSUME NEW S, NEW s \in Seq(S), OneEach(s), NEW x \in S, x \notin ToSet(s)
  PROVE  /\ Append(s, x) \in Seq(S) /\ OneEach(Append(s, x))
         /\ ToSet(Append(s, x)) = ToSet(s) \cup {x}
<1> DEFINE n == Len(s)
           w == Append(s, x)
<1>1. /\ w \in Seq(S) /\ n \in Nat /\ DOMAIN s = 1..n /\ DOMAIN w = 1..n + 1
      /\ \A i \in 1..n : w[i] = s[i]
      /\ w[n + 1] = x
  BY Appended
<1> HIDE DEF n, w
<1>2. \A i \in 1..n + 1 : i \in 1..n \/ i = n + 1
  BY <1>1
<1>3. 1..n \subseteq 1..n + 1 /\ n + 1 \in 1..n + 1
  BY <1>1
<1>4. ToSet(w) = ToSet(s) \cup {x}
  BY <1>1, <1>2, <1>3 DEF ToSet
<1>5. \A i \in 1..n : s[i] # x
  BY <1>1 DEF ToSet
<1>6. OneEach(w)
  BY <1>1, <1>2, <1>5 DEF OneEach
<1> QED
  BY <1>1, <1>4, <1>6 DEF w

\* A list is not longer than the set of what can be in it.
LEMMA ListIsShort ==
  ASSUME NEW S, IsFiniteSet(S), NEW s \in Seq(S), OneEach(s)
  PROVE  Len(s) <= Cardinality(S)
<1> DEFINE n == Len(s)
<1>1. n \in Nat /\ DOMAIN s = 1..n /\ s \in [1..n -> S]
  BY LenProperties
<1>2. s \in Injection(1..n, S)
  BY <1>1 DEF OneEach, Injection, IsInjective
<1>3. Cardinality(1..n) <= Cardinality(S)
  BY <1>2, FS_Injection
<1>4. Cardinality(1..n) = n
  BY <1>1, FS_Interval
<1> QED
  BY <1>3, <1>4

\* SetToSeqs: the members of a set in some order.
LEMMA SomeOrder ==
  ASSUME NEW S, IsFiniteSet(S), NEW o \in SetToSeqs(S)
  PROVE  o \in Seq(S) /\ OneEach(o) /\ ToSet(o) = S
<1> DEFINE n == Cardinality(S)
<1>1. n \in Nat
  BY FS_CardinalityType
<1>2. o \in [1..n -> S] /\ \A i, j \in 1..n : i # j => o[i] # o[j]
  BY DEF SetToSeqs
<1>3. o \in Seq(S)
  BY <1>1, <1>2, SeqDef
<1>4. o \in Injection(1..n, S)
  BY <1>2 DEF Injection, IsInjective
<1>5. Cardinality(1..n) = n
  BY <1>1, FS_Interval
<1>6. o \in Surjection(1..n, S)
  BY <1>4, <1>5, FS_Injection
<1>7. ToSet(o) = S
  BY <1>2, <1>6 DEF Surjection, ToSet
<1> QED
  BY <1>2, <1>3, <1>7 DEF OneEach
-----------------------------------------------------------------------------
(* The functions. *)

QueueType ==
  functions \in Seq(Nat) /\ temp \in Seq(Nat) /\ posted \in Nat

\* Every function posted is in one of the places.
Placed ==
  performed \cup removed \cup ToSet(temp) \cup ToSet(functions) = 1..posted

Increasing(s) == \A i, j \in DOMAIN s : i < j => s[i] < s[j]
Before(S, T) == \A m \in S, n \in T : m < n

\* What was performed came before the copy, the copy before the vector.
InOrder ==
  /\ Increasing(temp) /\ Increasing(functions)
  /\ Before(performed, ToSet(temp)) /\ Before(performed, ToSet(functions))
  /\ Before(ToSet(temp), ToSet(functions))

CopyInUse == at \notin {"perform", "function"} => temp = <<>>

IInv == QueueType /\ Placed /\ InOrder /\ CopyInUse

LEMMA EmptyPlaces == ToSet(<<>>) = {} /\ Increasing(<<>>) /\ <<>> \in Seq(Nat)
<1>1. DOMAIN <<>> = {}
  OBVIOUS
<1> QED
  BY <1>1 DEF ToSet, Increasing

\* The queue and the copy stay, and the copy is in use as long as it was.
LEMMA Still ==
  ASSUME IInv, UNCHANGED queue,
         at' \in {"perform", "function"} \/ at \notin {"perform", "function"} \/ temp = <<>>
  PROVE  IInv'
BY DEF IInv, QueueType, Placed, InOrder, CopyInUse, queue

LEMMA InterfaceStep == ASSUME IInv, Interface PROVE IInv'
<1>1. UNCHANGED queue /\ UNCHANGED at
  BY DEF Interface, Reschedule, Schedule, Unschedule, UnscheduleAllForTarget,
         UnscheduleAll, PauseTarget, ResumeTarget
<1> QED
  BY <1>1 DEF IInv, QueueType, Placed, InOrder, CopyInUse, queue

\* A function that is posted is the last.
LEMMA PostingStep == ASSUME IInv, PerformFunctionInCocosThread PROVE IInv'
<1> DEFINE n == posted + 1
<1>1. /\ functions' = Append(functions, n) /\ posted' = n
      /\ UNCHANGED <<at, temp, performed, removed>>
  BY DEF PerformFunctionInCocosThread, Posting
<1>2. functions \in Seq(Nat) /\ temp \in Seq(Nat) /\ posted \in Nat /\ n \in Nat
  BY DEF IInv, QueueType
<1>3. /\ functions' \in Seq(Nat) /\ DOMAIN functions = 1..Len(functions)
      /\ Len(functions) \in Nat /\ DOMAIN functions' = 1..Len(functions) + 1
      /\ \A i \in 1..Len(functions) : functions'[i] = functions[i]
      /\ functions'[Len(functions) + 1] = n
  BY <1>1, <1>2, Appended
<1>4. ToSet(functions') = ToSet(functions) \cup {n}
  <2>1. \A i \in DOMAIN functions' : i \in 1..Len(functions) \/ i = Len(functions) + 1
    BY <1>3
  <2>2. 1..Len(functions) \subseteq DOMAIN functions' /\ Len(functions) + 1 \in DOMAIN functions'
    BY <1>3
  <2> QED
    BY <1>3, <2>1, <2>2 DEF ToSet
<1>5. 1..n = 1..posted \cup {n}
  BY <1>2
<1>6. Placed'
  BY <1>1, <1>4, <1>5 DEF IInv, Placed
<1>7. \A m \in performed \cup ToSet(temp) \cup ToSet(functions) : m \in Nat /\ m < n
  BY <1>2 DEF IInv, Placed
<1>8. Increasing(functions')
  <2>1. SUFFICES ASSUME NEW i \in DOMAIN functions', NEW j \in DOMAIN functions', i < j
                 PROVE  functions'[i] < functions'[j]
    BY DEF Increasing
  <2>2. i \in 1..Len(functions)
    BY <1>3, <2>1
  <2>3. CASE j \in 1..Len(functions)
    BY <1>3, <2>1, <2>2, <2>3 DEF IInv, InOrder, Increasing
  <2>4. CASE j = Len(functions) + 1
    <3>1. functions[i] \in ToSet(functions)
      BY <1>3, <2>2 DEF ToSet
    <3> QED
      BY <1>3, <1>7, <2>2, <2>4, <3>1
  <2> QED
    BY <1>3, <2>1, <2>3, <2>4
<1>9. Before(performed, ToSet(functions')) /\ Before(ToSet(temp), ToSet(functions'))
  BY <1>4, <1>7 DEF IInv, InOrder, Before
<1> QED
  BY <1>1, <1>2, <1>3, <1>6, <1>8, <1>9 DEF IInv, QueueType, InOrder, CopyInUse

LEMMA RemoveStep == ASSUME IInv, RemoveAllFunctions PROVE IInv'
<1>1. /\ functions' = <<>> /\ removed' = removed \cup ToSet(functions)
      /\ UNCHANGED <<at, temp, posted, performed>>
  BY DEF RemoveAllFunctions
<1>2. Placed'
  BY <1>1, EmptyPlaces DEF IInv, Placed
<1>3. InOrder'
  BY <1>1, EmptyPlaces DEF IInv, InOrder, Before
<1> QED
  BY <1>1, <1>2, <1>3, EmptyPlaces DEF IInv, QueueType, CopyInUse

\* The vector becomes the copy, whatever the unlocked look at it has seen.
LEMMA CollectStep == ASSUME IInv, Collect PROVE IInv'
<1>1. at = "functions" /\ temp = <<>> /\ UNCHANGED <<posted, performed, removed>>
  BY DEF Collect, IInv, CopyInUse
<1>2. CASE at' = "perform" /\ temp' = functions /\ functions' = <<>>
  <2>1. Placed'
    BY <1>1, <1>2, EmptyPlaces DEF IInv, Placed
  <2>2. InOrder'
    BY <1>1, <1>2, EmptyPlaces DEF IInv, InOrder, Before
  <2> QED
    BY <1>1, <1>2, <2>1, <2>2, EmptyPlaces DEF IInv, QueueType, CopyInUse
<1>3. CASE at' = "idle" /\ UNCHANGED <<temp, functions>>
  BY <1>1, <1>3 DEF IInv, QueueType, Placed, InOrder, CopyInUse
<1> QED
  BY <1>2, <1>3 DEF Collect

LEMMA PerformStep == ASSUME IInv, Perform PROVE IInv'
<1> DEFINE n == Head(temp)
<1>1. /\ temp # <<>> /\ temp' = Tail(temp) /\ performed' = performed \cup {n}
      /\ at' = "function" /\ UNCHANGED <<functions, posted, removed>>
  BY DEF Perform
<1>2. temp \in Seq(Nat)
  BY DEF IInv, QueueType
<1>3. /\ temp' \in Seq(Nat) /\ DOMAIN temp = 1..Len(temp) /\ Len(temp) \in Nat \ {0}
      /\ DOMAIN temp' = 1..Len(temp) - 1
      /\ \A i \in 1..Len(temp) - 1 : temp'[i] = temp[i + 1]
      /\ n = temp[1] /\ n \in Nat
  BY <1>1, <1>2, Tailed
<1>4. /\ 1 \in DOMAIN temp
      /\ \A i \in DOMAIN temp' : i + 1 \in DOMAIN temp /\ 1 < i + 1 /\ temp'[i] = temp[i + 1]
      /\ \A i \in DOMAIN temp : i = 1 \/ (i - 1 \in DOMAIN temp' /\ temp'[i - 1] = temp[i])
  <2>1. 1 \in DOMAIN temp
    BY <1>3
  <2>2. ASSUME NEW i \in DOMAIN temp'
        PROVE  i + 1 \in DOMAIN temp /\ 1 < i + 1 /\ temp'[i] = temp[i + 1]
    BY <1>3
  <2>3. ASSUME NEW i \in DOMAIN temp, i # 1
        PROVE  i - 1 \in DOMAIN temp' /\ temp'[i - 1] = temp[i]
    <3>1. i - 1 \in DOMAIN temp' /\ (i - 1) + 1 = i
      BY <1>3, <2>3
    <3> QED
      BY <2>2, <3>1
  <2> QED
    BY <2>1, <2>2, <2>3
<1>5. ToSet(temp) = {n} \cup ToSet(temp')
  <2>1. \A e \in ToSet(temp) : e = n \/ e \in ToSet(temp')
    <3>1. SUFFICES ASSUME NEW i \in DOMAIN temp
                   PROVE  temp[i] = n \/ temp[i] \in ToSet(temp')
      BY DEF ToSet
    <3>2. temp[i] = n \/ (i - 1 \in DOMAIN temp' /\ temp'[i - 1] = temp[i])
      BY <1>3, <1>4
    <3> QED
      BY <3>2 DEF ToSet
  <2>2. n \in ToSet(temp)
    BY <1>3, <1>4 DEF ToSet
  <2>3. \A e \in ToSet(temp') : e \in ToSet(temp)
    <3>1. SUFFICES ASSUME NEW i \in DOMAIN temp' PROVE temp'[i] \in ToSet(temp)
      BY DEF ToSet
    <3>2. i + 1 \in DOMAIN temp /\ temp'[i] = temp[i + 1]
      BY <1>4
    <3> QED
      BY <3>2 DEF ToSet
  <2> QED
    BY <2>1, <2>2, <2>3
<1>6. \A e \in ToSet(temp') : n < e
  <2>1. SUFFICES ASSUME NEW i \in DOMAIN temp' PROVE n < temp'[i]
    BY DEF ToSet
  <2> QED
    BY <1>3, <1>4, <2>1 DEF IInv, InOrder, Increasing
<1>7. Placed'
  BY <1>1, <1>5 DEF IInv, Placed
<1>8. Increasing(temp')
  <2>1. SUFFICES ASSUME NEW i \in DOMAIN temp', NEW j \in DOMAIN temp', i < j
                 PROVE  temp'[i] < temp'[j]
    BY DEF Increasing
  <2>2. i + 1 < j + 1
    BY <1>3, <2>1
  <2> QED
    BY <1>4, <2>1, <2>2 DEF IInv, InOrder, Increasing
<1>9. /\ Before(performed', ToSet(temp')) /\ Before(performed', ToSet(functions))
      /\ Before(ToSet(temp'), ToSet(functions))
  BY <1>1, <1>5, <1>6 DEF IInv, InOrder, Before
<1> QED
  BY <1>1, <1>3, <1>7, <1>8, <1>9 DEF IInv, QueueType, InOrder, CopyInUse

LEMMA StepHolds == IInv /\ [Next]_vars => IInv'
<1> SUFFICES ASSUME IInv, [Next]_vars PROVE IInv'
  OBVIOUS
<1>1. CASE \E d \in Steps : Update(d)
  <2>1. /\ at = "idle" /\ at' = "targets"
        /\ UNCHANGED <<functions, temp, posted, performed, removed>>
    BY <1>1 DEF Update
  <2> QED
    BY <2>1 DEF IInv, QueueType, Placed, InOrder, CopyInUse
<1>2. CASE EnterTarget \/ LeaveTarget \/ LeaveTargets \/ Tick \/ TimerDone
  <2>1. UNCHANGED queue /\ at \notin {"perform", "function"}
    BY <1>2 DEF EnterTarget, LeaveTarget, LeaveTargets, Tick, TimerDone
  <2> QED
    BY <2>1, Still
<1>3. CASE DelayDone \/ LoopDone
  <2>1. UNCHANGED queue /\ at \notin {"perform", "function"}
    BY <1>3 DEF DelayDone, LoopDone
  <2> QED
    BY <2>1, Still
<1>4. CASE FunctionDone \/ UpdateDone
  <2>1. UNCHANGED queue /\ (at' = "perform" \/ temp = <<>>)
    BY <1>4 DEF FunctionDone, UpdateDone
  <2> QED
    BY <2>1, Still
<1>5. CASE UNCHANGED vars
  BY <1>5 DEF vars, queue, IInv, QueueType, Placed, InOrder, CopyInUse
<1> QED
  BY <1>1, <1>2, <1>3, <1>4, <1>5, InterfaceStep, PostingStep, RemoveStep,
     CollectStep, PerformStep DEF Next, Walk

\* The invariant the theorem below follows from.
THEOREM Inductive == Spec => []IInv
<1>1. Init => IInv
  <2> SUFFICES ASSUME Init PROVE IInv
    OBVIOUS
  <2>1. 1..0 = {}
    OBVIOUS
  <2> QED
    BY <2>1, EmptyPlaces DEF Init, IInv, QueueType, Placed, InOrder, CopyInUse, Before
<1>2. IInv /\ [Next]_vars => IInv'
  BY StepHolds
<1> QED
  BY <1>1, <1>2, PTL DEF Spec

\* A function posted from any thread (performFunctionInCocosThread) is never
\* lost and never overtaken, whatever update's unlocked look at the vector
\* sees and whatever is posted or removed while the copy is worked through.
THEOREM FunctionsAreKept == Spec => []NoneLost
<1>1. IInv => NoneLost
  <2> SUFFICES ASSUME IInv PROVE NoneLost
    OBVIOUS
  <2> DEFINE w == temp \o functions
             a == Len(temp)
             b == Len(functions)
  <2>1. /\ temp \in Seq(Nat) /\ functions \in Seq(Nat) /\ a \in Nat /\ b \in Nat
        /\ DOMAIN temp = 1..a /\ DOMAIN functions = 1..b
    BY Members DEF IInv, QueueType
  <2>2. /\ DOMAIN w = 1..a + b
        /\ \A i \in 1..a + b : w[i] = IF i <= a THEN temp[i] ELSE functions[i - a]
    BY <2>1, ConcatProperties, LenProperties
  <2> HIDE DEF a, b, w
  <2>3. \A i \in 1..a : i \in 1..a + b /\ w[i] = temp[i]
    BY <2>1, <2>2
  <2>4. \A i \in 1..b : a + i \in 1..a + b /\ w[a + i] = functions[i]
    <3>1. SUFFICES ASSUME NEW i \in 1..b
                   PROVE  a + i \in 1..a + b /\ w[a + i] = functions[i]
      OBVIOUS
    <3>2. a + i \in 1..a + b /\ ~(a + i <= a) /\ (a + i) - a = i
      BY <2>1
    <3> QED
      BY <2>2, <3>2
  <2>5. \A i \in 1..a + b : i \in 1..a \/ (i - a \in 1..b /\ i = a + (i - a))
    BY <2>1
  <2>6. ToSet(w) = ToSet(temp) \cup ToSet(functions)
    <3>1. \A e \in ToSet(w) : e \in ToSet(temp) \cup ToSet(functions)
      <4>1. SUFFICES ASSUME NEW i \in 1..a + b
                     PROVE  w[i] \in ToSet(temp) \cup ToSet(functions)
        BY <2>2 DEF ToSet
      <4>2. CASE i \in 1..a
        BY <2>1, <2>3, <4>2 DEF ToSet
      <4>3. CASE i - a \in 1..b /\ i = a + (i - a)
        <5>1. w[i] = functions[i - a]
          BY <2>4, <4>3
        <5> QED
          BY <2>1, <4>3, <5>1 DEF ToSet
      <4> QED
        BY <2>5, <4>2, <4>3
    <3>2. \A e \in ToSet(temp) \cup ToSet(functions) : e \in ToSet(w)
      BY <2>1, <2>2, <2>3, <2>4 DEF ToSet
    <3> QED
      BY <3>1, <3>2
  <2>7. Increasing(w)
    <3>1. SUFFICES ASSUME NEW i \in 1..a + b, NEW j \in 1..a + b, i < j PROVE w[i] < w[j]
      BY <2>2 DEF Increasing
    <3>2. CASE j \in 1..a
      <4>1. i \in 1..a
        BY <2>1, <3>1, <3>2
      <4> QED
        BY <2>1, <2>3, <3>1, <3>2, <4>1 DEF IInv, InOrder, Increasing
    <3>3. CASE i \in 1..a /\ j - a \in 1..b /\ j = a + (j - a)
      <4>1. w[i] = temp[i] /\ w[j] = functions[j - a]
        BY <2>3, <2>4, <3>3
      <4>2. temp[i] \in ToSet(temp) /\ functions[j - a] \in ToSet(functions)
        BY <2>1, <3>3 DEF ToSet
      <4> QED
        BY <4>1, <4>2 DEF IInv, InOrder, Before
    <3>4. CASE i - a \in 1..b /\ i = a + (i - a) /\ j - a \in 1..b /\ j = a + (j - a)
      <4>1. w[i] = functions[i - a] /\ w[j] = functions[j - a]
        BY <2>4, <3>4
      <4>2. i - a < j - a
        BY <2>1, <3>1
      <4> QED
        BY <2>1, <3>4, <4>1, <4>2 DEF IInv, InOrder, Increasing
    <3> QED
      BY <2>5, <3>1, <3>2, <3>3, <3>4
  <2>8. performed \cup removed \cup ToSet(w) = 1..posted
    BY <2>6 DEF IInv, Placed
  <2>9. \A n \in performed, k \in ToSet(w) : n < k
    BY <2>6 DEF IInv, InOrder, Before
  <2> QED
    BY <2>7, <2>8, <2>9 DEF NoneLost, Increasing, w
<1> QED
  BY <1>1, Inductive, PTL
-----------------------------------------------------------------------------
(* The timers. *)

Listed == UNION {ToSet(timers[t]) : t \in Targets}
Salvaged == IF curSalvaged THEN {cur} ELSE {}
Running == {"delay", "loop", "after"}

\* The types that the parts below do not give.
EntryType ==
  /\ paused \in [Targets -> BOOLEAN] /\ timer \in [Timers -> TimerFields]
  /\ iter \in Targets \cup {None} /\ cur \in Timers \cup {None}
  /\ curSalvaged \in BOOLEAN /\ targetSalvaged \in BOOLEAN

FrameType ==
  /\ dt \in Steps \cup {0} /\ span \in Nat /\ calls \in 0..MaxCalls
  /\ at \in {"idle", "targets", "timers", "delay", "loop", "after",
             "functions", "perform", "function"}
  /\ racing \in BOOLEAN /\ posted \in 0..MaxPosts

\* The table: update stands in it only during its walk, and only the target
\* in which it stands may be without timers.
Table ==
  /\ order \in Seq(Targets) /\ OneEach(order)
  /\ Walking => iter # None
  /\ at \in {"idle", "functions", "perform", "function"} => iter = None
  /\ WalkValid
  /\ \A t \in Targets : t \notin ToSet(order) => timers[t] = <<>>

\* The lists: each timer in one list at most, under a name of its own.
Lists ==
  /\ timers \in [Targets -> Seq(Timers)]
  /\ \A t \in Targets : OneEach(timers[t])
  /\ \A t \in Targets : \A x \in ToSet(timers[t]) : timer[x].target = t
  /\ \A t \in Targets : \A x, y \in ToSet(timers[t]) :
       timer[x].key = timer[y].key => x = y

\* The references: the lists hold one, update the other.
References ==
  /\ \A x \in Timers : refs[x] = (IF x \in Listed THEN 1 ELSE 0)
                                 + (IF x \in Salvaged THEN 1 ELSE 0)
  /\ refs \in [Timers -> 0..2]
  /\ due \subseteq Listed /\ ticked \subseteq Listed \cup Salvaged

\* The current timer is at the place of update in its target, or salvaged.
CurrentPlace ==
  cur # None /\ ~curSalvaged =>
    /\ index >= 0 /\ index + 1 \in DOMAIN timers[iter]
    /\ timers[iter][index + 1] = cur

CurrentTimer ==
  /\ cur # None <=> at \in Running
  /\ cur = None => ~curSalvaged
  /\ cur # None => timer[cur].target = iter
  /\ curSalvaged => cur \notin Listed
  /\ CurrentPlace

\* The places that update has been at in the target.
Seen == IF at = "timers" THEN index ELSE index + 1

\* timerIndex: behind it update has been with no timer twice, and up to it
\* nothing is left to do.
Index ==
  /\ index \in -1..Cardinality(Timers)
  /\ at = "timers" => index >= 0
  /\ at \in Running => index < Cardinality(Timers)
  /\ Walking => \A i \in DOMAIN timers[iter] :
       /\ i > Seen => timers[iter][i] \notin ticked
       /\ timers[iter][i] \in due => i > Seen

\* The times: a callback runs for a time that has passed, and a timer that is
\* still listed has a run left.
Times ==
  /\ \A x \in Timers : timer[x].elapsed \in Nat \cup {-1}
  /\ at = "delay" => timer[cur].elapsed >= timer[cur].delay
  /\ at = "loop" => timer[cur].elapsed >= span
  /\ \A x \in Timers : timer[x].forever \/ timer[x].executed <= timer[x].repeat + 1
  /\ \A x \in Timers : x \in Listed \/ (x = cur /\ at \in {"delay", "loop"}) =>
       timer[x].forever \/ timer[x].executed <= timer[x].repeat

TInv == /\ EntryType /\ FrameType
        /\ Table /\ Lists /\ References /\ CurrentTimer /\ Index /\ Times
-----------------------------------------------------------------------------
(* Timers that leave their lists. *)

\* The lists lose S.
Losing(S) ==
  /\ timers' \in [Targets -> Seq(Timers)]
  /\ \A t \in Targets : OneEach(timers'[t]) /\ ToSet(timers'[t]) = ToSet(timers[t]) \ S

\* f can be the fields of the timers of which those in left stay listed.
Fields(f, left) ==
  /\ f \in [Timers -> TimerFields]
  /\ \A x \in Timers : f[x].target = timer[x].target /\ f[x].key = timer[x].key
  /\ \A x \in Timers : f[x].elapsed \in Nat \cup {-1}
  /\ \A x \in Timers : f[x].forever \/ f[x].executed <= f[x].repeat + 1
  /\ \A x \in left : f[x].forever \/ f[x].executed <= f[x].repeat

LEMMA ListedTimers == ASSUME Lists PROVE Listed \subseteq Timers
<1>1. \A t \in Targets : ToSet(timers[t]) \subseteq Timers
  BY Members DEF Lists
<1> QED
  BY <1>1 DEF Listed

\* update stands in no free timer.
LEMMA CurrentIsHeld ==
  ASSUME EntryType, Table, Lists, CurrentTimer, cur # None
  PROVE  /\ cur \in Timers /\ iter \in Targets /\ Walking /\ iter # None
         /\ cur \in Listed \/ curSalvaged
         /\ ~curSalvaged => cur \in ToSet(timers[iter])
<1>1. cur \in Timers /\ at \in Running
  BY DEF EntryType, CurrentTimer
<1>2. Walking /\ iter # None /\ iter \in Targets
  BY <1>1 DEF Walking, Running, Table, EntryType
<1>3. ~curSalvaged => cur \in ToSet(timers[iter])
  BY DEF CurrentTimer, CurrentPlace, ToSet
<1> QED
  BY <1>1, <1>2, <1>3 DEF Listed

LEMMA ListedLess ==
  ASSUME NEW S, Losing(S) PROVE Listed' = Listed \ S
BY DEF Listed, Losing

LEMMA NoTimerFields == NoTimer \in TimerFields
BY DEF NoTimer, TimerFields

\* The references of the timers that are left are those of the lists and of
\* update.
LEMMA ReleasedReferences ==
  ASSUME EntryType, Table, Lists, References, CurrentTimer, NEW f,
         NEW S, S \subseteq Listed, Losing(S), Releasing(S, f), cur' = cur
  PROVE  /\ References' /\ curSalvaged' \in BOOLEAN
         /\ curSalvaged' = (curSalvaged \/ cur \in S)
         /\ \A x \in Listed' \cup Salvaged' : x \in Timers /\ timer'[x] = f[x]
         /\ \A x \in Timers : timer'[x] \in {f[x], NoTimer}
<1> DEFINE count == [x \in Timers |->
                       (IF x = cur /\ Salvages(S) THEN refs[x] + 1 ELSE refs[x])
                       - (IF x \in S THEN 1 ELSE 0)]
<1>1. /\ refs' = count
      /\ timer' = [x \in Timers |-> IF count[x] = 0 THEN NoTimer ELSE f[x]]
      /\ curSalvaged' = (curSalvaged \/ Salvages(S))
      /\ due' = due \ S
      /\ ticked' = {x \in ticked : count[x] # 0}
  BY DEF Releasing
<1>2. Listed \subseteq Timers /\ Listed' = Listed \ S
  BY ListedTimers, ListedLess
<1>3. curSalvaged \in BOOLEAN /\ (curSalvaged => cur \notin S /\ cur \notin Listed)
  BY DEF EntryType, CurrentTimer
<1>4. /\ Salvages(S) <=> cur \in S
      /\ curSalvaged' \in BOOLEAN
      /\ curSalvaged' = (curSalvaged \/ cur \in S)
  BY <1>1, <1>3 DEF Salvages
<1>5. Salvaged' = Salvaged \cup (S \cap {cur})
  BY <1>4, <1>3 DEF Salvaged
<1>6. ASSUME NEW x \in Timers
      PROVE  /\ count[x] = (IF x \in Listed' THEN 1 ELSE 0)
                           + (IF x \in Salvaged' THEN 1 ELSE 0)
             /\ count[x] \in 0..2
  <2>1. count[x] = (IF x = cur /\ x \in S THEN refs[x] + 1 ELSE refs[x])
                   - (IF x \in S THEN 1 ELSE 0)
    BY <1>4
  <2>2. refs[x] = (IF x \in Listed THEN 1 ELSE 0)
                  + (IF x \in Salvaged THEN 1 ELSE 0)
    BY DEF References
  <2>3. x \in Salvaged <=> curSalvaged /\ x = cur
    BY DEF Salvaged
  <2> HIDE DEF count
  <2>4. CASE x \in S
    <3>1. x \in Listed /\ x \notin Listed' /\ x \notin Salvaged
      BY <1>2, <1>3, <2>3, <2>4
    <3>2. x \in Salvaged' <=> x = cur
      BY <1>5, <2>4, <3>1
    <3> QED
      BY <2>1, <2>2, <2>4, <3>1, <3>2
  <2>5. CASE x \notin S
    <3>1. x \in Listed <=> x \in Listed'
      BY <1>2, <2>5
    <3>2. x \in Salvaged' <=> x \in Salvaged
      BY <1>5, <2>5
    <3> QED
      BY <2>1, <2>2, <2>5, <3>1, <3>2
  <2> QED
    BY <2>4, <2>5
<1>7. refs' \in [Timers -> 0..2]
  BY <1>1, <1>6
<1> HIDE DEF count
<1>8. \A x \in Timers : count[x] # 0 <=> x \in Listed' \cup Salvaged'
  BY <1>6
<1>9. Salvaged' \subseteq Timers
  <2>1. curSalvaged => cur \in Timers
    BY DEF EntryType, CurrentTimer
  <2> QED
    BY <1>2, <1>5, <2>1 DEF Salvaged
<1>10. due' \subseteq Listed'
  BY <1>1, <1>2 DEF References
<1>11. ticked' \subseteq Listed' \cup Salvaged'
  <2>1. ticked \subseteq Timers
    BY <1>2 DEF References, Salvaged, EntryType, CurrentTimer
  <2> QED
    BY <1>1, <1>8, <2>1
<1>12. References'
  BY <1>1, <1>6, <1>7, <1>10, <1>11 DEF References
<1> QED
  BY <1>1, <1>2, <1>4, <1>8, <1>9, <1>12

\* The lists, the current timer but for its place, and the times.
LEMMA ReleasedTimers ==
  ASSUME EntryType, Table, Lists, References, CurrentTimer, Times, NEW f,
         NEW S, S \subseteq Listed, Losing(S), Releasing(S, f),
         Fields(f, Listed \ S), UNCHANGED <<iter, cur, span>>,
         at' \in Running <=> at \in Running,
         at' \in {"delay", "loop"} => at' = at /\ f = timer
  PROVE  /\ Lists' /\ Times' /\ timer' \in [Timers -> TimerFields]
         /\ cur' # None <=> at' \in Running
         /\ cur' = None => ~curSalvaged'
         /\ cur' # None => timer'[cur'].target = iter'
         /\ curSalvaged' => cur' \notin Listed'
<1>1. /\ References' /\ curSalvaged' \in BOOLEAN
      /\ curSalvaged' = (curSalvaged \/ cur \in S)
      /\ \A x \in Listed' \cup Salvaged' : x \in Timers /\ timer'[x] = f[x]
      /\ \A x \in Timers : timer'[x] \in {f[x], NoTimer}
  BY ReleasedReferences
<1>2. Listed' = Listed \ S /\ Listed \subseteq Timers
  BY ListedTimers, ListedLess
<1>3. timer' \in [Timers -> TimerFields]
  <2>1. timer' = [x \in Timers |-> timer'[x]]
    BY DEF Releasing
  <2>2. \A x \in Timers : timer'[x] \in TimerFields
    BY <1>1, NoTimerFields DEF Fields
  <2> QED
    BY <2>1, <2>2
<1>4. Lists'
  <2>1. ASSUME NEW t \in Targets, NEW x \in ToSet(timers'[t])
        PROVE  /\ x \in ToSet(timers[t]) /\ timer'[x] = f[x]
               /\ timer'[x].target = t /\ timer'[x].key = timer[x].key
    <3>1. x \in ToSet(timers[t]) /\ x \in Listed'
      BY <2>1 DEF Losing, Listed
    <3>2. timer'[x] = f[x] /\ x \in Timers
      BY <1>1, <3>1
    <3>3. f[x].target = timer[x].target /\ f[x].key = timer[x].key
      BY <3>2 DEF Fields
    <3>4. timer[x].target = t
      BY <3>1 DEF Lists
    <3> QED
      BY <3>1, <3>2, <3>3, <3>4
  <2>2. ASSUME NEW t \in Targets, NEW x \in ToSet(timers'[t]),
               NEW y \in ToSet(timers'[t]), timer'[x].key = timer'[y].key
        PROVE  x = y
    <3>1. /\ x \in ToSet(timers[t]) /\ y \in ToSet(timers[t])
          /\ timer[x].key = timer[y].key
      BY <2>1, <2>2
    <3> QED
      BY <3>1 DEF Lists
  <2>3. timers' \in [Targets -> Seq(Timers)] /\ \A t \in Targets : OneEach(timers'[t])
    BY DEF Losing
  <2> QED
    BY <2>1, <2>2, <2>3 DEF Lists
<1>5. cur # None => cur \in Listed' \cup Salvaged'
  <2>1. SUFFICES ASSUME cur # None PROVE cur \in Listed' \cup Salvaged'
    OBVIOUS
  <2>2. cur \in Listed \/ curSalvaged
    BY <2>1, CurrentIsHeld
  <2>3. CASE curSalvaged'
    BY <2>3 DEF Salvaged
  <2>4. CASE ~curSalvaged'
    BY <1>1, <1>2, <2>2, <2>4
  <2> QED
    BY <2>3, <2>4
<1>6. cur # None => cur \in Timers /\ timer'[cur] = f[cur]
  BY <1>1, <1>5
<1>7. Times'
  <2>1. NoTimer.elapsed = -1 /\ NoTimer.forever = FALSE /\ NoTimer.executed = 0
        /\ NoTimer.repeat = 0
    BY DEF NoTimer
  <2>2. ASSUME NEW x \in Timers
        PROVE  /\ timer'[x].elapsed \in Nat \cup {-1}
               /\ timer'[x].forever \/ timer'[x].executed <= timer'[x].repeat + 1
    <3>1. CASE timer'[x] = f[x]
      BY <3>1 DEF Fields
    <3>2. CASE timer'[x] = NoTimer
      BY <2>1, <3>2
    <3> QED
      BY <1>1, <3>1, <3>2
  <2>3. ASSUME at' \in {"delay", "loop"}
        PROVE  at' = at /\ f = timer /\ cur # None /\ timer'[cur] = timer[cur]
    <3>1. at' = at /\ f = timer
      BY <2>3
    <3>2. cur # None
      BY <2>3, <3>1 DEF CurrentTimer, Running
    <3> QED
      BY <1>6, <3>1, <3>2
  <2>4. at' = "delay" => timer'[cur'].elapsed >= timer'[cur'].delay
    BY <2>3 DEF Times
  <2>5. at' = "loop" => timer'[cur'].elapsed >= span'
    BY <2>3 DEF Times
  <2>6. ASSUME NEW x \in Timers, x \in Listed' \/ (x = cur' /\ at' \in {"delay", "loop"})
        PROVE  timer'[x].forever \/ timer'[x].executed <= timer'[x].repeat
    <3>1. CASE x \in Listed'
      <4>1. timer'[x] = f[x] /\ x \in Listed \ S
        BY <1>1, <1>2, <3>1
      <4> QED
        BY <4>1 DEF Fields
    <3>2. CASE x = cur' /\ at' \in {"delay", "loop"}
      <4>1. timer'[x] = timer[x] /\ x = cur /\ at \in {"delay", "loop"}
        BY <2>3, <3>2
      <4> QED
        BY <4>1 DEF Times
    <3> QED
      BY <2>6, <3>1, <3>2
  <2> QED
    BY <2>2, <2>4, <2>5, <2>6 DEF Times
<1>8. cur' # None => timer'[cur'].target = iter'
  <2>1. SUFFICES ASSUME cur # None PROVE timer'[cur].target = iter
    OBVIOUS
  <2>2. cur \in Timers /\ timer'[cur] = f[cur]
    BY <1>6, <2>1
  <2>3. f[cur].target = timer[cur].target
    BY <2>2 DEF Fields
  <2> QED
    BY <2>1, <2>2, <2>3 DEF CurrentTimer
<1>9. cur' # None <=> at' \in Running
  BY DEF CurrentTimer
<1>10. cur' = None => ~curSalvaged'
  <2>1. cur = None => cur \notin Timers
    BY SchedulerAssumption
  <2> QED
    BY <1>1, <1>2, <2>1 DEF CurrentTimer
<1>11. curSalvaged' => cur' \notin Listed'
  BY <1>1, <1>2 DEF CurrentTimer
<1> QED
  BY <1>3, <1>4, <1>7, <1>8, <1>9, <1>10, <1>11

\* The timers of t leave; then perhaps t leaves the table.
LEMMA LeavingTable ==
  ASSUME EntryType, Table, Lists, NEW t \in ToSet(order), NEW left,
         Leaving(t, left), UNCHANGED iter, Walking' <=> Walking,
         at' = at \/ Walking, Walking \/ iter = None
  PROVE  Table' /\ paused' \in [Targets -> BOOLEAN] /\ targetSalvaged' \in BOOLEAN
<1> DEFINE leaves == left = <<>> /\ ~InUse(t)
<1>1. /\ timers' = [timers EXCEPT ![t] = left]
      /\ order' = IF leaves THEN Without(order, t) ELSE order
      /\ paused' = [paused EXCEPT ![t] = @ /\ ~leaves]
      /\ targetSalvaged' = (targetSalvaged \/ (left = <<>> /\ InUse(t)))
  BY DEF Leaving
<1>2. /\ order \in Seq(Targets) /\ OneEach(order) /\ ToSet(order) \subseteq Targets
      /\ timers \in [Targets -> Seq(Timers)] /\ t \in Targets
  BY Members DEF Table, Lists
<1>3. timers'[t] = left /\ \A u \in Targets : u # t => timers'[u] = timers[u]
  BY <1>1, <1>2
<1>4. Current' = Current
  BY DEF Current
<1>5. leaves \in BOOLEAN /\ targetSalvaged \in BOOLEAN /\ paused \in [Targets -> BOOLEAN]
  BY DEF EntryType
<1>6. targetSalvaged' \in BOOLEAN /\ (targetSalvaged => targetSalvaged')
  BY <1>1, <1>5
<1>7. paused' \in [Targets -> BOOLEAN]
  <2>1. (paused[t] /\ ~leaves) \in BOOLEAN
    OBVIOUS
  <2> HIDE DEF leaves
  <2> QED
    BY <1>1, <1>2, <1>5, <2>1
<1>8. CASE leaves
  <2>1. order' = Without(order, t) /\ left = <<>> /\ t # Current
    BY <1>1, <1>8 DEF InUse
  <2>2. order' \in Seq(Targets) /\ OneEach(order') /\ ToSet(order') = ToSet(order) \ {t}
    BY <1>2, <2>1, WithoutOne
  <2>3. iter # None => iter # t /\ iter \in ToSet(order)
    BY <2>1 DEF Current, Table, WalkValid, Known
  <2>4. ASSUME NEW u \in ToSet(order'), timers'[u] = <<>>
        PROVE  u = Current' /\ targetSalvaged'
    <3>1. u \in ToSet(order) /\ u # t /\ u \in Targets /\ timers[u] = <<>>
      BY <1>2, <1>3, <2>2, <2>4
    <3>2. u = Current /\ targetSalvaged
      BY <3>1 DEF Table, WalkValid
    <3> QED
      BY <1>4, <1>6, <3>2
  <2>5. WalkValid'
    BY <2>2, <2>3, <2>4 DEF WalkValid, Known
  <2>6. \A u \in Targets : u \notin ToSet(order') => timers'[u] = <<>>
    BY <1>3, <2>1, <2>2 DEF Table
  <2> QED
    BY <1>6, <1>7, <2>2, <2>5, <2>6 DEF Table, Walking
<1>9. CASE ~leaves
  <2>1. order' = order
    BY <1>1, <1>9
  <2>2. ASSUME NEW u \in ToSet(order'), timers'[u] = <<>>
        PROVE  u = Current' /\ targetSalvaged'
    <3>1. u \in ToSet(order) /\ u \in Targets
      BY <1>2, <2>1, <2>2
    <3>2. CASE u = t
      <4>1. left = <<>> /\ InUse(t)
        BY <1>3, <1>9, <2>2, <3>2
      <4>2. targetSalvaged'
        BY <1>1, <4>1
      <4> QED
        BY <1>4, <3>2, <4>1, <4>2 DEF InUse
    <3>3. CASE u # t
      <4>1. timers[u] = <<>>
        BY <1>3, <2>2, <3>1, <3>3
      <4>2. u = Current /\ targetSalvaged
        BY <3>1, <4>1 DEF Table, WalkValid
      <4> QED
        BY <1>4, <1>6, <4>2
    <3> QED
      BY <3>2, <3>3
  <2>3. WalkValid'
    BY <2>1, <2>2 DEF WalkValid, Known, Table
  <2>4. \A u \in Targets : u \notin ToSet(order') => timers'[u] = <<>>
    BY <1>3, <2>1 DEF Table
  <2>5. order' \in Seq(Targets) /\ OneEach(order')
    BY <1>2, <2>1
  <2> QED
    BY <1>6, <1>7, <2>3, <2>4, <2>5 DEF Table, Walking
<1> QED
  BY <1>8, <1>9

\* timerIndex when the timer at place p of n leaves: the places behind it stay
\* behind it.
LEMMA IndexArithmetic ==
  ASSUME NEW n \in Nat, NEW p \in 1..n, NEW i \in Int, NEW j \in Int,
         j = IF i >= p - 1 THEN i - 1 ELSE i
  PROVE  /\ i >= -1 => j >= -1
         /\ j <= i
         /\ \A k \in 1..n - 1 :
              k > j + 1 <=> (IF k < p THEN k ELSE k + 1) > i + 1
         /\ i >= 0 /\ i + 1 \in 1..n /\ i + 1 # p =>
              /\ j >= 0 /\ j + 1 \in 1..n - 1
              /\ (IF j + 1 < p THEN j + 1 ELSE (j + 1) + 1) = i + 1
OBVIOUS

\* update stands as before among the timers that are left, in the target that
\* loses one.
LEMMA IndexFollows ==
  ASSUME EntryType, Table, Lists, References, CurrentTimer, Index, NEW f, NEW x,
         x \in ToSet(timers[iter]), Releasing({x}, f),
         timers'[iter] = Without(timers[iter], x),
         index' = IF index >= Place(timers[iter], x) - 1 THEN index - 1 ELSE index,
         at \in {"delay", "loop"}, at' \in Running, UNCHANGED <<iter, cur>>,
         curSalvaged' = (curSalvaged \/ cur \in {x})
  PROVE  Index' /\ CurrentPlace'
<1>1. cur # None /\ iter \in Targets /\ at \in Running
  BY CurrentIsHeld DEF CurrentTimer, Running
<1> DEFINE s == timers[iter]
           w == Without(s, x)
           n == Len(s)
           p == Place(s, x)
           Old(k) == IF k < p THEN k ELSE k + 1
<1>2. s \in Seq(Timers) /\ OneEach(s) /\ DOMAIN s = 1..n /\ n \in Nat
  BY <1>1, LenProperties DEF Lists
<1>3. p \in 1..n /\ s[p] = x
  BY <1>2, PlaceOf
<1>4. /\ w \in Seq(Timers) /\ Len(w) = n - 1
      /\ \A k \in 1..n - 1 : w[k] = s[Old(k)]
  <2>1. /\ w \in Seq(Timers) /\ Len(w) = n - 1
        /\ \A k \in 1..n - 1 : w[k] = IF k < p THEN s[k] ELSE s[k + 1]
    BY <1>2, WithoutOne
  <2> QED
    BY <2>1
<1>5. DOMAIN w = 1..n - 1
  BY <1>2, <1>4, LenProperties
<1>6. \A k \in 1..n - 1 : Old(k) \in 1..n
  BY <1>2, <1>3
<1>7. index \in -1..Cardinality(Timers) /\ index < Cardinality(Timers)
      /\ Cardinality(Timers) \in Nat
  BY <1>1, FS_CardinalityType, SchedulerAssumption DEF Index
<1>8. /\ index >= -1 => index' >= -1
      /\ index' <= index
      /\ \A k \in 1..n - 1 : k > index' + 1 <=> Old(k) > index + 1
      /\ index >= 0 /\ index + 1 \in 1..n /\ index + 1 # p =>
           index' >= 0 /\ index' + 1 \in 1..n - 1 /\ Old(index' + 1) = index + 1
  <2>1. PICK i \in Int, j \in Int : i = index /\ j = index'
    BY <1>2, <1>3, <1>7
  <2>2. j = IF i >= p - 1 THEN i - 1 ELSE i
    BY <2>1
  <2> HIDE DEF p, n
  <2>3. /\ i >= -1 => j >= -1
        /\ j <= i
        /\ \A k \in 1..n - 1 : k > j + 1 <=> Old(k) > i + 1
        /\ i >= 0 /\ i + 1 \in 1..n /\ i + 1 # p =>
             j >= 0 /\ j + 1 \in 1..n - 1 /\ Old(j + 1) = i + 1
    BY <1>2, <1>3, <2>2, IndexArithmetic
  <2> QED
    BY <2>1, <2>3
<1>9. Seen = index + 1 /\ (at' # "timers" /\ Seen' = index' + 1) /\ Walking
  BY DEF Seen, Running, Walking
<1>10. \A k \in 1..n : /\ k > index + 1 => s[k] \notin ticked
                       /\ s[k] \in due => k > index + 1
  BY <1>2, <1>9 DEF Index
<1>11. ticked' \subseteq ticked /\ due' \subseteq due
  BY DEF Releasing
<1> HIDE DEF Old, p, n
<1>12. ASSUME NEW k \in 1..n - 1
       PROVE  /\ k > Seen' => w[k] \notin ticked'
              /\ w[k] \in due' => k > Seen'
  BY <1>4, <1>6, <1>8, <1>9, <1>10, <1>11
<1>13. timers'[iter'] = w
  OBVIOUS
<1> HIDE DEF w
<1>14. Index'
  <2>1. index' \in -1..Cardinality(Timers) /\ index' < Cardinality(Timers)
    <3>1. PICK c \in Nat : c = Cardinality(Timers)
      BY <1>7
    <3>2. index' \in Int
      BY <1>2, <1>3, <1>7 DEF p
    <3> QED
      BY <1>7, <1>8, <3>1, <3>2
  <2> QED
    BY <1>5, <1>9, <1>12, <1>13, <2>1 DEF Index
<1>15. CurrentPlace'
  <2>1. SUFFICES ASSUME ~curSalvaged'
                 PROVE  index' >= 0 /\ index' + 1 \in DOMAIN w /\ w[index' + 1] = cur
    BY <1>13 DEF CurrentPlace
  <2>2. ~curSalvaged /\ cur # x
    BY <2>1
  <2>3. index >= 0 /\ index + 1 \in 1..n /\ s[index + 1] = cur
    BY <1>1, <1>2, <2>2 DEF CurrentTimer, CurrentPlace
  <2>4. index + 1 # p
    BY <1>3, <2>2, <2>3
  <2> QED
    BY <1>4, <1>5, <1>8, <2>3, <2>4
<1> QED
  BY <1>14, <1>15

\* update stands as before in a target whose timers stay, or leave all together.
LEMMA IndexStays ==
  ASSUME CurrentTimer, Index, UNCHANGED <<iter, index, cur>>,
         Walking => timers'[iter] \in {timers[iter], <<>>},
         ticked' \subseteq ticked, due' \subseteq due,
         at' = at \/ (at \in {"delay", "loop"} /\ at' \in Running)
                  \/ {at, at'} \cap (Running \cup {"timers"}) = {},
         cur # None /\ ~curSalvaged' => ~curSalvaged /\ timers'[iter] = timers[iter]
  PROVE  Index' /\ CurrentPlace'
<1>1. (Walking' <=> Walking) /\ (Walking => Seen' = Seen)
  BY DEF Walking, Seen, Running
<1>2. DOMAIN <<>> = {}
  OBVIOUS
<1>3. Index'
  <2>1. ASSUME Walking', NEW i \in DOMAIN timers'[iter]
        PROVE  /\ i > Seen' => timers'[iter][i] \notin ticked'
               /\ timers'[iter][i] \in due' => i > Seen'
    <3>1. Walking /\ timers'[iter] = timers[iter]
      BY <1>1, <1>2, <2>1
    <3> QED
      BY <1>1, <2>1, <3>1 DEF Index
  <2>2. /\ index' \in -1..Cardinality(Timers)
        /\ at' = "timers" => index' >= 0
        /\ at' \in Running => index' < Cardinality(Timers)
    BY DEF Index, Running
  <2> QED
    BY <2>1, <2>2 DEF Index
<1>4. CurrentPlace'
  BY DEF CurrentTimer, CurrentPlace
<1> QED
  BY <1>3, <1>4

\* In a callback, update stands in a target with its timer or nowhere.
LEMMA CallbackPlace ==
  ASSUME EntryType, Table, CurrentTimer, InCallback
  PROVE  /\ Walking <=> at \in {"delay", "loop"}
         /\ Walking => cur # None /\ iter \in Targets /\ Current = iter
         /\ ~Walking => cur = None /\ iter = None /\ Current = None
BY DEF InCallback, Walking, Running, EntryType, Table, CurrentTimer, Current

LEMMA FieldsStay ==
  ASSUME EntryType, Times, NEW S, S \subseteq Timers, S \subseteq Listed
  PROVE  Fields(timer, S)
BY DEF EntryType, Times, Fields

\* One timer leaves the list of t: unschedule by a caller, or by cancel after the
\* last callback of a timer.
LEMMA OneUnscheduled ==
  ASSUME TInv, NEW t \in Targets, NEW k, Named(t, k) # {}, NEW f,
         Unscheduling(t, k, f), UNCHANGED <<iter, cur, span>>, FrameType', InCallback,
         (at' = at /\ f = timer) \/ (Walking /\ at' = "after"),
         \A x \in Named(t, k) : Fields(f, Listed \ {x})
  PROVE  TInv'
<1>1. PICK x \in Named(t, k) :
        /\ Releasing({x}, f)
        /\ Leaving(t, Without(timers[t], x))
        /\ index' = IndexWithout(t, Place(timers[t], x))
  BY DEF Unscheduling
<1> DEFINE w == Without(timers[t], x)
<1>2. x \in ToSet(timers[t]) /\ Fields(f, Listed \ {x})
  BY DEF Named
<1>3. /\ timers \in [Targets -> Seq(Timers)] /\ timers[t] \in Seq(Timers)
      /\ \A u \in Targets : OneEach(timers[u])
      /\ \A u \in Targets : \A y \in ToSet(timers[u]) : timer[y].target = u
  BY DEF TInv, Lists
<1>4. w \in Seq(Timers) /\ OneEach(w) /\ ToSet(w) = ToSet(timers[t]) \ {x}
  BY <1>2, <1>3, WithoutOne
<1> HIDE DEF w
<1>5. timers' = [timers EXCEPT ![t] = w]
  BY <1>1 DEF Leaving, w
<1>6. timers'[t] = w /\ \A u \in Targets : u # t => timers'[u] = timers[u]
  BY <1>3, <1>5
<1>7. Losing({x})
  <2>1. timers' \in [Targets -> Seq(Timers)]
    BY <1>3, <1>4, <1>5
  <2>2. ASSUME NEW u \in Targets
        PROVE  OneEach(timers'[u]) /\ ToSet(timers'[u]) = ToSet(timers[u]) \ {x}
    <3>1. CASE u = t
      BY <1>4, <1>6, <3>1
    <3>2. CASE u # t
      <4>1. x \notin ToSet(timers[u])
        BY <1>2, <1>3, <3>2
      <4> QED
        BY <1>3, <1>6, <3>2, <4>1
    <3> QED
      BY <3>1, <3>2
  <2> QED
    BY <2>1, <2>2 DEF Losing
<1>8. {x} \subseteq Listed
  BY <1>2 DEF Listed
<1>9. /\ Walking <=> at \in {"delay", "loop"}
      /\ Walking => cur # None /\ iter \in Targets /\ Current = iter
      /\ ~Walking => cur = None /\ iter = None /\ Current = None
  BY CallbackPlace DEF TInv
<1>10. /\ Walking' <=> Walking
       /\ at' \in Running <=> at \in Running
       /\ at' = at \/ (at \in {"delay", "loop"} /\ at' \in Running)
       /\ at' \in {"delay", "loop"} => at' = at /\ f = timer
  BY <1>9 DEF Walking, Running, InCallback
<1>11. References' /\ curSalvaged' \in BOOLEAN /\ curSalvaged' = (curSalvaged \/ cur \in {x})
  BY <1>1, <1>7, <1>8, ReleasedReferences DEF TInv
<1>12. /\ Lists' /\ Times' /\ timer' \in [Timers -> TimerFields]
       /\ cur' # None <=> at' \in Running
       /\ cur' = None => ~curSalvaged'
       /\ cur' # None => timer'[cur'].target = iter'
       /\ curSalvaged' => cur' \notin Listed'
  BY <1>1, <1>2, <1>7, <1>8, <1>10, ReleasedTimers DEF TInv
<1>13. t \in ToSet(order)
  <2>1. timers[t] # <<>>
    BY <1>2, EmptyList
  <2> QED
    BY <2>1 DEF TInv, Table
<1>14. Table' /\ paused' \in [Targets -> BOOLEAN] /\ targetSalvaged' \in BOOLEAN
  BY <1>1, <1>9, <1>10, <1>13, LeavingTable DEF TInv
<1>15. Index' /\ CurrentPlace'
  <2>1. CASE Walking /\ t = iter
    <3>1. index' = IF index >= Place(timers[iter], x) - 1 THEN index - 1 ELSE index
      BY <1>1, <1>9, <2>1 DEF IndexWithout, InUse
    <3>2. timers'[iter] = Without(timers[iter], x)
      BY <1>6, <2>1 DEF w
    <3>3. at \in {"delay", "loop"} /\ at' \in Running
      BY <1>9, <1>10, <2>1 DEF Running
    <3> QED
      BY <1>1, <1>2, <1>11, <2>1, <3>1, <3>2, <3>3, IndexFollows DEF TInv
  <2>2. CASE ~(Walking /\ t = iter)
    <3>1. t # None
      BY SchedulerAssumption
    <3>2. index' = index
      BY <1>1, <1>9, <2>2, <3>1 DEF IndexWithout, InUse
    <3>3. Walking => timers'[iter] = timers[iter]
      BY <1>6, <1>9, <2>2
    <3>4. ticked' \subseteq ticked /\ due' \subseteq due
      BY <1>1 DEF Releasing
    <3>5. cur # None /\ ~curSalvaged' => ~curSalvaged /\ timers'[iter] = timers[iter]
      BY <1>9, <1>11, <3>3
    <3> QED
      BY <1>10, <3>2, <3>3, <3>4, <3>5, IndexStays DEF TInv
  <2> QED
    BY <2>1, <2>2
<1>16. EntryType'
  BY <1>11, <1>12, <1>14 DEF EntryType, TInv
<1>17. CurrentTimer'
  BY <1>12, <1>15 DEF CurrentTimer
<1> QED
  BY <1>11, <1>12, <1>14, <1>15, <1>16, <1>17 DEF TInv

\* All timers of some targets leave: unscheduleAllForTarget, unscheduleAll.
LEMMA ManyUnscheduled ==
  ASSUME TInv, NEW S, S \subseteq Listed, Releasing(S, timer), Losing(S),
         UNCHANGED <<iter, index, cur, span, at>>, FrameType', InCallback,
         Walking => timers'[iter] \in {timers[iter], <<>>},
         Table', paused' \in [Targets -> BOOLEAN], targetSalvaged' \in BOOLEAN
  PROVE  TInv'
<1>1. /\ Walking <=> at \in {"delay", "loop"}
      /\ Walking => cur # None /\ iter \in Targets /\ Current = iter
      /\ ~Walking => cur = None /\ iter = None /\ Current = None
  BY CallbackPlace DEF TInv
<1>2. Listed \subseteq Timers
  BY ListedTimers DEF TInv
<1>3. Fields(timer, Listed \ S)
  BY <1>2, FieldsStay DEF TInv
<1>4. References' /\ curSalvaged' \in BOOLEAN /\ curSalvaged' = (curSalvaged \/ cur \in S)
  BY ReleasedReferences DEF TInv
<1>5. /\ Lists' /\ Times' /\ timer' \in [Timers -> TimerFields]
      /\ cur' # None <=> at' \in Running
      /\ cur' = None => ~curSalvaged'
      /\ cur' # None => timer'[cur'].target = iter'
      /\ curSalvaged' => cur' \notin Listed'
  BY <1>3, ReleasedTimers DEF TInv
<1>6. cur # None /\ ~curSalvaged' => ~curSalvaged /\ timers'[iter] = timers[iter]
  <2>1. SUFFICES ASSUME cur # None, ~curSalvaged'
                 PROVE  ~curSalvaged /\ timers'[iter] = timers[iter]
    OBVIOUS
  <2>2. ~curSalvaged /\ cur \notin S /\ Walking
    BY <1>1, <1>4, <2>1
  <2>3. cur \in ToSet(timers[iter]) /\ iter \in Targets
    BY <1>1, <2>2, CurrentIsHeld DEF TInv
  <2>4. cur \in ToSet(timers'[iter])
    BY <2>2, <2>3 DEF Losing
  <2>5. timers'[iter] # <<>>
    BY <2>4, EmptyList
  <2> QED
    BY <2>2, <2>5
<1>7. ticked' \subseteq ticked /\ due' \subseteq due
  BY DEF Releasing
<1>8. Index' /\ CurrentPlace'
  BY <1>6, <1>7, IndexStays DEF TInv
<1>9. EntryType'
  BY <1>4, <1>5 DEF EntryType, TInv
<1>10. CurrentTimer'
  BY <1>5, <1>8 DEF CurrentTimer
<1> QED
  BY <1>4, <1>5, <1>8, <1>9, <1>10 DEF TInv
-----------------------------------------------------------------------------
(* The interface keeps the invariant. *)

LEMMA CallFrame ==
  ASSUME TInv, Call, UNCHANGED <<dt, span, racing, posted, at>>
  PROVE  FrameType' /\ InCallback
BY SchedulerAssumption DEF Call, TInv, FrameType

LEMMA UnscheduleStep ==
  ASSUME TInv, NEW t \in Targets, NEW k, Unschedule(t, k) PROVE TInv'
<1>1. /\ Named(t, k) # {} /\ Unscheduling(t, k, timer) /\ Call
      /\ UNCHANGED <<iter, cur, dt, span, at, racing, posted>>
  BY DEF Unschedule, queue
<1>2. FrameType' /\ InCallback
  BY <1>1, CallFrame
<1>3. \A x \in Named(t, k) : Fields(timer, Listed \ {x})
  <2>1. Listed \subseteq Timers
    BY ListedTimers DEF TInv
  <2> QED
    BY <2>1, FieldsStay DEF TInv
<1> QED
  BY <1>1, <1>2, <1>3, OneUnscheduled

LEMMA UnscheduleAllForTargetStep ==
  ASSUME TInv, NEW t \in Targets, UnscheduleAllForTarget(t) PROVE TInv'
<1> DEFINE S == ToSet(timers[t])
<1>1. /\ Releasing(S, timer) /\ Leaving(t, <<>>) /\ Call /\ t \in ToSet(order)
      /\ UNCHANGED <<iter, index, cur, dt, span, at, racing, posted>>
  BY DEF UnscheduleAllForTarget, queue, Known
<1>2. FrameType' /\ InCallback
  BY <1>1, CallFrame
<1>3. /\ timers \in [Targets -> Seq(Timers)] /\ timers' = [timers EXCEPT ![t] = <<>>]
      /\ \A u \in Targets : OneEach(timers[u])
      /\ \A u \in Targets : \A y \in ToSet(timers[u]) : timer[y].target = u
  BY <1>1 DEF TInv, Lists, Leaving
<1>4. \A u \in Targets : timers'[u] = IF u = t THEN <<>> ELSE timers[u]
  BY <1>3
<1>5. S \subseteq Listed
  BY DEF Listed
<1>6. Losing(S)
  <2>1. timers' \in [Targets -> Seq(Timers)]
    BY <1>3, EmptyList
  <2>2. ASSUME NEW u \in Targets
        PROVE  OneEach(timers'[u]) /\ ToSet(timers'[u]) = ToSet(timers[u]) \ S
    <3>1. CASE u = t
      BY <1>4, <3>1, EmptyList
    <3>2. CASE u # t
      <4>1. ToSet(timers[u]) \cap S = {}
        BY <1>3, <3>2
      <4> QED
        BY <1>3, <1>4, <3>2, <4>1
    <3> QED
      BY <3>1, <3>2
  <2> QED
    BY <2>1, <2>2 DEF Losing
<1>7. /\ Walking => iter \in Targets
      /\ Walking \/ iter = None
  BY <1>2, CallbackPlace DEF TInv
<1>8. Walking => timers'[iter] \in {timers[iter], <<>>}
  BY <1>4, <1>7
<1>9. Walking' <=> Walking
  BY <1>1 DEF Walking
<1>10. Table' /\ paused' \in [Targets -> BOOLEAN] /\ targetSalvaged' \in BOOLEAN
  BY <1>1, <1>7, <1>9, LeavingTable DEF TInv
<1> QED
  BY <1>1, <1>2, <1>5, <1>6, <1>8, <1>10, ManyUnscheduled

LEMMA UnscheduleAllStep == ASSUME TInv, UnscheduleAll PROVE TInv'
<1>1. /\ Releasing(Listed, timer) /\ Call
      /\ timers' = [t \in Targets |-> <<>>]
      /\ order' = IF Current = None THEN <<>> ELSE <<Current>>
      /\ paused' = [t \in Targets |-> paused[t] /\ t = Current]
      /\ targetSalvaged' = (targetSalvaged \/ Current # None)
      /\ UNCHANGED <<iter, index, cur, dt, span, at, racing, posted>>
  BY DEF UnscheduleAll, queue, Listed
<1>2. FrameType' /\ InCallback
  BY <1>1, CallFrame
<1>3. Losing(Listed)
  <2>1. timers' \in [Targets -> Seq(Timers)]
    BY <1>1, EmptyList
  <2>2. ASSUME NEW u \in Targets
        PROVE  OneEach(timers'[u]) /\ ToSet(timers'[u]) = ToSet(timers[u]) \ Listed
    <3>1. timers'[u] = <<>> /\ ToSet(timers[u]) \subseteq Listed
      BY <1>1 DEF Listed
    <3> QED
      BY <3>1, EmptyList
  <2> QED
    BY <2>1, <2>2 DEF Losing
<1>4. /\ Walking => cur # None /\ iter \in Targets /\ Current = iter
      /\ ~Walking => iter = None /\ Current = None
  BY <1>2, CallbackPlace DEF TInv
<1>5. Walking => timers'[iter] \in {timers[iter], <<>>}
  BY <1>1, <1>4
<1>6. targetSalvaged' \in BOOLEAN /\ paused' \in [Targets -> BOOLEAN]
  BY <1>1 DEF TInv, EntryType
<1>7. Table'
  <2>1. None \notin Targets
    BY SchedulerAssumption
  <2>2. /\ order' \in Seq(Targets) /\ OneEach(order')
        /\ \A t \in ToSet(order') : t = Current /\ Current # None
        /\ Current # None => Current \in ToSet(order')
    <3>1. CASE Current = None
      BY <1>1, <3>1, EmptyList
    <3>2. CASE Current # None
      <4>1. order' = <<Current>> /\ Current \in Targets
        BY <1>1, <1>4, <3>2
      <4>2. /\ order' \in Seq(Targets) /\ DOMAIN order' = {1} /\ order'[1] = Current
        BY <4>1
      <4> QED
        BY <3>2, <4>2 DEF OneEach, ToSet
    <3> QED
      BY <3>1, <3>2
  <2>3. Current' = Current
    BY <1>1 DEF Current, Walking
  <2>4. WalkValid'
    BY <1>1, <1>4, <2>1, <2>2, <2>3 DEF WalkValid, Known
  <2>5. \A t \in Targets : timers'[t] = <<>>
    BY <1>1
  <2> QED
    BY <1>1, <2>2, <2>4, <2>5 DEF Table, TInv, Walking
<1> QED
  BY <1>1, <1>2, <1>3, <1>5, <1>6, <1>7, ManyUnscheduled

\* Steps that leave the lists and the current timer alone.
LEMMA TimersStay ==
  ASSUME TInv, FrameType', Table', Index', paused' \in [Targets -> BOOLEAN],
         iter' \in Targets \cup {None}, targetSalvaged' \in BOOLEAN,
         UNCHANGED <<timers, timer, refs, cur, curSalvaged>>,
         due' \subseteq Listed, ticked' \subseteq ticked,
         at' \in Running <=> at \in Running,
         cur # None => UNCHANGED <<iter, index, at, span>>
  PROVE  TInv'
<1>1. Listed' = Listed /\ Salvaged' = Salvaged
  BY DEF Listed, Salvaged
<1>2. References'
  BY <1>1 DEF TInv, References
<1>3. CurrentTimer'
  BY <1>1 DEF TInv, CurrentTimer, CurrentPlace
<1>4. Lists'
  BY DEF TInv, Lists
<1>5. at' \in {"delay", "loop"} => UNCHANGED <<at, span>>
  BY DEF TInv, CurrentTimer, Running
<1>6. Times'
  BY <1>1, <1>5 DEF TInv, Times
<1>7. EntryType'
  BY DEF TInv, EntryType
<1> QED
  BY <1>2, <1>3, <1>4, <1>6, <1>7 DEF TInv

\* The table stays, but perhaps its pauses.
LEMMA TableStays ==
  ASSUME Table, UNCHANGED <<order, timers, iter, targetSalvaged>>,
         Walking' <=> Walking,
         at' \in {"idle", "functions", "perform", "function"} => iter = None
  PROVE  Table'
<1>1. Current' = Current
  BY DEF Current
<1> QED
  BY <1>1 DEF Table, WalkValid, Known

LEMMA PauseStep ==
  ASSUME TInv, NEW t \in Targets, PauseTarget(t) \/ ResumeTarget(t) PROVE TInv'
<1>1. /\ Call
      /\ \E b \in BOOLEAN : paused' = [paused EXCEPT ![t] = b]
      /\ due' \subseteq due
      /\ UNCHANGED <<order, timers, timer, refs, walk, dt, span, ticked, queue, at>>
  BY DEF PauseTarget, ResumeTarget, frame
<1>2. /\ UNCHANGED <<order, timers, timer, refs, ticked, at>>
      /\ UNCHANGED <<iter, index, cur, curSalvaged, targetSalvaged>>
      /\ UNCHANGED <<dt, span, racing, posted>>
  BY <1>1 DEF walk, queue
<1>3. FrameType' /\ InCallback
  BY <1>1, <1>2, CallFrame
<1>4. paused' \in [Targets -> BOOLEAN]
  BY <1>1 DEF TInv, EntryType
<1>5. (Walking' <=> Walking)
      /\ (at' \in {"idle", "functions", "perform", "function"} => iter = None)
  BY <1>2 DEF Walking, TInv, Table
<1>6. Table'
  BY <1>2, <1>5, TableStays DEF TInv
<1>7. Index'
  BY <1>1, <1>2, IndexStays DEF TInv
<1>8. due' \subseteq Listed
  BY <1>1 DEF TInv, References
<1> QED
  BY <1>2, <1>3, <1>4, <1>6, <1>7, <1>8, TimersStay DEF TInv, EntryType

LEMMA RescheduleStep ==
  ASSUME TInv, NEW t \in Targets, NEW k \in Keys, NEW p \in Plans, Reschedule(t, k, p)
  PROVE  TInv'
<1>1. /\ Call
      /\ timer' = [x \in Timers |-> IF x \in Named(t, k)
                                      THEN [timer[x] EXCEPT !.interval = p.interval]
                                      ELSE timer[x]]
      /\ UNCHANGED <<order, paused, timers, refs, at, due, ticked>>
      /\ UNCHANGED <<iter, index, cur, curSalvaged, targetSalvaged>>
      /\ UNCHANGED <<dt, span, racing, posted>>
  BY DEF Reschedule, walk, frame, queue
<1>2. FrameType' /\ InCallback
  BY <1>1, CallFrame
<1>3. ASSUME NEW x \in Timers
      PROVE  /\ timer'[x] \in TimerFields
             /\ timer'[x].target = timer[x].target /\ timer'[x].key = timer[x].key
             /\ timer'[x].elapsed = timer[x].elapsed /\ timer'[x].delay = timer[x].delay
             /\ timer'[x].executed = timer[x].executed
             /\ timer'[x].forever = timer[x].forever /\ timer'[x].repeat = timer[x].repeat
  <2>1. timer[x] \in TimerFields
    BY DEF TInv, EntryType
  <2>2. p.interval \in Nat
    BY SchedulerAssumption
  <2>3. CASE x \in Named(t, k)
    <3>1. timer'[x] = [timer[x] EXCEPT !.interval = p.interval]
      BY <1>1, <2>3
    <3> QED
      BY <2>1, <2>2, <3>1 DEF TimerFields
  <2>4. CASE x \notin Named(t, k)
    <3>1. timer'[x] = timer[x]
      BY <1>1, <2>4
    <3> QED
      BY <2>1, <3>1
  <2> QED
    BY <2>3, <2>4
<1>4. timer' \in [Timers -> TimerFields]
  BY <1>1, <1>3
<1>5. Listed' = Listed /\ Salvaged' = Salvaged /\ Listed \subseteq Timers
  BY <1>1, ListedTimers DEF Listed, Salvaged, TInv
<1>6. References'
  BY <1>1, <1>5 DEF TInv, References
<1>7. Lists'
  <2>1. \A u \in Targets : ToSet(timers[u]) \subseteq Timers
    BY <1>5 DEF Listed
  <2> QED
    BY <1>1, <1>3, <2>1 DEF TInv, Lists
<1>8. cur # None => cur \in Timers
  BY DEF TInv, EntryType
<1>9. CurrentTimer'
  BY <1>1, <1>3, <1>5, <1>8 DEF TInv, CurrentTimer, CurrentPlace
<1>10. Times'
  <2>1. at \in {"delay", "loop"} => cur # None
    BY DEF TInv, CurrentTimer, Running
  <2>2. \A x \in Timers : timer'[x].elapsed \in Nat \cup {-1}
    BY <1>3 DEF TInv, Times
  <2>3. /\ at' = "delay" => timer'[cur'].elapsed >= timer'[cur'].delay
        /\ at' = "loop" => timer'[cur'].elapsed >= span'
    BY <1>1, <1>3, <1>8, <2>1 DEF TInv, Times
  <2>4. \A x \in Timers : timer'[x].forever \/ timer'[x].executed <= timer'[x].repeat + 1
    BY <1>3 DEF TInv, Times
  <2>5. \A x \in Timers : x \in Listed' \/ (x = cur' /\ at' \in {"delay", "loop"}) =>
          timer'[x].forever \/ timer'[x].executed <= timer'[x].repeat
    BY <1>1, <1>3, <1>5 DEF TInv, Times
  <2> QED
    BY <2>2, <2>3, <2>4, <2>5 DEF Times
<1>11. EntryType'
  BY <1>1, <1>4 DEF TInv, EntryType
<1>12. Table'
  BY <1>1, TableStays DEF TInv, Walking, Table
<1>13. Index'
  BY <1>1, IndexStays DEF TInv
<1> QED
  BY <1>2, <1>6, <1>7, <1>9, <1>10, <1>11, <1>12, <1>13 DEF TInv

LEMMA NewTimerFields ==
  ASSUME NEW t \in Targets, NEW k \in Keys, NEW p \in Plans
  PROVE  /\ NewTimer(t, k, p) \in TimerFields
         /\ NewTimer(t, k, p).target = t /\ NewTimer(t, k, p).key = k
         /\ NewTimer(t, k, p).elapsed = -1
         /\ NewTimer(t, k, p).executed = 0 /\ NewTimer(t, k, p).repeat \in Nat
<1>1. p \in [interval : Nat, repeat : Nat, forever : BOOLEAN, delay : Nat]
  BY SchedulerAssumption
<1>2. (p.delay > 0) \in BOOLEAN
  OBVIOUS
<1>3. /\ p.interval \in Nat /\ p.repeat \in Nat /\ p.forever \in BOOLEAN /\ p.delay \in Nat
  BY <1>1
<1>4. /\ NoTimer \in TimerFields
      /\ NoTimer.elapsed = -1 /\ NoTimer.executed = 0
  BY NoTimerFields DEF NoTimer
<1> QED
  BY <1>2, <1>3, <1>4 DEF NewTimer, TimerFields

\* A new timer is the last of its target.
LEMMA ScheduleStep ==
  ASSUME TInv, NEW t \in Targets, NEW k \in Keys, NEW p \in Plans,
         NEW b \in BOOLEAN, NEW x \in Timers, Schedule(t, k, p, b, x)
  PROVE  TInv'
<1> DEFINE new == NewTimer(t, k, p)
           w == Append(timers[t], x)
<1>1. /\ Call /\ Named(t, k) = {} /\ refs[x] = 0
      /\ timer' = [timer EXCEPT ![x] = new]
      /\ refs' = [refs EXCEPT ![x] = 1]
      /\ timers' = [timers EXCEPT ![t] = w]
      /\ \/ Known(t) /\ b = paused[t] /\ UNCHANGED <<order, paused>>
         \/ ~Known(t) /\ order' \in Insertions(t)
                      /\ paused' = [paused EXCEPT ![t] = b]
      /\ UNCHANGED <<at, due, ticked>>
      /\ UNCHANGED <<iter, index, cur, curSalvaged, targetSalvaged>>
      /\ UNCHANGED <<dt, span, racing, posted>>
  BY DEF Schedule, walk, frame, queue
<1>2. FrameType' /\ InCallback
  BY <1>1, CallFrame
<1>3. /\ timers \in [Targets -> Seq(Timers)] /\ timers[t] \in Seq(Timers)
      /\ \A u \in Targets : OneEach(timers[u])
      /\ \A u \in Targets : ToSet(timers[u]) \subseteq Listed
  BY DEF TInv, Lists, Listed
<1>4. Listed \subseteq Timers /\ x \notin Listed /\ x \notin Salvaged
  <2>1. refs[x] = (IF x \in Listed THEN 1 ELSE 0) + (IF x \in Salvaged THEN 1 ELSE 0)
    BY DEF TInv, References
  <2> QED
    BY <1>1, <2>1, ListedTimers DEF TInv
<1>5. cur # None => cur # x /\ cur \in Timers
  <2>1. cur # None => (cur \in Listed \/ curSalvaged) /\ cur \in Timers
    BY CurrentIsHeld DEF TInv
  <2> QED
    BY <1>4, <2>1 DEF Salvaged
<1>6. w \in Seq(Timers) /\ OneEach(w) /\ ToSet(w) = ToSet(timers[t]) \cup {x}
  BY <1>3, <1>4, WithOne
<1>7. /\ Len(timers[t]) \in Nat /\ DOMAIN timers[t] = 1..Len(timers[t])
      /\ DOMAIN w = 1..Len(timers[t]) + 1
      /\ \A i \in 1..Len(timers[t]) : w[i] = timers[t][i]
      /\ w[Len(timers[t]) + 1] = x
  BY <1>3, Appended
<1> HIDE DEF w
<1>8. \A u \in Targets : timers'[u] = IF u = t THEN w ELSE timers[u]
  BY <1>1, <1>3
<1>9. \A u \in Targets : ToSet(timers'[u]) = ToSet(timers[u]) \cup (IF u = t THEN {x} ELSE {})
  BY <1>6, <1>8
<1>10. Listed' = Listed \cup {x} /\ Salvaged' = Salvaged
  BY <1>1, <1>9 DEF Listed, Salvaged
<1>11. /\ new \in TimerFields
       /\ new.target = t /\ new.key = k
       /\ new.elapsed = -1
       /\ new.executed = 0 /\ new.repeat \in Nat
  BY NewTimerFields
<1> HIDE DEF new
<1>12. /\ timer' \in [Timers -> TimerFields] /\ timer'[x] = new
       /\ \A y \in Timers : y # x => timer'[y] = timer[y]
  BY <1>1, <1>11 DEF TInv, EntryType
<1>13. References'
  <2>1. refs' \in [Timers -> 0..2] /\ refs'[x] = 1 /\ \A y \in Timers : y # x => refs'[y] = refs[y]
    BY <1>1 DEF TInv, References
  <2>2. ASSUME NEW y \in Timers
        PROVE  refs'[y] = (IF y \in Listed' THEN 1 ELSE 0)
                          + (IF y \in Salvaged' THEN 1 ELSE 0)
    <3>1. CASE y = x
      BY <1>4, <1>10, <2>1, <3>1
    <3>2. CASE y # x
      BY <1>10, <2>1, <3>2 DEF TInv, References
    <3> QED
      BY <3>1, <3>2
  <2>3. due' \subseteq Listed' /\ ticked' \subseteq Listed' \cup Salvaged'
    BY <1>1, <1>10 DEF TInv, References
  <2> QED
    BY <2>1, <2>2, <2>3 DEF References
<1>14. Lists'
  <2>1. timers' \in [Targets -> Seq(Timers)]
    BY <1>1, <1>3, <1>6
  <2>2. \A u \in Targets : OneEach(timers'[u])
    BY <1>3, <1>6, <1>8
  <2>3. ASSUME NEW u \in Targets, NEW y \in ToSet(timers'[u])
        PROVE  \/ y = x /\ u = t /\ timer'[y] = new
               \/ y # x /\ y \in ToSet(timers[u]) /\ timer'[y] = timer[y]
    BY <1>3, <1>4, <1>9, <1>12, <2>3
  <2>4. \A u \in Targets : \A y \in ToSet(timers'[u]) : timer'[y].target = u
    <3>1. SUFFICES ASSUME NEW u \in Targets, NEW y \in ToSet(timers'[u])
                   PROVE  timer'[y].target = u
      OBVIOUS
    <3>2. CASE y = x /\ u = t /\ timer'[y] = new
      BY <1>11, <3>2
    <3>3. CASE y \in ToSet(timers[u]) /\ timer'[y] = timer[y]
      BY <3>3 DEF TInv, Lists
    <3> QED
      BY <2>3, <3>2, <3>3
  <2>5. ASSUME NEW u \in Targets, NEW y \in ToSet(timers'[u]), NEW z \in ToSet(timers'[u]),
               timer'[y].key = timer'[z].key
        PROVE  y = z
    <3>1. \A v \in ToSet(timers[t]) : timer[v].key # k
      BY <1>1 DEF Named
    <3>2. CASE y # x /\ z # x
      <4>1. /\ y \in ToSet(timers[u]) /\ z \in ToSet(timers[u])
            /\ timer[y].key = timer[z].key
        BY <2>3, <2>5, <3>2
      <4> QED
        BY <4>1 DEF TInv, Lists
    <3>3. CASE y = x /\ z # x
      <4>1. u = t /\ timer'[y] = new /\ z \in ToSet(timers[u]) /\ timer'[z] = timer[z]
        BY <2>3, <3>3
      <4> QED
        BY <1>11, <2>5, <3>1, <4>1
    <3>4. CASE y # x /\ z = x
      <4>1. u = t /\ timer'[z] = new /\ y \in ToSet(timers[u]) /\ timer'[y] = timer[y]
        BY <2>3, <3>4
      <4> QED
        BY <1>11, <2>5, <3>1, <4>1
    <3> QED
      BY <3>2, <3>3, <3>4
  <2> QED
    BY <2>1, <2>2, <2>4, <2>5 DEF Lists
<1>15. CurrentTimer'
  <2>1. CurrentPlace'
    <3>1. SUFFICES ASSUME cur # None, ~curSalvaged
                   PROVE  /\ index >= 0 /\ index + 1 \in DOMAIN timers'[iter]
                          /\ timers'[iter][index + 1] = cur
      BY <1>1 DEF CurrentPlace
    <3>2. /\ index >= 0 /\ index + 1 \in DOMAIN timers[iter]
          /\ timers[iter][index + 1] = cur
      BY <3>1 DEF TInv, CurrentTimer, CurrentPlace
    <3>3. iter \in Targets
      BY <3>1, CurrentIsHeld DEF TInv
    <3>4. CASE iter = t
      BY <1>7, <1>8, <3>2, <3>3, <3>4
    <3>5. CASE iter # t
      BY <1>8, <3>2, <3>3, <3>5
    <3> QED
      BY <3>4, <3>5
  <2>2. cur' # None => timer'[cur'].target = iter'
    BY <1>1, <1>5, <1>12 DEF TInv, CurrentTimer
  <2>3. curSalvaged' => cur' \notin Listed'
    <3>1. curSalvaged => cur # None
      BY DEF TInv, CurrentTimer
    <3> QED
      BY <1>1, <1>5, <1>10, <3>1 DEF TInv, CurrentTimer
  <2> QED
    BY <1>1, <2>1, <2>2, <2>3 DEF TInv, CurrentTimer
<1>16. Times'
  <2>1. at \in {"delay", "loop"} => cur # None
    BY DEF TInv, CurrentTimer, Running
  <2>2. \A y \in Timers : timer'[y].elapsed \in Nat \cup {-1}
    BY <1>11, <1>12 DEF TInv, Times
  <2>3. /\ at' = "delay" => timer'[cur'].elapsed >= timer'[cur'].delay
        /\ at' = "loop" => timer'[cur'].elapsed >= span'
    BY <1>1, <1>5, <1>12, <2>1 DEF TInv, Times
  <2>4. \A y \in Timers : timer'[y].forever \/ timer'[y].executed <= timer'[y].repeat + 1
    BY <1>11, <1>12 DEF TInv, Times
  <2>5. \A y \in Timers : y \in Listed' \/ (y = cur' /\ at' \in {"delay", "loop"}) =>
          timer'[y].forever \/ timer'[y].executed <= timer'[y].repeat
    BY <1>1, <1>10, <1>11, <1>12 DEF TInv, Times
  <2> QED
    BY <2>2, <2>3, <2>4, <2>5 DEF Times
<1>17. /\ order' \in Seq(Targets) /\ OneEach(order')
       /\ ToSet(order') = ToSet(order) \cup {t} /\ paused' \in [Targets -> BOOLEAN]
  <2>1. order \in Seq(Targets) /\ OneEach(order) /\ ToSet(order) \subseteq Targets
        /\ paused \in [Targets -> BOOLEAN]
    BY Members DEF TInv, Table, EntryType
  <2>2. CASE Known(t) /\ UNCHANGED <<order, paused>>
    BY <2>1, <2>2 DEF Known
  <2>3. CASE order' \in Insertions(t) /\ paused' = [paused EXCEPT ![t] = b]
    <3>1. ToSet(order) \cup {t} \subseteq Targets
      BY <2>1
    <3>2. IsFiniteSet(ToSet(order) \cup {t})
      BY <3>1, SchedulerAssumption, FS_Subset
    <3>3. /\ order' \in Seq(ToSet(order) \cup {t}) /\ OneEach(order')
          /\ ToSet(order') = ToSet(order) \cup {t}
      BY <2>3, <3>2, SomeOrder DEF Insertions
    <3>4. order' \in Seq(Targets)
      BY <3>1, <3>3, SeqMonotonic
    <3>5. paused' \in [Targets -> BOOLEAN]
      BY <2>1, <2>3
    <3> QED
      BY <3>3, <3>4, <3>5
  <2> QED
    BY <1>1, <2>2, <2>3
<1>18. EntryType'
  BY <1>1, <1>12, <1>17 DEF TInv, EntryType
<1>19. Table'
  <2>1. Current' = Current
    BY <1>1 DEF Current, Walking
  <2>2. timers'[t] # <<>>
    <3>1. x \in ToSet(timers'[t])
      BY <1>9
    <3> QED
      BY <3>1, EmptyList
  <2>3. ASSUME NEW u \in ToSet(order'), timers'[u] = <<>>
        PROVE  u = Current' /\ targetSalvaged'
    <3>1. u # t /\ u \in ToSet(order) /\ u \in Targets
      BY <1>17, <2>2, <2>3, Members
    <3>2. timers[u] = <<>>
      BY <1>8, <2>3, <3>1
    <3> QED
      BY <1>1, <2>1, <3>1, <3>2 DEF TInv, Table, WalkValid
  <2>4. iter' # None => iter' \in ToSet(order')
    BY <1>1, <1>17 DEF TInv, Table, WalkValid, Known
  <2>5. WalkValid'
    BY <2>3, <2>4 DEF WalkValid, Known
  <2>6. \A u \in Targets : u \notin ToSet(order') => timers'[u] = <<>>
    BY <1>8, <1>17 DEF TInv, Table
  <2> QED
    BY <1>1, <1>17, <2>5, <2>6 DEF TInv, Table, Walking
<1>20. Index'
  <2>1. Seen' = Seen /\ (Walking' <=> Walking)
    BY <1>1 DEF Seen, Walking
  <2>2. ASSUME Walking', NEW i \in DOMAIN timers'[iter]
        PROVE  /\ i > Seen' => timers'[iter][i] \notin ticked'
               /\ timers'[iter][i] \in due' => i > Seen'
    <3>1. iter \in Targets
      BY <1>2, <2>1, <2>2, CallbackPlace DEF TInv
    <3>2. CASE i \in DOMAIN timers[iter] /\ timers'[iter][i] = timers[iter][i]
      BY <1>1, <2>1, <2>2, <3>2 DEF TInv, Index
    <3>3. CASE timers'[iter][i] = x
      BY <1>1, <1>4, <3>3 DEF TInv, References
    <3> QED
      BY <1>7, <1>8, <2>2, <3>1, <3>2, <3>3
  <2> QED
    BY <1>1, <2>1, <2>2 DEF TInv, Index
<1> QED
  BY <1>2, <1>13, <1>14, <1>15, <1>16, <1>18, <1>19, <1>20 DEF TInv
-----------------------------------------------------------------------------
(* The walk of update keeps the invariant. *)

\* The entry after one is another one of the table, or there is none.
LEMMA FollowingEntry ==
  ASSUME NEW t \in ToSet(order), order \in Seq(Targets), OneEach(order)
  PROVE  /\ Following(t) # None => Following(t) \in ToSet(order) /\ Following(t) # t
         /\ Following(t) \in Targets \cup {None}
         /\ Following(t) # None /\ Following(Following(t)) # None =>
              Following(Following(t)) # t
<1> DEFINE i == Place(order, t)
           l == Len(order)
<1>1. l \in Nat /\ DOMAIN order = 1..l /\ ToSet(order) \subseteq Targets
  BY Members
<1>2. \A j, k \in 1..l : order[j] = order[k] => j = k
  BY <1>1 DEF OneEach
<1>3. \A u \in ToSet(order) : Place(order, u) \in 1..l /\ order[Place(order, u)] = u
  BY PlaceOf
<1>4. \A u \in ToSet(order) : Following(u) =
        IF Place(order, u) = l THEN None ELSE order[Place(order, u) + 1]
  BY DEF Following
<1>5. \A j \in 1..l : order[j] \in ToSet(order)
  BY <1>1 DEF ToSet
<1>6. i \in 1..l /\ order[i] = t
  BY <1>3
<1> HIDE DEF i, l
<1>7. CASE i = l
  BY <1>4, <1>7 DEF i
<1>8. CASE i # l
  <2>1. i + 1 \in 1..l /\ Following(t) = order[i + 1]
    BY <1>1, <1>4, <1>6, <1>8 DEF i
  <2> DEFINE n == order[i + 1]
  <2>2. n \in ToSet(order) /\ n # t
    BY <1>1, <1>2, <1>5, <1>6, <2>1
  <2>3. Place(order, n) = i + 1
    BY <1>2, <1>3, <2>1, <2>2
  <2>4. Following(n) # None => Following(n) # t
    <3>1. CASE i + 1 = l
      BY <1>4, <2>2, <2>3, <3>1
    <3>2. CASE i + 1 # l
      <4>1. (i + 1) + 1 \in 1..l /\ Following(n) = order[(i + 1) + 1]
        BY <1>1, <1>4, <2>1, <2>2, <2>3, <3>2
      <4>2. (i + 1) + 1 # i
        BY <1>6
      <4> QED
        BY <1>2, <1>6, <4>1, <4>2
    <3> QED
      BY <3>1, <3>2
  <2> QED
    BY <1>1, <2>1, <2>2, <2>4
<1> QED
  BY <1>7, <1>8

LEMMA UpdateStep == ASSUME TInv, NEW d \in Steps, Update(d) PROVE TInv'
<1>1. /\ at = "idle" /\ at' = "targets"
      /\ iter' = IF order = <<>> THEN None ELSE Head(order)
      /\ dt' = d /\ calls' = 0 /\ racing' = FALSE
      /\ due' = UNION {ToSet(timers[t]) : t \in {u \in ToSet(order) : ~paused[u]}}
      /\ UNCHANGED <<order, paused, timers, timer, refs, index, cur, curSalvaged>>
      /\ UNCHANGED <<targetSalvaged, span, ticked, posted>>
  BY DEF Update, table
<1>2. order \in Seq(Targets) /\ OneEach(order) /\ ToSet(order) \subseteq Targets
  BY Members DEF TInv, Table
<1>3. iter' # None => iter' \in ToSet(order)
  <2>1. order # <<>> => Head(order) = order[1] /\ 1 \in DOMAIN order
    BY <1>2
  <2> QED
    BY <1>1, <2>1 DEF ToSet
<1>4. due' \subseteq Listed
  BY <1>1, <1>2 DEF Listed
<1>5. Current = None /\ Current' = None /\ ~Walking'
  BY <1>1 DEF Current, Walking
<1>6. cur = None
  BY <1>1 DEF TInv, CurrentTimer, Running
<1>7. FrameType'
  <2>1. calls' \in 0..MaxCalls
    BY <1>1, SchedulerAssumption
  <2>2. dt' \in Steps \cup {0} /\ racing' \in BOOLEAN
    BY <1>1
  <2> QED
    BY <1>1, <2>1, <2>2 DEF TInv, FrameType
<1>8. Table'
  <2>1. WalkValid'
    BY <1>1, <1>3, <1>5 DEF TInv, Table, WalkValid, Known
  <2> QED
    BY <1>1, <1>5, <2>1 DEF TInv, Table
<1>9. Index'
  BY <1>1, <1>5 DEF TInv, Index, Running
<1>10. iter' \in Targets \cup {None}
  BY <1>2, <1>3
<1> QED
  BY <1>1, <1>4, <1>6, <1>7, <1>8, <1>9, <1>10, TimersStay DEF TInv, EntryType, Running

\* Between two targets, none in the table is without timers.
LEMMA BetweenTargets ==
  ASSUME Table, ~Walking, None \notin Targets
  PROVE  \A t \in ToSet(order) : timers[t] # <<>>
BY Members DEF Table, WalkValid, Current

LEMMA EnterTargetStep == ASSUME TInv, EnterTarget PROVE TInv'
<1>1. /\ at = "targets" /\ iter # None
      /\ targetSalvaged' = FALSE /\ ticked' = {}
      /\ \/ iter' = Following(iter) /\ UNCHANGED <<at, index>>
         \/ index' = 0 /\ at' = "timers" /\ UNCHANGED iter
      /\ UNCHANGED <<order, paused, timers, timer, refs, cur, curSalvaged>>
      /\ UNCHANGED <<dt, span, due, racing, posted, calls>>
  BY DEF EnterTarget, table, queue
<1>2. /\ order \in Seq(Targets) /\ OneEach(order) /\ ToSet(order) \subseteq Targets
      /\ iter \in ToSet(order)
  BY <1>1, Members DEF TInv, Table, WalkValid, Known
<1>3. /\ iter' \in Targets \cup {None}
      /\ iter' # None => iter' \in ToSet(order)
      /\ at' = "timers" => iter' # None
      /\ at' \in {"targets", "timers"}
  BY <1>1, <1>2, FollowingEntry
<1>4. \A t \in ToSet(order) : timers[t] # <<>>
  <2>1. ~Walking
    BY <1>1 DEF Walking
  <2> QED
    BY <2>1, BetweenTargets, SchedulerAssumption DEF TInv
<1>5. cur = None
  BY <1>1 DEF TInv, CurrentTimer, Running
<1>6. FrameType'
  BY <1>1, <1>3 DEF TInv, FrameType
<1>7. Table'
  <2>1. WalkValid'
    BY <1>1, <1>3, <1>4 DEF WalkValid, Known
  <2> QED
    BY <1>1, <1>3, <2>1 DEF TInv, Table, Walking
<1>8. Index'
  <2>1. index' \in -1..Cardinality(Timers) /\ (at' = "timers" => index' = 0)
    <3>1. Cardinality(Timers) \in Nat
      BY SchedulerAssumption, FS_CardinalityType
    <3> QED
      BY <1>1, <3>1 DEF TInv, Index
  <2>2. ASSUME Walking', NEW i \in DOMAIN timers'[iter']
        PROVE  /\ i > Seen' => timers'[iter'][i] \notin ticked'
               /\ timers'[iter'][i] \in due' => i > Seen'
    <3>1. at' = "timers" /\ Seen' = 0
      BY <1>3, <2>1, <2>2 DEF Walking, Seen
    <3>2. iter' \in Targets /\ timers'[iter'] \in Seq(Timers)
      BY <1>1, <1>3, <3>1 DEF TInv, Lists
    <3>3. i > 0
      BY <2>2, <3>2, LenProperties
    <3> QED
      BY <1>1, <3>1, <3>3
  <2> QED
    BY <1>3, <2>1, <2>2 DEF Index, Running
<1> QED
  BY <1>1, <1>3, <1>5, <1>6, <1>7, <1>8, TimersStay DEF TInv, EntryType, Running, References

LEMMA LeaveTargetStep == ASSUME TInv, LeaveTarget PROVE TInv'
<1>1. /\ at = "timers" /\ at' = "targets"
      /\ UNCHANGED <<timers, timer, refs, index, cur, curSalvaged, targetSalvaged>>
      /\ UNCHANGED <<dt, span, due, ticked, racing, posted, calls>>
  BY DEF LeaveTarget, frame, queue
<1>2. order \in Seq(Targets) /\ OneEach(order) /\ ToSet(order) \subseteq Targets
  BY Members DEF TInv, Table
<1>3. Walking /\ iter \in ToSet(order) /\ Current = iter /\ iter \in Targets
  <2>1. Walking /\ iter # None
    BY <1>1 DEF TInv, Table, Walking
  <2> QED
    BY <1>2, <2>1 DEF TInv, Table, WalkValid, Known, Current
<1>4. /\ order' \in Seq(Targets) /\ OneEach(order')
      /\ paused' \in [Targets -> BOOLEAN]
      /\ iter' \in Targets \cup {None}
      /\ iter' # None => iter' \in ToSet(order')
      /\ ToSet(order') \subseteq ToSet(order)
      /\ \A t \in ToSet(order') : timers[t] # <<>>
      /\ \A t \in ToSet(order) : t \notin ToSet(order') => timers[t] = <<>>
  <2>1. CASE /\ targetSalvaged /\ timers[iter] = <<>>
             /\ order' = Without(order, iter)
             /\ paused' = [paused EXCEPT ![iter] = FALSE]
             /\ iter' = LET n == Following(iter)
                        IN  IF n = None THEN None ELSE Following(n)
    <3>1. /\ order' \in Seq(Targets) /\ OneEach(order')
          /\ ToSet(order') = ToSet(order) \ {iter}
      BY <1>2, <1>3, <2>1, WithoutOne
    <3>2. paused' \in [Targets -> BOOLEAN]
      BY <2>1 DEF TInv, EntryType
    <3>3. iter' # None => iter' \in ToSet(order')
      <4> DEFINE n == Following(iter)
      <4>1. SUFFICES ASSUME iter' # None PROVE iter' \in ToSet(order')
        OBVIOUS
      <4>2. n # None /\ iter' = Following(n)
        BY <2>1, <4>1
      <4>3. n \in ToSet(order)
        BY <1>2, <1>3, <4>2, FollowingEntry
      <4> HIDE DEF n
      <4>4. iter' \in ToSet(order)
        BY <1>2, <4>1, <4>2, <4>3, FollowingEntry
      <4>5. iter' # iter
        BY <1>2, <1>3, <4>1, <4>2, FollowingEntry DEF n
      <4> QED
        BY <3>1, <4>4, <4>5
    <3>4. \A t \in ToSet(order') : timers[t] # <<>>
      BY <1>3, <3>1 DEF TInv, Table, WalkValid
    <3> QED
      BY <1>2, <2>1, <3>1, <3>2, <3>3, <3>4
  <2>2. CASE /\ ~(targetSalvaged /\ timers[iter] = <<>>)
             /\ iter' = Following(iter)
             /\ UNCHANGED <<order, paused>>
    <3>1. iter' \in Targets \cup {None} /\ (iter' # None => iter' \in ToSet(order'))
      BY <1>2, <1>3, <2>2, FollowingEntry
    <3>2. \A t \in ToSet(order') : timers[t] # <<>>
      BY <1>3, <2>2 DEF TInv, Table, WalkValid
    <3> QED
      BY <1>2, <2>2, <3>1, <3>2 DEF TInv, EntryType
  <2> QED
    BY <2>1, <2>2 DEF LeaveTarget
<1>5. cur = None
  BY <1>1 DEF TInv, CurrentTimer, Running
<1>6. FrameType'
  BY <1>1 DEF TInv, FrameType
<1>7. Table'
  <2>1. WalkValid'
    BY <1>1, <1>4 DEF WalkValid, Known
  <2>2. \A t \in Targets : t \notin ToSet(order') => timers'[t] = <<>>
    BY <1>1, <1>4 DEF TInv, Table
  <2> QED
    BY <1>1, <1>4, <2>1, <2>2 DEF Table, Walking
<1>8. Index'
  BY <1>1 DEF TInv, Index, Walking, Running
<1> QED
  BY <1>1, <1>4, <1>5, <1>6, <1>7, <1>8, TimersStay DEF TInv, EntryType, Running, References

LEMMA LeaveTargetsStep == ASSUME TInv, LeaveTargets PROVE TInv'
<1>1. /\ at = "targets" /\ iter = None
      /\ at' = "functions" /\ dt' = 0 /\ index' = 0 /\ targetSalvaged' = FALSE
      /\ UNCHANGED <<order, paused, timers, timer, refs, iter, cur, curSalvaged>>
      /\ UNCHANGED <<span, due, ticked, racing, posted, calls>>
  BY DEF LeaveTargets, table, queue
<1>2. ~Walking /\ ~Walking'
  BY <1>1 DEF Walking
<1>3. \A t \in ToSet(order) : timers[t] # <<>>
  BY <1>2, BetweenTargets, SchedulerAssumption DEF TInv
<1>4. cur = None
  BY <1>1 DEF TInv, CurrentTimer, Running
<1>5. FrameType'
  BY <1>1 DEF TInv, FrameType
<1>6. Table'
  BY <1>1, <1>2, <1>3 DEF TInv, Table, WalkValid, Known
<1>7. Index'
  <2>1. Cardinality(Timers) \in Nat
    BY SchedulerAssumption, FS_CardinalityType
  <2> QED
    BY <1>1, <1>2, <2>1 DEF TInv, Index, Running
<1> QED
  BY <1>1, <1>4, <1>5, <1>6, <1>7, TimersStay DEF TInv, EntryType, Running, References

\* Steps that only move on among the functions.
LEMMA FunctionsStep ==
  ASSUME TInv, UNCHANGED <<table, walk, frame>>, calls' \in 0..MaxCalls,
         posted' \in 0..MaxPosts, racing' \in BOOLEAN,
         at' = at \/ {at, at'} \subseteq {"functions", "perform", "function", "idle"}
  PROVE  TInv'
<1>1. /\ UNCHANGED <<order, paused, timers, timer, refs, iter, index, cur, curSalvaged>>
      /\ UNCHANGED <<targetSalvaged, dt, span, due, ticked>>
  BY DEF table, walk, frame
<1>2. /\ Walking' <=> Walking
      /\ at' \in Running <=> at \in Running
      /\ at' # at => at \notin Running /\ at' \notin Running /\ ~Walking
                     /\ at # "timers" /\ at' # "timers"
  BY DEF Walking, Running
<1>3. Table'
  BY <1>1, <1>2, TableStays DEF TInv, Table
<1>4. Index'
  BY <1>1, <1>2, IndexStays DEF TInv
<1>5. FrameType'
  BY <1>1 DEF TInv, FrameType
<1>6. cur # None => at' = at
  BY <1>2 DEF TInv, CurrentTimer
<1> QED
  BY <1>1, <1>2, <1>3, <1>4, <1>5, <1>6, TimersStay DEF TInv, EntryType, References
-----------------------------------------------------------------------------
(* Timer::update keeps the invariant. *)

\* The next timer of the target becomes the current one.
LEMMA TickStep == ASSUME TInv, Tick PROVE TInv'
<1> DEFINE s == timers[iter]
           x == s[index + 1]
           r == timer[x]
           e == IF r.elapsed = -1 THEN 0 ELSE r.elapsed + dt
<1>1. /\ at = "timers" /\ index < Len(s)
      /\ cur' = x /\ curSalvaged' = FALSE
      /\ timer' = [timer EXCEPT ![x].elapsed = e]
      /\ \/ r.elapsed = -1 /\ at' = "after" /\ UNCHANGED span
         \/ r.elapsed # -1 /\ r.useDelay
              /\ at' = (IF e < r.delay THEN "after" ELSE "delay")
              /\ UNCHANGED span
         \/ r.elapsed # -1 /\ ~r.useDelay /\ Round(e, r.interval)
      /\ due' = due \ {x} /\ ticked' = ticked \cup {x}
      /\ calls' = 0
      /\ UNCHANGED <<order, paused, timers, refs, iter, index, targetSalvaged, dt>>
      /\ UNCHANGED <<racing, posted>>
  BY DEF Tick, MoreTimers, queue
<1>2. Walking /\ cur = None /\ ~curSalvaged /\ iter \in Targets
  BY <1>1 DEF TInv, Walking, CurrentTimer, Running, Table, EntryType
<1>3. s \in Seq(Timers) /\ OneEach(s) /\ DOMAIN s = 1..Len(s) /\ Len(s) \in Nat
      /\ Len(s) <= Cardinality(Timers) /\ Cardinality(Timers) \in Nat
  BY <1>2, LenProperties, ListIsShort, FS_CardinalityType, SchedulerAssumption DEF TInv, Lists
<1>4. index \in Nat /\ index + 1 \in 1..Len(s) /\ index < Cardinality(Timers)
  <2>1. index >= 0 /\ index \in -1..Cardinality(Timers)
    BY <1>1 DEF TInv, Index
  <2> QED
    BY <1>1, <1>3, <2>1
<1>5. x \in ToSet(s) /\ x \in Timers /\ x \in Listed /\ x # None
  BY <1>2, <1>3, <1>4, Members, SchedulerAssumption DEF Listed
<1>6. /\ r \in TimerFields /\ r.target = iter
      /\ r.elapsed \in Nat \cup {-1} /\ r.delay \in Nat /\ r.interval \in Nat
      /\ r.forever \/ r.executed <= r.repeat
  <2>1. r \in TimerFields
    BY <1>5 DEF TInv, EntryType
  <2>2. r.target = iter
    BY <1>2, <1>5 DEF TInv, Lists
  <2>3. r.elapsed \in Nat \cup {-1} /\ (r.forever \/ r.executed <= r.repeat)
    BY <1>5 DEF TInv, Times
  <2> QED
    BY <2>1, <2>2, <2>3 DEF TimerFields
<1>7. dt \in Nat
  BY SchedulerAssumption DEF TInv, FrameType
<1> HIDE DEF s, x, r, e
<1>8. e \in Nat
  BY <1>6, <1>7 DEF e
<1>9. /\ timer' = [timer EXCEPT ![x] = [r EXCEPT !.elapsed = e]]
      /\ [r EXCEPT !.elapsed = e] \in TimerFields
      /\ timer \in [Timers -> TimerFields]
  <2>1. timer \in [Timers -> TimerFields]
    BY DEF TInv, EntryType
  <2>2. [r EXCEPT !.elapsed = e] \in TimerFields
    BY <1>6, <1>8 DEF TimerFields
  <2>3. timer' = [timer EXCEPT ![x] = [r EXCEPT !.elapsed = e]]
    BY <1>1 DEF r
  <2> QED
    BY <2>1, <2>2, <2>3
<1>10. /\ timer' \in [Timers -> TimerFields]
       /\ timer'[x] = [r EXCEPT !.elapsed = e]
       /\ \A y \in Timers : y # x => timer'[y] = timer[y]
  BY <1>5, <1>9
<1>11. ASSUME NEW y \in Timers
       PROVE  /\ timer'[y].target = timer[y].target /\ timer'[y].key = timer[y].key
              /\ timer'[y].forever = timer[y].forever
              /\ timer'[y].repeat = timer[y].repeat /\ timer'[y].delay = timer[y].delay
              /\ timer'[y].executed = timer[y].executed
              /\ timer'[y].elapsed = IF y = x THEN e ELSE timer[y].elapsed
  <2>1. CASE y = x
    BY <1>6, <1>10, <2>1 DEF TimerFields, r
  <2>2. CASE y # x
    BY <1>10, <2>2
  <2> QED
    BY <2>1, <2>2
<1>12. /\ at' \in Running /\ span' \in Nat
       /\ at' = "delay" => e >= r.delay
       /\ at' = "loop" => e >= span'
  <2>1. CASE r.elapsed = -1 /\ at' = "after" /\ UNCHANGED span
    BY <2>1 DEF Running, TInv, FrameType
  <2>2. CASE /\ r.elapsed # -1 /\ r.useDelay
             /\ at' = (IF e < r.delay THEN "after" ELSE "delay")
             /\ UNCHANGED span
    BY <1>6, <1>8, <2>2 DEF Running, TInv, FrameType
  <2>3. CASE Round(e, r.interval)
    BY <1>6, <1>8, <2>3 DEF Running, Round
  <2> QED
    BY <1>1, <2>1, <2>2, <2>3
<1>13. Listed' = Listed /\ Salvaged' = {} /\ Salvaged = {} /\ Listed \subseteq Timers
  BY <1>1, <1>2, ListedTimers DEF Listed, Salvaged, TInv
<1>14. References'
  <2>1. refs' = refs /\ refs \in [Timers -> 0..2]
    BY <1>1 DEF TInv, References
  <2>2. due' \subseteq Listed' /\ ticked' \subseteq Listed' \cup Salvaged'
    BY <1>1, <1>5, <1>13 DEF TInv, References
  <2>3. \A y \in Timers : refs[y] = (IF y \in Listed THEN 1 ELSE 0)
                                    + (IF y \in Salvaged THEN 1 ELSE 0)
    BY DEF TInv, References
  <2> QED
    BY <1>13, <2>1, <2>2, <2>3 DEF References
<1>15. Lists'
  <2>1. timers' = timers /\ \A u \in Targets : ToSet(timers[u]) \subseteq Timers
    BY <1>1, <1>13 DEF Listed
  <2> QED
    BY <1>11, <2>1 DEF TInv, Lists
<1>16. CurrentTimer'
  <2>1. timer'[x].target = iter
    BY <1>5, <1>6, <1>11 DEF r
  <2>2. index' >= 0 /\ index' + 1 \in DOMAIN timers'[iter'] /\ timers'[iter'][index' + 1] = x
    BY <1>1, <1>3, <1>4 DEF s, x
  <2> QED
    BY <1>1, <1>5, <1>12, <2>1, <2>2 DEF CurrentTimer, CurrentPlace
<1>17. Times'
  <2>1. \A y \in Timers : timer'[y].elapsed \in Nat \cup {-1}
    BY <1>8, <1>11 DEF TInv, Times
  <2>2. timer'[x].elapsed = e /\ timer'[x].delay = r.delay
    BY <1>5, <1>11 DEF r
  <2>3. /\ at' = "delay" => timer'[cur'].elapsed >= timer'[cur'].delay
        /\ at' = "loop" => timer'[cur'].elapsed >= span'
    BY <1>1, <1>12, <2>2
  <2>4. \A y \in Timers : timer'[y].forever \/ timer'[y].executed <= timer'[y].repeat + 1
    BY <1>11 DEF TInv, Times
  <2>5. \A y \in Timers : y \in Listed' \/ (y = cur' /\ at' \in {"delay", "loop"}) =>
          timer'[y].forever \/ timer'[y].executed <= timer'[y].repeat
    BY <1>1, <1>5, <1>11, <1>13 DEF TInv, Times
  <2> QED
    BY <2>1, <2>3, <2>4, <2>5 DEF Times
<1>18. EntryType'
  BY <1>1, <1>5, <1>10 DEF TInv, EntryType
<1>19. FrameType'
  <2>1. calls' \in 0..MaxCalls
    BY <1>1, SchedulerAssumption
  <2> QED
    BY <1>1, <1>12, <2>1 DEF TInv, FrameType, Running
<1>20. Table'
  <2>1. Walking'
    BY <1>12 DEF Walking, Running
  <2> QED
    BY <1>1, <1>2, <1>12, <2>1, TableStays DEF TInv, Running
<1>21. Index'
  <2>1. Seen = index /\ Seen' = index + 1 /\ at' # "timers"
    BY <1>1, <1>12 DEF Seen, Running
  <2>2. ASSUME NEW i \in 1..Len(s)
        PROVE  /\ i > index + 1 => s[i] \notin ticked'
               /\ s[i] \in due' => i > index + 1
    <3>1. /\ i > index => s[i] \notin ticked
          /\ s[i] \in due => i > index
      BY <1>2, <1>3, <2>1 DEF TInv, Index, s
    <3>2. s[i] = x => i = index + 1
      BY <1>3, <1>4 DEF OneEach, x
    <3>3. i > index <=> i > index + 1 \/ i = index + 1
      BY <1>4
    <3>4. i > index + 1 => i # index + 1
      BY <1>4
    <3>5. s[index + 1] = x
      BY DEF x
    <3> QED
      BY <1>1, <3>1, <3>2, <3>3, <3>4, <3>5
  <2>3. timers'[iter'] = s /\ DOMAIN s = 1..Len(s)
    BY <1>1, <1>3 DEF s
  <2> QED
    BY <1>1, <1>4, <2>1, <2>2, <2>3 DEF Index, TInv
<1> QED
  BY <1>14, <1>15, <1>16, <1>17, <1>18, <1>19, <1>20, <1>21 DEF TInv

\* The current timer alone changes, to r.
LEMMA CurrentChanges ==
  ASSUME TInv, NEW r \in TimerFields, timer' = [timer EXCEPT ![cur] = r],
         r.target = timer[cur].target, r.key = timer[cur].key,
         r.elapsed \in Nat, r.forever \/ r.executed <= r.repeat + 1,
         cur \in Listed \/ at' = "loop" => r.forever \/ r.executed <= r.repeat,
         at \in {"delay", "loop"}, at' \in {"loop", "after"},
         at' = "loop" => r.elapsed >= span',
         UNCHANGED <<order, paused, timers, refs, iter, index, cur, curSalvaged,
                     targetSalvaged, due, ticked>>,
         FrameType'
  PROVE  TInv'
<1>1. cur # None /\ cur \in Timers /\ Walking
  BY CurrentIsHeld DEF TInv, CurrentTimer, Running
<1>2. /\ timer' \in [Timers -> TimerFields] /\ timer'[cur] = r
      /\ \A y \in Timers : y # cur => timer'[y] = timer[y]
  BY <1>1 DEF TInv, EntryType
<1>3. \A y \in Timers : timer'[y].target = timer[y].target /\ timer'[y].key = timer[y].key
  BY <1>2
<1>4. Listed' = Listed /\ Salvaged' = Salvaged /\ Listed \subseteq Timers
  BY ListedTimers DEF Listed, Salvaged, TInv
<1>5. References'
  BY <1>4 DEF TInv, References
<1>6. Lists'
  <2>1. \A u \in Targets : ToSet(timers[u]) \subseteq Timers
    BY <1>4 DEF Listed
  <2> QED
    BY <1>3, <2>1 DEF TInv, Lists
<1>7. CurrentTimer'
  BY <1>1, <1>3, <1>4 DEF TInv, CurrentTimer, CurrentPlace, Running
<1>8. Times'
  <2>1. \A y \in Timers : timer'[y].elapsed \in Nat \cup {-1}
    BY <1>2 DEF TInv, Times
  <2>2. at' = "loop" => timer'[cur'].elapsed >= span'
    BY <1>2
  <2>3. \A y \in Timers : timer'[y].forever \/ timer'[y].executed <= timer'[y].repeat + 1
    BY <1>2 DEF TInv, Times
  <2>4. \A y \in Timers : y \in Listed' \/ (y = cur' /\ at' \in {"delay", "loop"}) =>
          timer'[y].forever \/ timer'[y].executed <= timer'[y].repeat
    BY <1>2, <1>4 DEF TInv, Times
  <2> QED
    BY <2>1, <2>2, <2>3, <2>4 DEF Times
<1>9. EntryType'
  BY <1>2 DEF TInv, EntryType
<1>10. Table'
  <2>1. Walking' <=> Walking
    BY <1>1 DEF Walking
  <2> QED
    BY <2>1, TableStays DEF TInv
<1>11. Index'
  BY IndexStays DEF TInv, Running
<1> QED
  BY <1>5, <1>6, <1>7, <1>8, <1>9, <1>10, <1>11 DEF TInv

\* After its callback for the time s, the current timer has as much less to run.
LEMMA RanFields ==
  ASSUME TInv, at \in {"delay", "loop"}, NEW s \in Nat, timer[cur].elapsed >= s
  PROVE  /\ Ran(s) \in TimerFields
         /\ Ran(s).target = timer[cur].target /\ Ran(s).key = timer[cur].key
         /\ Ran(s).elapsed \in Nat /\ Ran(s).interval \in Nat
         /\ Ran(s).forever \/ Ran(s).executed <= Ran(s).repeat + 1
         /\ Spent(Ran(s)) <=> ~(Ran(s).forever \/ Ran(s).executed <= Ran(s).repeat)
<1> DEFINE r == timer[cur]
<1>1. cur # None /\ cur \in Timers
  BY CurrentIsHeld DEF TInv, CurrentTimer, Running
<1>2. r \in TimerFields /\ r.elapsed \in Nat \cup {-1} /\ (r.forever \/ r.executed <= r.repeat)
  BY <1>1 DEF TInv, EntryType, Times
<1>3. r.elapsed - s \in Nat /\ r.elapsed - s \in Int
  BY <1>2
<1>4. /\ r.interval \in Nat /\ r.executed \in Nat /\ r.repeat \in Nat
      /\ r.forever \in BOOLEAN
  BY <1>2 DEF TimerFields
<1>5. Ran(s) = [r EXCEPT !.elapsed = r.elapsed - s, !.useDelay = FALSE,
                         !.executed = IF r.forever THEN 0 ELSE r.executed + 1]
  BY DEF Ran
<1> HIDE DEF r
<1>6. Ran(s) \in TimerFields
  <2> DEFINE d == r.elapsed - s
             n == IF r.forever THEN 0 ELSE r.executed + 1
  <2>1. d \in Int /\ n \in Nat
    BY <1>3, <1>4
  <2>2. Ran(s) = [r EXCEPT !.elapsed = d, !.useDelay = FALSE, !.executed = n]
    BY <1>5
  <2> HIDE DEF d, n
  <2> QED
    BY <1>2, <2>1, <2>2 DEF TimerFields
<1>7. /\ Ran(s).target = r.target /\ Ran(s).key = r.key
      /\ Ran(s).elapsed = r.elapsed - s /\ Ran(s).interval = r.interval
      /\ Ran(s).forever = r.forever /\ Ran(s).repeat = r.repeat
      /\ Ran(s).executed = IF r.forever THEN 0 ELSE r.executed + 1
  BY <1>2, <1>5 DEF TimerFields
<1>8. Ran(s).forever \/ Ran(s).executed <= Ran(s).repeat + 1
  BY <1>2, <1>4, <1>7
<1>9. Spent(Ran(s)) <=> ~(Ran(s).forever \/ Ran(s).executed <= Ran(s).repeat)
  BY <1>4, <1>7 DEF Spent
<1> QED
  BY <1>3, <1>4, <1>6, <1>7, <1>8, <1>9 DEF r

\* cancel: the timer leaves its list, or another of its name does.
LEMMA CancelStep ==
  ASSUME TInv, at \in {"delay", "loop"}, NEW r \in TimerFields, Cancel(r),
         r.target = timer[cur].target, r.key = timer[cur].key,
         r.elapsed \in Nat, r.forever \/ r.executed <= r.repeat + 1,
         UNCHANGED <<iter, cur, dt, racing, posted>>, calls' = 0
  PROVE  TInv'
<1> DEFINE f == [timer EXCEPT ![cur] = r]
           t == r.target
           k == r.key
<1>1. Unscheduling(t, k, f) /\ at' = "after" /\ span' = span
  BY DEF Cancel
<1>2. /\ cur # None /\ cur \in Timers /\ Walking /\ iter \in Targets /\ t = iter
      /\ cur \in Listed \/ curSalvaged
      /\ ~curSalvaged => cur \in ToSet(timers[iter])
  BY CurrentIsHeld DEF TInv, CurrentTimer, Running
<1>3. InCallback
  BY DEF InCallback
<1>4. FrameType'
  <2>1. calls' \in 0..MaxCalls
    BY SchedulerAssumption
  <2> QED
    BY <1>1, <2>1 DEF TInv, FrameType
<1>5. /\ f \in [Timers -> TimerFields] /\ f[cur] = r
      /\ \A y \in Timers : y # cur => f[y] = timer[y]
  BY <1>2 DEF TInv, EntryType
<1>6. CASE Named(t, k) = {}
  <2>1. /\ timer' = f
        /\ UNCHANGED <<order, paused, timers, refs, index, curSalvaged,
                       targetSalvaged, due, ticked>>
    BY <1>1, <1>6 DEF Unscheduling
  <2>2. cur \notin Listed
    <3>1. cur \notin ToSet(timers[iter])
      BY <1>2, <1>6 DEF Named
    <3>2. curSalvaged
      BY <1>2, <3>1
    <3> QED
      BY <3>2 DEF TInv, CurrentTimer
  <2> QED
    BY <1>1, <1>4, <2>1, <2>2, CurrentChanges
<1>7. CASE Named(t, k) # {}
  <2>1. ASSUME NEW x \in Named(t, k) PROVE Fields(f, Listed \ {x})
    <3>1. x \in ToSet(timers[iter]) /\ timer[x].key = timer[cur].key
      BY <1>2 DEF Named
    <3>2. cur \in Listed => x = cur
      <4>1. curSalvaged => cur \notin Listed
        BY DEF TInv, CurrentTimer
      <4> QED
        BY <1>2, <3>1, <4>1 DEF TInv, Lists
    <3>3. Listed \ {x} \subseteq Timers /\ \A y \in Listed \ {x} : y \in Listed /\ y # cur
      BY <3>2, ListedTimers DEF TInv
    <3> HIDE DEF f, t, k
    <3>4. \A y \in Timers : f[y].target = timer[y].target /\ f[y].key = timer[y].key
      BY <1>5
    <3>5. \A y \in Timers : f[y].elapsed \in Nat \cup {-1}
      BY <1>5 DEF TInv, Times
    <3>6. \A y \in Timers : f[y].forever \/ f[y].executed <= f[y].repeat + 1
      BY <1>5 DEF TInv, Times
    <3>7. \A y \in Listed \ {x} : f[y].forever \/ f[y].executed <= f[y].repeat
      BY <1>5, <3>3 DEF TInv, Times
    <3> QED
      BY <1>5, <3>4, <3>5, <3>6, <3>7 DEF Fields
  <2> HIDE DEF f, t, k
  <2> QED
    BY <1>1, <1>2, <1>3, <1>4, <1>7, <2>1, OneUnscheduled
<1> QED
  BY <1>6, <1>7

LEMMA DelayDoneStep == ASSUME TInv, DelayDone PROVE TInv'
<1>1. PICK r : /\ r = Ran(timer[cur].delay)
               /\ \/ Spent(r) /\ Cancel(r)
                  \/ ~Spent(r) /\ Continue(r) /\ Round(r.elapsed, r.interval)
  BY DEF DelayDone
<1>2. /\ at = "delay" /\ calls' = 0
      /\ UNCHANGED <<iter, cur, dt, racing, posted>>
  BY DEF DelayDone, queue
<1>3. timer[cur].delay \in Nat /\ timer[cur].elapsed >= timer[cur].delay
  <2>1. cur # None /\ cur \in Timers
    BY <1>2, CurrentIsHeld DEF TInv, CurrentTimer, Running
  <2>2. timer[cur] \in TimerFields
    BY <2>1 DEF TInv, EntryType
  <2> QED
    BY <1>2, <2>2 DEF TimerFields, TInv, Times
<1>4. /\ r \in TimerFields
      /\ r.target = timer[cur].target /\ r.key = timer[cur].key
      /\ r.elapsed \in Nat /\ r.interval \in Nat
      /\ r.forever \/ r.executed <= r.repeat + 1
      /\ Spent(r) <=> ~(r.forever \/ r.executed <= r.repeat)
  BY <1>1, <1>2, <1>3, RanFields
<1>5. CASE Spent(r) /\ Cancel(r)
  BY <1>2, <1>4, <1>5, CancelStep
<1>6. CASE ~Spent(r) /\ Continue(r) /\ Round(r.elapsed, r.interval)
  <2>1. span' \in Nat /\ at' \in {"loop", "after"} /\ (at' = "loop" => r.elapsed >= span')
    BY <1>4, <1>6 DEF Round
  <2>2. calls' \in 0..MaxCalls
    BY <1>2, SchedulerAssumption
  <2>3. FrameType'
    BY <1>2, <2>1, <2>2 DEF TInv, FrameType
  <2> QED
    BY <1>2, <1>4, <1>6, <2>1, <2>3, CurrentChanges DEF Continue
<1> QED
  BY <1>1, <1>5, <1>6

LEMMA LoopDoneStep == ASSUME TInv, LoopDone PROVE TInv'
<1>1. PICK r : /\ r = Ran(span)
               /\ \/ Spent(r) /\ Cancel(r)
                  \/ /\ ~Spent(r) /\ Continue(r)
                     /\ at' = IF r.elapsed <= 0 \/ targetSalvaged \/ r.elapsed < span
                                THEN "after" ELSE "loop"
                     /\ UNCHANGED span
  BY DEF LoopDone
<1>2. /\ at = "loop" /\ calls' = 0
      /\ UNCHANGED <<iter, cur, dt, racing, posted>>
  BY DEF LoopDone, queue
<1>3. span \in Nat /\ timer[cur].elapsed >= span
  BY <1>2 DEF TInv, FrameType, Times
<1>4. /\ r \in TimerFields
      /\ r.target = timer[cur].target /\ r.key = timer[cur].key
      /\ r.elapsed \in Nat
      /\ r.forever \/ r.executed <= r.repeat + 1
      /\ Spent(r) <=> ~(r.forever \/ r.executed <= r.repeat)
  BY <1>1, <1>2, <1>3, RanFields
<1>5. CASE Spent(r) /\ Cancel(r)
  BY <1>2, <1>4, <1>5, CancelStep
<1>6. CASE /\ ~Spent(r) /\ Continue(r)
           /\ at' = IF r.elapsed <= 0 \/ targetSalvaged \/ r.elapsed < span
                      THEN "after" ELSE "loop"
           /\ UNCHANGED span
  <2>1. at' \in {"loop", "after"} /\ (at' = "loop" => r.elapsed >= span')
    BY <1>3, <1>4, <1>6
  <2>2. calls' \in 0..MaxCalls
    BY <1>2, SchedulerAssumption
  <2>3. FrameType'
    BY <1>2, <1>6, <2>1, <2>2 DEF TInv, FrameType
  <2> QED
    BY <1>2, <1>4, <1>6, <2>1, <2>3, CurrentChanges DEF Continue
<1> QED
  BY <1>1, <1>5, <1>6

\* update gives up the current timer, and frees it if it was salvaged.
LEMMA TimerDoneStep == ASSUME TInv, TimerDone PROVE TInv'
<1>1. /\ at = "after"
      /\ refs' = [refs EXCEPT ![cur] = IF curSalvaged THEN @ - 1 ELSE @]
      /\ timer' = [timer EXCEPT ![cur] = IF refs'[cur] = 0 THEN NoTimer ELSE @]
      /\ ticked' = {x \in ticked : refs'[x] # 0}
      /\ cur' = None /\ curSalvaged' = FALSE /\ index' = index + 1
      /\ span' = 0 /\ at' = "timers"
      /\ UNCHANGED <<order, paused, timers, iter, targetSalvaged, dt, due>>
      /\ UNCHANGED <<racing, posted, calls>>
  BY DEF TimerDone, queue
<1>2. /\ cur # None /\ cur \in Timers /\ Walking /\ iter \in Targets
      /\ cur \in Listed \/ curSalvaged
      /\ curSalvaged => cur \notin Listed
  BY <1>1, CurrentIsHeld DEF TInv, CurrentTimer, Running
<1>3. Listed' = Listed /\ Salvaged' = {} /\ Listed \subseteq Timers
  BY <1>1, ListedTimers DEF Listed, Salvaged, TInv
<1>4. refs \in [Timers -> 0..2]
      /\ \A x \in Timers : refs[x] = (IF x \in Listed THEN 1 ELSE 0)
                                     + (IF x \in Salvaged THEN 1 ELSE 0)
  BY DEF TInv, References
<1>5. ASSUME NEW x \in Timers PROVE refs'[x] = IF x \in Listed THEN 1 ELSE 0
  <2>1. x \in Salvaged <=> x = cur /\ curSalvaged
    BY DEF Salvaged
  <2>2. CASE x = cur
    BY <1>1, <1>2, <1>4, <2>1, <2>2
  <2>3. CASE x # cur
    BY <1>1, <1>4, <2>1, <2>3
  <2> QED
    BY <2>2, <2>3
<1>6. refs' \in [Timers -> 0..2]
  <2>1. refs' = [x \in Timers |-> refs'[x]]
    BY <1>1, <1>4
  <2>2. \A x \in Timers : refs'[x] \in 0..2
    BY <1>5
  <2> QED
    BY <2>1, <2>2
<1>7. References'
  <2>1. due' \subseteq Listed'
    BY <1>1, <1>3 DEF TInv, References
  <2>2. ticked' \subseteq Listed'
    <3>1. ticked \subseteq Timers
      BY <1>2, <1>3 DEF TInv, References, Salvaged
    <3> QED
      BY <1>1, <1>3, <1>5, <3>1
  <2>3. \A x \in Timers : refs'[x] = (IF x \in Listed' THEN 1 ELSE 0)
                                     + (IF x \in Salvaged' THEN 1 ELSE 0)
    BY <1>3, <1>5
  <2> QED
    BY <1>6, <2>1, <2>2, <2>3 DEF References
<1>8. /\ timer' \in [Timers -> TimerFields]
      /\ \A x \in Timers : timer'[x] = timer[x] \/ timer'[x] = NoTimer
      /\ \A x \in Listed : timer'[x] = timer[x]
  <2>1. refs'[cur] = IF cur \in Listed THEN 1 ELSE 0
    BY <1>2, <1>5
  <2>2. cur \in Listed => timer' = timer
    <3>1. SUFFICES ASSUME cur \in Listed PROVE timer' = timer
      OBVIOUS
    <3>2. refs'[cur] # 0
      BY <2>1, <3>1
    <3>3. timer' = [timer EXCEPT ![cur] = timer[cur]]
      BY <1>1, <3>2
    <3> QED
      BY <1>2, <3>3 DEF TInv, EntryType
  <2>3. cur \notin Listed => timer' = [timer EXCEPT ![cur] = NoTimer]
    BY <1>1, <2>1
  <2>4. timer \in [Timers -> TimerFields]
    BY DEF TInv, EntryType
  <2>5. CASE cur \in Listed
    BY <2>2, <2>4, <2>5
  <2>6. CASE cur \notin Listed
    <3>1. timer' \in [Timers -> TimerFields]
      BY <2>3, <2>4, <2>6, NoTimerFields
    <3>2. \A x \in Timers : timer'[x] = IF x = cur THEN NoTimer ELSE timer[x]
      BY <2>3, <2>4, <2>6
    <3> QED
      BY <1>3, <2>6, <3>1, <3>2
  <2> QED
    BY <2>5, <2>6
<1>9. Lists'
  <2>1. timers' = timers /\ \A u \in Targets : ToSet(timers[u]) \subseteq Listed
    BY <1>1 DEF Listed
  <2>2. \A u \in Targets : \A x \in ToSet(timers[u]) : timer'[x] = timer[x]
    BY <1>8, <2>1
  <2> QED
    BY <2>1, <2>2 DEF TInv, Lists
<1>10. CurrentTimer'
  BY <1>1 DEF CurrentTimer, CurrentPlace, Running
<1>11. Times'
  <2>1. NoTimer.elapsed = -1 /\ NoTimer.forever = FALSE /\ NoTimer.executed = 0
        /\ NoTimer.repeat = 0
    BY DEF NoTimer
  <2>2. \A x \in Timers : timer'[x].elapsed \in Nat \cup {-1}
    BY <1>8, <2>1 DEF TInv, Times
  <2>3. \A x \in Timers : timer'[x].forever \/ timer'[x].executed <= timer'[x].repeat + 1
    BY <1>8, <2>1 DEF TInv, Times
  <2>4. \A x \in Timers : x \in Listed => timer'[x].forever \/ timer'[x].executed <= timer'[x].repeat
    BY <1>8 DEF TInv, Times
  <2> QED
    BY <1>1, <1>3, <2>2, <2>3, <2>4 DEF Times
<1>12. EntryType' /\ FrameType'
  BY <1>1, <1>8 DEF TInv, EntryType, FrameType
<1>13. Table'
  BY <1>1, <1>2, TableStays DEF TInv, Walking
<1>14. Index'
  <2>1. index \in -1..Cardinality(Timers) /\ index < Cardinality(Timers)
        /\ Cardinality(Timers) \in Nat
    BY <1>1, SchedulerAssumption, FS_CardinalityType DEF TInv, Index, Running
  <2>2. index' \in -1..Cardinality(Timers) /\ index' >= 0
    BY <1>1, <2>1
  <2>3. Seen' = Seen /\ ticked' \subseteq ticked
    BY <1>1 DEF Seen
  <2> QED
    BY <1>1, <1>2, <2>2, <2>3 DEF TInv, Index, Running
<1> QED
  BY <1>7, <1>9, <1>10, <1>11, <1>12, <1>13, <1>14 DEF TInv

\* The timers keep their invariant through every step.
LEMMA TimersHold == TInv /\ [Next]_vars => TInv'
<1> SUFFICES ASSUME TInv, [Next]_vars PROVE TInv'
  OBVIOUS
<1>1. calls \in 0..MaxCalls /\ 0 \in 0..MaxCalls /\ posted \in 0..MaxPosts /\ racing \in BOOLEAN
  BY SchedulerAssumption DEF TInv, FrameType
<1>2. CASE Interface
  BY <1>2, RescheduleStep, ScheduleStep, UnscheduleStep, UnscheduleAllForTargetStep,
     UnscheduleAllStep, PauseStep DEF Interface
<1>3. CASE PerformFunctionInCocosThread
  <2>1. /\ posted < MaxPosts /\ posted' = posted + 1 /\ racing' \in BOOLEAN
        /\ UNCHANGED <<table, walk, frame>> /\ UNCHANGED at /\ calls' = calls
    BY <1>1, <1>3 DEF PerformFunctionInCocosThread, Posting
  <2>2. posted' \in 0..MaxPosts
    BY <1>1, <2>1, SchedulerAssumption
  <2> QED
    BY <1>1, <2>1, <2>2, FunctionsStep
<1>4. CASE RemoveAllFunctions
  BY <1>1, <1>4, FunctionsStep DEF RemoveAllFunctions
<1>5. CASE Collect
  BY <1>1, <1>5, FunctionsStep DEF Collect
<1>6. CASE Perform \/ FunctionDone \/ UpdateDone
  BY <1>1, <1>6, FunctionsStep DEF Perform, FunctionDone, UpdateDone, queue
<1>7. CASE UNCHANGED vars
  BY <1>1, <1>7, FunctionsStep DEF vars, queue
<1> QED
  BY <1>2, <1>3, <1>4, <1>5, <1>6, <1>7, UpdateStep, EnterTargetStep, LeaveTargetStep,
     LeaveTargetsStep, TickStep, DelayDoneStep, LoopDoneStep, TimerDoneStep DEF Next, Walk
-----------------------------------------------------------------------------
(* What follows for the timers. *)

LEMMA InitTimers == Init => TInv
<1> SUFFICES ASSUME Init PROVE TInv
  OBVIOUS
<1>1. /\ order = <<>> /\ paused = [t \in Targets |-> FALSE]
      /\ timers = [t \in Targets |-> <<>>]
      /\ timer = [x \in Timers |-> NoTimer] /\ refs = [x \in Timers |-> 0]
      /\ at = "idle" /\ iter = None /\ index = 0
      /\ cur = None /\ curSalvaged = FALSE /\ targetSalvaged = FALSE
      /\ dt = 0 /\ span = 0 /\ calls = 0
      /\ racing = FALSE /\ posted = 0 /\ due = {} /\ ticked = {}
  BY DEF Init
<1>2. ToSet(<<>>) = {} /\ OneEach(<<>>)
  BY EmptyList
<1>3. Listed = {} /\ Salvaged = {}
  BY <1>1, <1>2 DEF Listed, Salvaged
<1>4. EntryType
  BY <1>1, NoTimerFields DEF EntryType
<1>5. FrameType
  <2>1. 0 \in 0..MaxCalls /\ 0 \in 0..MaxPosts
    BY SchedulerAssumption
  <2> QED
    BY <1>1, <2>1 DEF FrameType
<1>6. Table
  BY <1>1, <1>2, EmptyList DEF Table, WalkValid, Walking
<1>7. Lists
  BY <1>1, <1>2, EmptyList DEF Lists
<1>8. References
  BY <1>1, <1>3 DEF References
<1>9. CurrentTimer
  BY <1>1 DEF CurrentTimer, CurrentPlace, Running
<1>10. Index
  <2>1. Cardinality(Timers) \in Nat
    BY SchedulerAssumption, FS_CardinalityType
  <2> QED
    BY <1>1, <2>1 DEF Index, Running, Walking
<1>11. Times
  <2>1. NoTimer.elapsed = -1 /\ NoTimer.executed = 0 /\ NoTimer.repeat = 0
    BY DEF NoTimer
  <2> QED
    BY <1>1, <1>3, <2>1 DEF Times
<1> QED
  BY <1>4, <1>5, <1>6, <1>7, <1>8, <1>9, <1>10, <1>11 DEF TInv

\* The invariant from which the theorems on the timers follow.
LEMMA TimersInductive == Spec => []TInv
BY InitTimers, TimersHold, PTL DEF Spec

LEMMA QueueTypes ==
  ASSUME IInv, TInv
  PROVE  /\ functions \in Seq(1..MaxPosts) /\ temp \in Seq(1..MaxPosts)
         /\ performed \subseteq 1..posted /\ removed \subseteq 1..posted
<1>1. /\ performed \subseteq 1..posted /\ removed \subseteq 1..posted
      /\ ToSet(temp) \subseteq 1..posted /\ ToSet(functions) \subseteq 1..posted
  BY DEF IInv, Placed
<1>2. 1..posted \subseteq 1..MaxPosts
  BY SchedulerAssumption DEF TInv, FrameType
<1>3. ASSUME NEW s \in Seq(Nat), ToSet(s) \subseteq 1..MaxPosts
      PROVE  s \in Seq(1..MaxPosts)
  <2>1. /\ Len(s) \in Nat /\ s \in [1..Len(s) -> Nat] /\ DOMAIN s = 1..Len(s)
        /\ \A i \in 1..Len(s) : s[i] \in 1..MaxPosts
    BY <1>3, Members, LenProperties
  <2> DEFINE S == 1..MaxPosts
             n == Len(s)
  <2>2. s \in [1..n -> S] /\ n \in Nat
    BY <2>1
  <2> HIDE DEF S, n
  <2>3. s \in Seq(S)
    BY <2>2, SeqDef
  <2> QED
    BY <2>3 DEF S
<1> QED
  BY <1>1, <1>2, <1>3 DEF IInv, QueueType

\* The scheduler releases no timer that a list or update still holds, and keeps
\* none that nobody holds: so the timer whose callback runs is never freed under
\* Timer::update, whatever its callback unschedules.
THEOREM TimersAreCounted == Spec => []Counted
<1>1. IInv /\ TInv => Counted
  <2> SUFFICES ASSUME IInv, TInv PROVE Counted
    OBVIOUS
  <2>1. TypeOK
    <3>1. Listed \subseteq Timers /\ Salvaged \subseteq Timers
      <4>1. curSalvaged => cur \in Timers
        BY DEF TInv, EntryType, CurrentTimer
      <4> QED
        BY <4>1, ListedTimers DEF TInv, Salvaged
    <3>2. due \subseteq Timers /\ ticked \subseteq Timers
      BY <3>1 DEF TInv, References
    <3>3. /\ order \in Seq(Targets) /\ timers \in [Targets -> Seq(Timers)]
          /\ refs \in [Timers -> 0..2] /\ index \in -1..Cardinality(Timers)
      BY DEF TInv, Table, Lists, References, Index
    <3> QED
      BY <3>2, <3>3, QueueTypes DEF TypeOK, TInv, EntryType, FrameType
  <2>2. ASSUME NEW x \in Timers
        PROVE  refs[x] = Cardinality({t \in Targets : x \in ToSet(timers[t])})
                         + (IF cur = x /\ curSalvaged THEN 1 ELSE 0)
    <3> DEFINE T == {t \in Targets : x \in ToSet(timers[t])}
    <3>1. Cardinality(T) = IF x \in Listed THEN 1 ELSE 0
      <4>1. CASE x \in Listed
        <5>1. PICK t \in Targets : x \in ToSet(timers[t])
          BY <4>1 DEF Listed
        <5>2. T = {t}
          BY <5>1 DEF TInv, Lists
        <5> HIDE DEF T
        <5> QED
          BY <4>1, <5>2, FS_Singleton
      <4>2. CASE x \notin Listed
        <5>1. T = {}
          BY <4>2 DEF Listed
        <5> HIDE DEF T
        <5> QED
          BY <4>2, <5>1, FS_EmptySet
      <4> QED
        BY <4>1, <4>2
    <3>2. x \in Salvaged <=> cur = x /\ curSalvaged
      BY DEF Salvaged
    <3> HIDE DEF T
    <3>3. refs[x] = (IF x \in Listed THEN 1 ELSE 0) + (IF x \in Salvaged THEN 1 ELSE 0)
      BY DEF TInv, References
    <3>4. refs[x] = Cardinality(T) + (IF cur = x /\ curSalvaged THEN 1 ELSE 0)
      BY <3>1, <3>2, <3>3
    <3> QED
      BY <3>4 DEF T
  <2>3. cur # None => refs[cur] > 0
    <3>1. SUFFICES ASSUME cur # None PROVE refs[cur] > 0
      OBVIOUS
    <3>2. cur \in Timers /\ (cur \in Listed \/ cur \in Salvaged)
      BY <3>1, CurrentIsHeld DEF TInv, Salvaged
    <3>3. refs[cur] = (IF cur \in Listed THEN 1 ELSE 0)
                      + (IF cur \in Salvaged THEN 1 ELSE 0)
      BY <3>2 DEF TInv, References
    <3> QED
      BY <3>2, <3>3
  <2> QED
    BY <2>1, <2>2, <2>3 DEF Counted
<1> QED
  BY <1>1, Inductive, TimersInductive, PTL

\* Whatever a callback unschedules, the entry in which update stands is not
\* deleted before update leaves it, and an entry without timers does not stay.
THEOREM EntriesAreKept == Spec => []WalkValid
<1>1. TInv => WalkValid
  BY DEF TInv, Table
<1> QED
  BY <1>1, TimersInductive, PTL

\* When update leaves a target it has updated every timer that was there when
\* the frame began and still is: unschedule moves timerIndex as it must.
THEOREM NoneIsSkipped == Spec => []TargetComplete
<1>1. TInv => TargetComplete
  <2> SUFFICES ASSUME TInv, at = "timers", ~MoreTimers
               PROVE  due \cap ToSet(timers[iter]) = {}
    BY DEF TargetComplete
  <2>1. Walking /\ iter \in Targets
    BY DEF Walking, TInv, Table, EntryType
  <2>2. /\ DOMAIN timers[iter] = 1..Len(timers[iter]) /\ Len(timers[iter]) \in Nat
        /\ index \in Int /\ ~(index < Len(timers[iter]))
    BY <2>1, LenProperties DEF TInv, Lists, Index, MoreTimers
  <2>3. \A i \in DOMAIN timers[iter] : timers[iter][i] \in due => i > index
    BY <2>1 DEF TInv, Index, Seen
  <2>4. \A i \in DOMAIN timers[iter] : timers[iter][i] \notin due
    BY <2>2, <2>3
  <2> QED
    BY <2>4 DEF ToSet
<1> QED
  BY <1>1, TimersInductive, PTL

\* No timer is updated twice in a visit of update to its target, whatever is
\* unscheduled and scheduled meanwhile: a timer that is freed and allocated again
\* is a new one.
THEOREM NoneIsUpdatedTwice == Spec => TickedOnce
<1>1. TInv /\ [Next]_vars => [Tick => cur' \notin ticked]_vars
  <2> SUFFICES ASSUME TInv, Tick PROVE cur' \notin ticked
    OBVIOUS
  <2>1. at = "timers" /\ index < Len(timers[iter]) /\ cur' = timers[iter][index + 1]
    BY DEF Tick, MoreTimers
  <2>2. Walking /\ iter \in Targets
    BY <2>1 DEF Walking, TInv, Table, EntryType
  <2>3. /\ DOMAIN timers[iter] = 1..Len(timers[iter]) /\ Len(timers[iter]) \in Nat
        /\ index \in Int /\ index >= 0
    BY <2>1, <2>2, LenProperties DEF TInv, Lists, Index
  <2>4. index + 1 \in DOMAIN timers[iter] /\ index + 1 > index
    BY <2>1, <2>3
  <2> QED
    BY <2>1, <2>2, <2>4 DEF TInv, Index, Seen
<1> QED
  BY <1>1, TimersInductive, PTL DEF Spec, TickedOnce

\* A timer with "repeat" runs at most repeat + 1 times, with and without a delay,
\* though long frames run it several times and cancel looks it up by name.
THEOREM NoneRunsTooOften == Spec => []RunsAtMost
<1>1. TInv => RunsAtMost
  BY DEF TInv, Times, RunsAtMost
<1> QED
  BY <1>1, TimersInductive, PTL
=============================================================================

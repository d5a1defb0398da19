-------------------------- MODULE DownloaderProofs --------------------------
(***************************************************************************)
(* Proofs about Downloader, for any urls, number of tasks and limit.  The    *)
(* inductive invariant says what has been reported of a task in each state,  *)
(* what the timers and the queue hold, and weighs the tasks under way        *)
(* against the queue.                                                      *)
(***************************************************************************)
EXTENDS Downloader, TLAPS,
        FunctionTheorems, FiniteSetTheorems, SequenceTheorems,
        WellFoundedInduction

\* Append and Tail, place by place.
LEMMA Appended ==
  ASSUME NEW S, NEW s \in Seq(S), NEW e \in S
  PROVE  /\ Append(s, e) \in Seq(S) /\ Len(Append(s, e)) = Len(s) + 1
         /\ Len(s) \in Nat /\ DOMAIN s = 1..Len(s)
         /\ DOMAIN Append(s, e) = 1..Len(s) + 1
         /\ \A i \in 1..Len(s) : Append(s, e)[i] = s[i]
         /\ Append(s, e)[Len(s) + 1] = e
<1>1. Append(s, e) \in Seq(S) /\ Len(Append(s, e)) = Len(s) + 1
  BY AppendProperties
<1>2. DOMAIN Append(s, e) = 1..Len(s) + 1
  BY <1>1, LenProperties
<1>3. DOMAIN s = 1..Len(s) /\ Len(s) \in Nat
  BY LenProperties
<1> QED
  BY <1>1, <1>2, <1>3, AppendProperties

LEMMA Tailed ==
  ASSUME NEW S, NEW s \in Seq(S), s # << >>
  PROVE  /\ Tail(s) \in Seq(S) /\ Len(Tail(s)) = Len(s) - 1
         /\ Len(s) \in Nat \ {0} /\ DOMAIN s = 1..Len(s)
         /\ DOMAIN Tail(s) = 1..Len(s) - 1
         /\ \A i \in 1..Len(s) - 1 : Tail(s)[i] = s[i + 1]
         /\ Head(s) = s[1] /\ Head(s) \in S
<1>1. Tail(s) \in Seq(S) /\ Len(Tail(s)) = Len(s) - 1 /\ Head(s) \in S
  BY HeadTailProperties
<1>2. DOMAIN Tail(s) = 1..Len(s) - 1
  BY <1>1, LenProperties
<1>3. DOMAIN s = 1..Len(s) /\ Len(s) \in Nat \ {0}
  BY LenProperties, EmptySeq
<1>4. \A i \in 1..Len(s) - 1 : Tail(s)[i] = s[i + 1]
  BY <1>1, HeadTailProperties
<1> QED
  BY <1>1, <1>2, <1>3, <1>4

\* A function from 1..n is a sequence of length n.
LEMMA SeqFun ==
  ASSUME NEW S, NEW n \in Nat, NEW f \in [1..n -> S]
  PROVE  f \in Seq(S) /\ Len(f) = n
<1>1. f \in Seq(S)
  <2>1. \A i \in 1..n : f[i] \in S
    OBVIOUS
  <2>2. f = [i \in 1..n |-> f[i]]
    OBVIOUS
  <2>3. [i \in 1..n |-> f[i]] \in Seq(S)
    BY <2>1
  <2> QED
    BY <2>2, <2>3
<1>2. Len(f) \in Nat /\ 1..Len(f) = 1..n
  BY <1>1, LenProperties
<1> QED
  BY <1>1, <1>2
-----------------------------------------------------------------------------

States == {"delayed", "waiting", "running", "stored", "refused", "cancelled", "over"}
Working == {"running", "stored", "refused", "cancelled"}
Tasks == [kind : Kinds, url : Urls, told : 0..2, ok : BOOLEAN, st : States,
          held : BOOLEAN, spoilt : BOOLEAN]

\* What the owner has been told of a task in each of its states.
Reported(o) ==
  /\ o.st \notin {"stored", "over"} => o.told = 0
  /\ o.st = "stored" => o.told = 1
  /\ up /\ o.st = "over" => o.told >= 1
  /\ o.told = 0 => ~o.ok
  /\ o.told = 2 => o.spoilt /\ ~o.ok
  /\ o.held => ~o.ok /\ o.told <= 1 /\ o.st \in {"cancelled", "over"}
Reports == \A t \in Ids : Reported(tasks[t])

Delays ==
  \A u \in Urls : timers[u] # Nil =>
    tasks[timers[u]].st = "delayed" /\ tasks[timers[u]].url = u

\* The queue: a task is held once, and only MaxProcessing places are taken by
\* tasks that started at once.
Held ==
  /\ \A i, j \in DOMAIN queue : queue[i] = queue[j] /\ queue[i] # Nil => i = j
  /\ \A i \in DOMAIN queue : queue[i] # Nil => tasks[queue[i]].st # "delayed"
  /\ \A i \in DOMAIN queue : queue[i] = Nil => i <= MaxProcessing

Enough == HeldForReason /\ (Queued = {} => Ends >= Len(queue))

IInv == TypeOK /\ Reports /\ Delays /\ Held /\ Enough
-----------------------------------------------------------------------------
(* Sequences of tasks                                                      *)

LEMMA Typed ==
  ASSUME TypeOK
  PROVE  /\ tasks \in Seq(Tasks) /\ Ids = 1..Len(tasks) /\ Len(tasks) \in Nat
         /\ \A t \in Ids : tasks[t] \in Tasks
         /\ queue \in Seq({Nil} \cup Ids) /\ DOMAIN queue = 1..Len(queue)
         /\ Len(queue) \in Nat /\ Nil \notin Ids
         /\ \A i \in DOMAIN queue : queue[i] \in {Nil} \cup Ids
         /\ at \in {"loop", "finish", "complete"} /\ up \in BOOLEAN
<1>1. tasks \in Seq(Tasks) /\ queue \in Seq({Nil} \cup Ids)
  BY DEF TypeOK, Tasks, States
<1>2. Ids = 1..Len(tasks) /\ Len(tasks) \in Nat
  BY <1>1, LenProperties DEF Ids
<1>3. DOMAIN queue = 1..Len(queue) /\ Len(queue) \in Nat
  BY <1>1, LenProperties
<1>4. \A t \in Ids : tasks[t] \in Tasks
  BY <1>1, <1>2, ElementOfSeq
<1>5. \A i \in DOMAIN queue : queue[i] \in {Nil} \cup Ids
  BY <1>1, <1>3, ElementOfSeq
<1> QED
  BY <1>1, <1>2, <1>3, <1>4, <1>5 DEF Nil, TypeOK

\* One task becomes p, the others stay.
Becomes(t, p) ==
  /\ Ids' = Ids /\ tasks' \in Seq(Tasks) /\ tasks'[t] = p
  /\ \A i \in Ids \ {t} : tasks'[i] = tasks[i]

LEMMA BecomesStep ==
  ASSUME TypeOK, NEW t \in Ids, NEW p \in Tasks, tasks' = [tasks EXCEPT ![t] = p]
  PROVE  Becomes(t, p)
<1>1. tasks \in [1..Len(tasks) -> Tasks] /\ Len(tasks) \in Nat
  BY Typed, LenProperties
<1>2. tasks' \in [1..Len(tasks) -> Tasks] /\ tasks'[t] = p
      /\ \A i \in Ids \ {t} : tasks'[i] = tasks[i]
  BY <1>1 DEF Ids
<1>3. tasks' \in Seq(Tasks)
  BY <1>1, <1>2, SeqFun
<1>4. Ids' = Ids
  BY <1>1, <1>2 DEF Ids
<1> QED
  BY <1>2, <1>3, <1>4 DEF Becomes
-----------------------------------------------------------------------------
(* The weights                                                             *)

LEMMA Weights ==
  ASSUME TypeOK
  PROVE  /\ IsFiniteSet(UnderWay) /\ Cardinality(UnderWay) \in Nat
         /\ IsFiniteSet(Spent) /\ Cardinality(Spent) \in Nat /\ Spent \subseteq Queued
         /\ Queued \subseteq Ids /\ Ends \in Nat
         /\ \A t : t \in Queued <=> t # Nil /\ \E i \in DOMAIN queue : queue[i] = t
<1>1. IsFiniteSet(Ids)
  BY Typed, FS_Interval
<1>2. \A t : t \in Queued <=> t # Nil /\ \E i \in DOMAIN queue : queue[i] = t
  BY DEF Queued, Range
<1>3. Queued \subseteq Ids
  BY <1>2, Typed
<1>4. UnderWay \in SUBSET Ids /\ Spent \in SUBSET Ids /\ Spent \subseteq Queued
  BY <1>3 DEF UnderWay, Spent
<1>5. /\ IsFiniteSet(UnderWay) /\ Cardinality(UnderWay) \in Nat
      /\ IsFiniteSet(Spent) /\ Cardinality(Spent) \in Nat
  BY <1>1, <1>4, FS_Subset, FS_CardinalityType
<1> QED
  BY <1>2, <1>3, <1>4, <1>5 DEF Ends

\* The states of all tasks but t stay as they are.
But(t) ==
  /\ t \in Ids' /\ Ids \cup {t} = Ids'
  /\ \A i \in Ids \ {t} : tasks'[i].st = tasks[i].st

LEMMA UnderWayBut ==
  ASSUME TypeOK, NEW t, But(t)
  PROVE  Cardinality(UnderWay') = Cardinality(UnderWay)
           + (IF tasks'[t].st \in Working THEN 1 ELSE 0)
           - (IF t \in Ids /\ tasks[t].st \in Working THEN 1 ELSE 0)
<1>0. IsFiniteSet(UnderWay) /\ Cardinality(UnderWay) \in Nat
  BY Weights
<1>1. t \in UnderWay <=> t \in Ids /\ tasks[t].st \in Working
  BY DEF UnderWay, Working
<1>2. CASE tasks'[t].st \in Working
  <2>1. UnderWay' = UnderWay \cup {t}
    BY <1>2 DEF UnderWay, But, Working
  <2> QED
    BY SMTT(20), <1>0, <1>1, <1>2, <2>1, FS_AddElement
<1>3. CASE tasks'[t].st \notin Working
  <2>1. UnderWay' = UnderWay \ {t}
    BY <1>3 DEF UnderWay, But, Working
  <2>2. Cardinality(UnderWay \ {t}) = IF t \in UnderWay THEN Cardinality(UnderWay) - 1
                                        ELSE Cardinality(UnderWay)
    BY <1>0, FS_RemoveElement
  <2> QED
    BY <1>0, <1>1, <1>3, <2>1, <2>2
<1> QED
  BY <1>2, <1>3

\* A task that comes to be started or held back.
LEMMA PutStep ==
  ASSUME IInv, NEW t, But(t), at' = at, t # Nil, t \notin Ids \/ tasks[t].st = "delayed",
         \/ /\ Len(queue) < MaxProcessing /\ tasks'[t].st = "running"
            /\ queue' = Append(queue, Nil)
         \/ /\ ~(Len(queue) < MaxProcessing) /\ tasks'[t].st = "waiting"
            /\ queue' = Append(queue, t)
  PROVE  /\ Held' /\ Enough' /\ queue' \in Seq({Nil} \cup Ids')
         /\ \A i \in Ids' : tasks'[i].st = "waiting" => i \in Queued'
<1> USE DEF IInv
<1>0. /\ DOMAIN queue = 1..Len(queue) /\ Len(queue) \in Nat
      /\ \A i \in DOMAIN queue : queue[i] \in {Nil} \cup Ids
      /\ MaxProcessing \in Nat \ {0} /\ Nil \notin Ids
  BY Typed, DownloaderAssumption DEF DownloaderAssumption
<1>1. \A i \in DOMAIN queue : queue[i] # t
  BY <1>0 DEF Held
<1>2. queue \in Seq({Nil} \cup Ids') /\ t \in {Nil} \cup Ids' /\ Nil \in {Nil} \cup Ids'
  <2>1. {Nil} \cup Ids \subseteq {Nil} \cup Ids'
    BY DEF But
  <2> QED
    BY <2>1, Typed, SeqMonotonic DEF But
<1>3. PICK e \in {Nil, t} : /\ queue' = Append(queue, e)
                            /\ IF e = Nil
                                 THEN Len(queue) < MaxProcessing /\ tasks'[t].st = "running"
                                 ELSE ~(Len(queue) < MaxProcessing)
                                      /\ tasks'[t].st = "waiting"
  OBVIOUS
<1>4. /\ DOMAIN queue' = 1..Len(queue) + 1 /\ Len(queue') = Len(queue) + 1
      /\ \A i \in 1..Len(queue) : queue'[i] = queue[i]
      /\ queue'[Len(queue) + 1] = e
      /\ queue' \in Seq({Nil} \cup Ids')
  BY <1>2, <1>3, Appended
<1>5. Held'
  <2>1. ASSUME NEW i \in DOMAIN queue', NEW j \in DOMAIN queue', queue'[i] = queue'[j],
               queue'[i] # Nil
        PROVE  i = j
    <3>1. (i \in DOMAIN queue \/ i = Len(queue) + 1) /\ (j \in DOMAIN queue \/ j = Len(queue) + 1)
      BY <1>0, <1>4
    <3> QED
      BY <1>0, <1>1, <1>3, <1>4, <2>1, <3>1 DEF Held
  <2>2. ASSUME NEW i \in DOMAIN queue', queue'[i] # Nil PROVE tasks'[queue'[i]].st # "delayed"
    <3>1. CASE i \in DOMAIN queue
      BY <1>0, <1>1, <1>4, <2>2, <3>1 DEF Held, But
    <3>2. CASE i = Len(queue) + 1
      BY <1>3, <1>4, <2>2, <3>2
    <3> QED
      BY <1>0, <1>4, <3>1, <3>2
  <2>3. ASSUME NEW i \in DOMAIN queue', queue'[i] = Nil PROVE i <= MaxProcessing
    <3>1. CASE i \in DOMAIN queue
      BY <1>0, <1>4, <2>3, <3>1 DEF Held
    <3>2. CASE i = Len(queue) + 1
      BY <1>0, <1>3, <1>4, <2>3, <3>2
    <3> QED
      BY <1>0, <1>4, <3>1, <3>2
  <2> QED
    BY <2>1, <2>2, <2>3 DEF Held
<1>6. Queued' = Queued \cup ({e} \ {Nil})
  <2>1. \A i \in DOMAIN queue' : i \in DOMAIN queue \/ i = Len(queue) + 1
    BY <1>0, <1>4
  <2>2. \A i \in DOMAIN queue : i \in DOMAIN queue' /\ queue'[i] = queue[i]
    BY <1>0, <1>4
  <2>3. Len(queue) + 1 \in DOMAIN queue'
    BY <1>0, <1>4
  <2> QED
    BY <1>4, <2>1, <2>2, <2>3 DEF Queued, Range
<1>7. t \notin Queued
  BY <1>1, Weights
<1>8. Spent' = Spent
  <2>1. \A i \in Queued : i \in Ids /\ i # t /\ tasks'[i].st = tasks[i].st
    BY <1>7, Weights DEF But
  <2> QED
    BY <1>3, <1>6, <2>1 DEF Spent
<1>9. Ends' = Ends + IF e = Nil THEN 1 ELSE 0
  <2>1. Cardinality(UnderWay') = Cardinality(UnderWay) + IF e = Nil THEN 1 ELSE 0
    <3>1. ~(t \in Ids /\ tasks[t].st \in Working)
      BY DEF Working
    <3>2. tasks'[t].st \in Working <=> e = Nil
      BY <1>3 DEF Working
    <3> QED
      BY <3>1, <3>2, UnderWayBut, Weights
  <2> QED
    BY <2>1, Weights DEF Ends
<1>10. Enough'
  <2>1. CASE e = Nil
    <3>1. Queued' = Queued
      BY <1>6, <2>1
    <3> QED
      BY <1>0, <1>4, <1>8, <1>9, <2>1, <3>1, Weights DEF Enough, HeldForReason
  <2>2. CASE e # Nil
    <3>1. Ends >= MaxProcessing + Cardinality(Spent)
      <4>1. CASE Queued = {}
        <5>1. Spent = {} /\ Cardinality(Spent) = 0
          BY <4>1, Weights, FS_EmptySet
        <5> QED
          BY <1>0, <1>3, <2>2, <4>1, <5>1, Weights DEF Enough
      <4>2. CASE Queued # {}
        BY <4>2 DEF Enough, HeldForReason
      <4> QED
        BY <4>1, <4>2
    <3>2. Queued' # {}
      BY <1>6, <2>2
    <3>3. Ends' = Ends
      BY <1>9, <2>2, Weights
    <3> QED
      BY <1>8, <3>1, <3>2, <3>3 DEF Enough, HeldForReason
  <2> QED
    BY <2>1, <2>2
<1>11. \A i \in Ids' : tasks'[i].st = "waiting" => i \in Queued'
  <2>1. \A i \in Ids : tasks[i].st = "waiting" => i \in Queued
    BY DEF TypeOK
  <2> QED
    BY <1>3, <1>6, <2>1 DEF But
<1> QED
  BY <1>4, <1>5, <1>10, <1>11

\* A task that moves on, the queue as it was.
LEMMA StayStep ==
  ASSUME IInv, NEW t \in Ids, But(t), queue' = queue, Ends' = Ends,
         tasks[t].st # "waiting", tasks'[t].st # "waiting",
         tasks'[t].st = "delayed" => tasks[t].st = "delayed"
  PROVE  /\ Held' /\ Enough'
         /\ \A i \in Ids' : tasks'[i].st = "waiting" => i \in Queued'
<1> USE DEF IInv
<1>0. \A i \in DOMAIN queue : queue[i] \in {Nil} \cup Ids
  BY Typed
<1>1. Held'
  BY <1>0 DEF Held, But
<1>2. Queued' = Queued /\ Queued \subseteq Ids
  BY Weights DEF Queued, Range
<1>3. Spent' = Spent
  BY <1>2 DEF Spent, But
<1>4. Enough'
  BY <1>2, <1>3 DEF Enough, HeldForReason
<1>5. \A i \in Ids' : tasks'[i].st = "waiting" => i \in Queued'
  <2>1. \A i \in Ids : tasks[i].st = "waiting" => i \in Queued
    BY DEF TypeOK
  <2> QED
    BY <1>2, <2>1 DEF But
<1> QED
  BY <1>1, <1>4, <1>5

\* A task that is cancelled in the queue pays with its own end.
LEMMA SpentStep ==
  ASSUME IInv, NEW t \in Ids, But(t), queue' = queue, at' = at,
         tasks[t].st = "waiting", tasks'[t].st = "cancelled"
  PROVE  /\ Held' /\ Enough'
         /\ \A i \in Ids' : tasks'[i].st = "waiting" => i \in Queued'
<1> USE DEF IInv
<1>0. /\ \A i \in DOMAIN queue : queue[i] \in {Nil} \cup Ids
      /\ \A i \in Ids : tasks[i].st = "waiting" => i \in Queued
  BY Typed DEF TypeOK
<1>1. Held'
  BY <1>0 DEF Held, But
<1>2. Queued' = Queued /\ Queued \subseteq Ids /\ t \in Queued
  BY <1>0, Weights DEF Queued, Range
<1>3. Spent' = Spent \cup {t} /\ t \notin Spent
  BY <1>2 DEF Spent, But
<1>4. Cardinality(Spent') = Cardinality(Spent) + 1
  BY <1>3, Weights, FS_AddElement
<1>5. Ends' = Ends + 1
  <2>1. Cardinality(UnderWay') = Cardinality(UnderWay) + 1
    <3>1. tasks'[t].st \in Working /\ ~(tasks[t].st \in Working)
      BY DEF Working
    <3> QED
      BY <3>1, UnderWayBut, Weights
  <2> QED
    BY <2>1, Weights DEF Ends
<1>6. Enough'
  BY <1>2, <1>4, <1>5, Weights, DownloaderAssumption
     DEF Enough, HeldForReason, DownloaderAssumption
<1>7. \A i \in Ids' : tasks'[i].st = "waiting" => i \in Queued'
  BY <1>0, <1>2 DEF But
<1> QED
  BY <1>1, <1>6, <1>7

-----------------------------------------------------------------------------
(* The next task is taken from the queue                                   *)

LEMMA Least ==
  ASSUME NEW T \in SUBSET Nat, T # {}
  PROVE  Min(T) \in T /\ \A y \in T : Min(T) <= y
<1> DEFINE R == OpToRel(<, Nat)
<1>1. IsWellFoundedOn(R, Nat)
  BY NatLessThanWellFounded
<1>2. \A x, y \in Nat : <<x, y>> \in R <=> x < y
  BY DEF OpToRel
<1> HIDE DEF R
<1>3. PICK x \in T : \A y \in T : ~ (<<y, x>> \in R)
  BY <1>1, WFMin
<1>4. ASSUME NEW y \in T PROVE x <= y
  <2>1. x \in Nat /\ y \in Nat
    OBVIOUS
  <2>2. ~(y < x)
    BY <1>2, <1>3, <2>1
  <2> QED
    BY <2>1, <2>2
<1> QED
  BY <1>4 DEF Min

\* What is taken is the first task that is held; what stays comes after it.
LEMMA NextTaken ==
  ASSUME TypeOK, Queued # {}
  PROVE  \E m \in DOMAIN queue :
           LET rest == WithoutNils(queue) IN
           /\ queue[m] # Nil /\ rest # << >> /\ Head(rest) = queue[m]
           /\ Tail(rest) \in Seq({Nil} \cup Ids) /\ Len(Tail(rest)) = Len(queue) - m
           /\ DOMAIN Tail(rest) = 1..Len(queue) - m
           /\ \A i \in 1..Len(queue) - m : Tail(rest)[i] = queue[m + i]
           /\ \A i \in 1..m - 1 : queue[i] = Nil
<1> DEFINE held == {i \in DOMAIN queue : queue[i] # Nil}
           m == Min(held)
           n == Len(queue)
           rest == SubSeq(queue, m, n)
<1>0. /\ DOMAIN queue = 1..n /\ n \in Nat
      /\ \A i \in DOMAIN queue : queue[i] \in {Nil} \cup Ids
  BY Typed
<1>1. held # {} /\ held \in SUBSET Nat
  BY <1>0, Weights
<1>2. m \in held /\ \A i \in held : m <= i
  BY <1>1, Least
<1> HIDE DEF m
<1>3. m \in 1..n /\ queue[m] # Nil /\ \A i \in 1..m - 1 : queue[i] = Nil
  BY <1>0, <1>2
<1>4. WithoutNils(queue) = rest
  BY <1>1 DEF WithoutNils, m
<1>5. /\ rest \in Seq({Nil} \cup Ids) /\ Len(rest) = n - m + 1
      /\ \A i \in 1..n - m + 1 : rest[i] = queue[m + i - 1]
  <2>1. \A i \in m..n : queue[i] \in {Nil} \cup Ids
    BY <1>0, <1>3
  <2> HIDE DEF n
  <2>2. m \in Int /\ n \in Int /\ m <= n
    BY <1>0, <1>3
  <2> QED
    BY <2>1, <2>2, SubSeqProperties
<1> HIDE DEF rest, n
<1>6. rest # << >>
  BY <1>0, <1>3, <1>5
<1>7. /\ Tail(rest) \in Seq({Nil} \cup Ids) /\ Len(Tail(rest)) = n - m
      /\ DOMAIN Tail(rest) = 1..n - m /\ Head(rest) = rest[1]
      /\ \A i \in 1..n - m : Tail(rest)[i] = rest[i + 1]
  <2>1. Len(rest) - 1 = n - m
    BY <1>0, <1>3, <1>5
  <2>2. /\ Tail(rest) \in Seq({Nil} \cup Ids) /\ Len(Tail(rest)) = Len(rest) - 1
        /\ DOMAIN Tail(rest) = 1..Len(rest) - 1 /\ Head(rest) = rest[1]
        /\ \A i \in 1..Len(rest) - 1 : Tail(rest)[i] = rest[i + 1]
    BY <1>5, <1>6, Tailed
  <2> QED
    BY <2>1, <2>2
<1>8. Head(rest) = queue[m]
  BY <1>0, <1>3, <1>5, <1>7
<1>9. ASSUME NEW i \in 1..n - m PROVE Tail(rest)[i] = queue[m + i]
  <2>1. i + 1 \in 1..n - m + 1 /\ m + (i + 1) - 1 = m + i
    BY <1>0, <1>3
  <2> QED
    BY <1>5, <1>7, <2>1
<1> QED
  BY <1>0, <1>3, <1>4, <1>6, <1>7, <1>8, <1>9 DEF n

LEMMA EmptyReturns ==
  ASSUME IInv, CompleteReturns, Queued = {}
  PROVE  tasks' = tasks /\ queue' = << >>
<1>1. \A i \in DOMAIN queue : queue[i] = Nil
  BY Weights DEF IInv
<1>2. WithoutNils(queue) = << >>
  BY <1>1 DEF WithoutNils
<1> QED
  BY <1>2 DEF CompleteReturns

\* The head h of what is held leaves the queue, and runs unless it was cancelled.
LEMMA TakenStep ==
  ASSUME IInv, CompleteReturns, Queued # {}
  PROVE  \E m \in DOMAIN queue :
           /\ queue[m] \in Ids
           /\ Becomes(queue[m], IF tasks[queue[m]].st = "waiting"
                                  THEN [tasks[queue[m]] EXCEPT !.st = "running"]
                                  ELSE tasks[queue[m]])
           /\ queue' \in Seq({Nil} \cup Ids) /\ Len(queue') = Len(queue) - m
           /\ DOMAIN queue' = 1..Len(queue) - m
           /\ \A i \in 1..Len(queue) - m : queue'[i] = queue[m + i]
           /\ \A i \in 1..m - 1 : queue[i] = Nil
<1>0. TypeOK
  BY DEF IInv
<1>1. PICK m \in DOMAIN queue :
           LET rest == WithoutNils(queue) IN
           /\ queue[m] # Nil /\ rest # << >> /\ Head(rest) = queue[m]
           /\ Tail(rest) \in Seq({Nil} \cup Ids) /\ Len(Tail(rest)) = Len(queue) - m
           /\ DOMAIN Tail(rest) = 1..Len(queue) - m
           /\ \A i \in 1..Len(queue) - m : Tail(rest)[i] = queue[m + i]
           /\ \A i \in 1..m - 1 : queue[i] = Nil
  BY <1>0, NextTaken
<1>2. queue' = Tail(WithoutNils(queue)) /\ tasks' = Resumed(queue[m])
  BY <1>1 DEF CompleteReturns
<1>3. PICK t \in Ids : t = queue[m]
  BY <1>0, <1>1, Typed
<1>4. PICK p : p = IF tasks[t].st = "waiting" THEN [tasks[t] EXCEPT !.st = "running"]
                                              ELSE tasks[t]
  OBVIOUS
<1>5. Becomes(t, p)
  <2>1. /\ Ids = 1..Len(tasks) /\ Len(tasks) \in Nat
        /\ \A i \in Ids : tasks[i] \in Tasks
    BY <1>0, Typed
  <2>2. p \in Tasks
    BY <1>4, <2>1 DEF Tasks, States
  <2>3. tasks' = [i \in Ids |-> IF i = t THEN p ELSE tasks[i]]
    BY <1>2, <1>3, <1>4 DEF Resumed
  <2>4. tasks' \in [1..Len(tasks) -> Tasks]
    BY <2>1, <2>2, <2>3
  <2>5. tasks' \in Seq(Tasks)
    BY <2>1, <2>4, SeqFun
  <2>6. Ids' = Ids
    BY <2>1, <2>4 DEF Ids
  <2> QED
    BY <2>3, <2>5, <2>6 DEF Becomes
<1> QED
  BY <1>1, <1>2, <1>3, <1>4, <1>5

LEMMA ReturnsStep ==
  ASSUME IInv, CompleteReturns
  PROVE  /\ Held' /\ Enough' /\ queue' \in Seq({Nil} \cup Ids')
         /\ \A i \in Ids' : tasks'[i].st = "waiting" => i \in Queued'
<1> USE DEF IInv
<1>0. /\ DOMAIN queue = 1..Len(queue) /\ Len(queue) \in Nat /\ Nil \notin Ids
      /\ \A i \in DOMAIN queue : queue[i] \in {Nil} \cup Ids
      /\ \A i \in Ids : tasks[i].st = "waiting" => i \in Queued
      /\ at = "complete" /\ at' = "loop"
      /\ MaxProcessing \in Nat \ {0}
  BY Typed, DownloaderAssumption DEF TypeOK, CompleteReturns, DownloaderAssumption
<1>1. CASE Queued = {}
  <2>1. tasks' = tasks /\ queue' = << >>
    BY <1>1, EmptyReturns
  <2>2. DOMAIN queue' = {} /\ Len(queue') = 0 /\ queue' \in Seq({Nil} \cup Ids)
    BY <2>1, EmptySeq
  <2>3. Queued' = {}
    BY <2>2 DEF Queued, Range
  <2>4. Ids' = Ids /\ UnderWay' = UnderWay
    BY <2>1 DEF Ids, UnderWay
  <2>5. Ends' >= 0
    BY <1>0, <2>4, Weights DEF Ends
  <2> QED
    BY <1>0, <1>1, <2>1, <2>2, <2>3, <2>4, <2>5 DEF Held, Enough, HeldForReason
<1>2. CASE Queued # {}
  <2>1. PICK m \in DOMAIN queue :
           /\ queue[m] \in Ids
           /\ Becomes(queue[m], IF tasks[queue[m]].st = "waiting"
                                  THEN [tasks[queue[m]] EXCEPT !.st = "running"]
                                  ELSE tasks[queue[m]])
           /\ queue' \in Seq({Nil} \cup Ids) /\ Len(queue') = Len(queue) - m
           /\ DOMAIN queue' = 1..Len(queue) - m
           /\ \A i \in 1..Len(queue) - m : queue'[i] = queue[m + i]
           /\ \A i \in 1..m - 1 : queue[i] = Nil
    BY <1>2, TakenStep
  <2>2. PICK t \in Ids : t = queue[m]
    BY <2>1
  <2>3. /\ tasks[t].st = "waiting" => tasks'[t].st = "running"
        /\ tasks[t].st # "waiting" => tasks'[t].st = tasks[t].st
    <3>1. tasks[t] \in Tasks
      BY Typed
    <3> QED
      BY <2>1, <2>2, <3>1 DEF Becomes, Tasks
  <2>4. Ids' = Ids /\ But(t)
    BY <2>1, <2>2 DEF Becomes, But
  <2>5. \A i \in DOMAIN queue' : m + i \in DOMAIN queue /\ queue'[i] = queue[m + i] /\ i \in Nat
                                 /\ i <= m + i /\ m + i # m
    BY <1>0, <2>1
  <2>6. t \notin Queued' /\ Queued' = Queued \ {t}
    <3>1. \A i \in DOMAIN queue' : queue'[i] # t
      BY <1>0, <2>2, <2>5 DEF Held
    <3>2. \A x : x \in Queued' <=> x # Nil /\ \E i \in DOMAIN queue' : queue'[i] = x
      BY DEF Queued, Range
    <3>3. Queued' \subseteq Queued \ {t}
      BY <2>5, <3>1, <3>2, Weights
    <3>4. ASSUME NEW x \in Queued, x # t PROVE x \in Queued'
      <4>1. PICK i \in DOMAIN queue : queue[i] = x /\ x # Nil
        BY <3>4, Weights
      <4>2. i > m
        <5>1. ~(i \in 1..m - 1) /\ i # m
          BY <2>1, <2>2, <3>4, <4>1
        <5> QED
          BY <1>0, <5>1
      <4>3. i - m \in DOMAIN queue' /\ m + (i - m) = i
        BY <1>0, <2>1, <4>2
      <4>4. queue'[i - m] = x
        BY <2>5, <4>1, <4>3
      <4> QED
        BY <3>2, <4>1, <4>3, <4>4
    <3> QED
      BY <3>1, <3>2, <3>3, <3>4
  <2>7. Held'
    <3>1. ASSUME NEW i \in DOMAIN queue', NEW j \in DOMAIN queue', queue'[i] = queue'[j],
                 queue'[i] # Nil
          PROVE  i = j
      <4>1. m + i = m + j
        BY <2>5, <3>1 DEF Held
      <4> QED
        BY <1>0, <2>5, <4>1
    <3>2. ASSUME NEW i \in DOMAIN queue', queue'[i] # Nil
          PROVE  tasks'[queue'[i]].st # "delayed"
      <4>1. queue'[i] \in Ids /\ tasks[queue'[i]].st # "delayed" /\ queue'[i] # t
        BY <1>0, <2>2, <2>5, <3>2 DEF Held
      <4> QED
        BY <2>4, <4>1 DEF But
    <3>3. ASSUME NEW i \in DOMAIN queue', queue'[i] = Nil PROVE i <= MaxProcessing
      <4>1. m + i <= MaxProcessing
        BY <2>5, <3>3 DEF Held
      <4> QED
        BY <1>0, <2>5, <4>1
    <3> QED
      BY <3>1, <3>2, <3>3 DEF Held
  <2>8. t \in Queued
    BY <1>0, <2>2, Weights
  <2>9. /\ Spent' = Spent \ {t}
        /\ t \in Spent <=> tasks[t].st # "waiting"
    <3>1. \A i \in Queued : i # t => tasks'[i].st = tasks[i].st
      BY <2>4, Weights DEF But
    <3> QED
      BY <2>6, <2>8, <3>1 DEF Spent
  <2>10. /\ Cardinality(UnderWay') = Cardinality(UnderWay)
                                      + (IF tasks[t].st = "waiting" THEN 1 ELSE 0)
         /\ Cardinality(Spent') = Cardinality(Spent)
                                   - (IF tasks[t].st = "waiting" THEN 0 ELSE 1)
    <3>1. Cardinality(Spent') = IF t \in Spent THEN Cardinality(Spent) - 1
                                ELSE Cardinality(Spent)
      BY <2>9, Weights, FS_RemoveElement
    <3>2. Cardinality(UnderWay') = Cardinality(UnderWay)
           + (IF tasks'[t].st \in Working THEN 1 ELSE 0)
           - (IF tasks[t].st \in Working THEN 1 ELSE 0)
      BY <2>4, UnderWayBut
    <3>3. IF tasks[t].st = "waiting"
            THEN tasks'[t].st \in Working /\ ~(tasks[t].st \in Working)
            ELSE tasks'[t].st \in Working <=> tasks[t].st \in Working
      BY <2>3 DEF Working
    <3> QED
      BY <2>9, <3>1, <3>2, <3>3, Weights
  <2>11. Ends' - Cardinality(Spent') = Ends - Cardinality(Spent)
    BY <1>0, <2>10, Weights DEF Ends
  <2>12. Ends' - Cardinality(Spent') >= MaxProcessing
    BY <1>0, <1>2, <2>11, Weights DEF Enough, HeldForReason
  <2>13. Cardinality(Spent') \in Nat /\ Ends' \in Nat
    BY <1>0, <2>9, <2>10, Weights, FS_RemoveElement, FS_CardinalityType DEF Ends
  <2>14. Queued' = {} => Ends' >= Len(queue')
    <3>1. SUFFICES ASSUME Queued' = {}, Len(queue') > 0 PROVE Ends' >= Len(queue')
      BY <1>0, <2>1, <2>13
    <3>2. Len(queue') \in DOMAIN queue'
      BY <1>0, <2>1, <3>1
    <3>3. queue'[Len(queue')] = Nil
      BY <3>1, <3>2 DEF Queued, Range
    <3>4. Len(queue') <= MaxProcessing
      BY <2>7, <3>2, <3>3 DEF Held
    <3> QED
      BY <1>0, <2>1, <2>12, <2>13, <3>4
  <2>15. Enough'
    BY <1>0, <2>12, <2>13, <2>14 DEF Enough, HeldForReason
  <2>16. \A i \in Ids' : tasks'[i].st = "waiting" => i \in Queued'
    BY <1>0, <2>3, <2>4, <2>6 DEF But
  <2> QED
    BY <2>1, <2>4, <2>7, <2>15, <2>16
<1> QED
  BY <1>1, <1>2

-----------------------------------------------------------------------------
(* The steps                                                               *)

\* What each step does to the tasks, one at a time.
Adds(t, p) ==
  /\ t = Len(tasks) + 1 /\ Ids' = Ids \cup {t} /\ tasks' \in Seq(Tasks)
  /\ tasks'[t] = p /\ \A i \in Ids : tasks'[i] = tasks[i]

Starts(t) ==
  \/ Len(queue) < MaxProcessing /\ tasks'[t].st = "running" /\ queue' = Append(queue, Nil)
  \/ ~(Len(queue) < MaxProcessing) /\ tasks'[t].st = "waiting" /\ queue' = Append(queue, t)

LEMMA CreateStep ==
  ASSUME TypeOK, NEW kind \in Kinds, NEW u \in Urls, Create(kind, u)
  PROVE  \E t, s : /\ Adds(t, [NewTask(kind, u) EXCEPT !.st = s])
                   /\ \/ /\ s = "delayed" /\ queue' = queue
                         /\ timers' = [timers EXCEPT ![u] = IF @ = Nil THEN t ELSE @]
                      \/ /\ s \in {"running", "waiting"} /\ Starts(t) /\ timers' = timers
                   /\ s \in {"delayed", "running", "waiting"}
<1> DEFINE o == NewTask(kind, u)
           ts == Append(tasks, o)
<1>1. PICK t : t = Len(tasks) + 1
  OBVIOUS
<1>2. o \in Tasks /\ o.st = "delayed"
  BY DEF NewTask, Tasks, States
<1>3. /\ ts \in Seq(Tasks) /\ Len(ts) = t /\ DOMAIN ts = 1..t
      /\ ts[t] = o /\ \A i \in Ids : ts[i] = tasks[i]
      /\ t \in 1..t /\ 1..t = Ids \cup {t} /\ t \notin Ids
  <2>1. tasks \in Seq(Tasks) /\ Ids = 1..Len(tasks) /\ Len(tasks) \in Nat
    BY Typed
  <2> HIDE DEF o
  <2>2. /\ ts \in Seq(Tasks) /\ Len(ts) = t /\ DOMAIN ts = 1..Len(tasks) + 1
        /\ ts[t] = o /\ \A i \in 1..Len(tasks) : ts[i] = tasks[i]
    BY <1>1, <1>2, <2>1, Appended
  <2> QED
    BY <1>1, <2>1, <2>2
<1> HIDE DEF ts, o
<1>4. [o EXCEPT !.st = "delayed"] = o
  BY <1>2 DEF Tasks
<1>5. CASE kind = "file" /\ u \in mark
  <2>1. /\ tasks' = ts /\ queue' = queue
        /\ timers' = [timers EXCEPT ![u] = IF @ = Nil THEN t ELSE @]
    BY <1>3, <1>5 DEF Create, ts, o
  <2>2. Adds(t, o)
    BY <1>1, <1>3, <2>1 DEF Adds, Ids
  <2> QED
    BY <1>4, <2>1, <2>2 DEF o
<1>6. CASE ~(kind = "file" /\ u \in mark)
  <2>1. Made(ts, t) /\ timers' = timers
    BY <1>3, <1>6 DEF Create, ts, o
  <2>2. PICK s \in {"running", "waiting"} :
          /\ tasks' = [ts EXCEPT ![t].st = s]
          /\ IF s = "running" THEN Len(queue) < MaxProcessing /\ queue' = Append(queue, Nil)
             ELSE ~(Len(queue) < MaxProcessing) /\ queue' = Append(queue, t)
    BY <2>1 DEF Made, Room
  <2>3. [o EXCEPT !.st = s] \in Tasks /\ [o EXCEPT !.st = s].st = s
    BY <1>2 DEF Tasks, States
  <2> DEFINE p == [o EXCEPT !.st = s]
  <2>4. tasks' = [ts EXCEPT ![t] = p]
    BY <1>3, <2>2
  <2> HIDE DEF p
  <2>5. tasks' \in Seq(Tasks)
    BY <1>3, <2>3, <2>4, ExceptSeq DEF p
  <2>6. DOMAIN tasks' = 1..t /\ tasks'[t] = p /\ \A i \in Ids : tasks'[i] = ts[i]
    BY <1>3, <2>4
  <2>7. Adds(t, p)
    BY <1>1, <1>3, <2>5, <2>6 DEF Adds, Ids
  <2>8. Starts(t)
    BY <2>2, <2>3, <2>6 DEF Starts, p
  <2> QED
    BY <2>1, <2>7, <2>8 DEF o, p
<1> QED
  BY <1>5, <1>6

LEMMA FiresStep ==
  ASSUME TypeOK, NEW u \in Urls, TimerFires(u)
  PROVE  \E t \in Ids, s \in {"running", "waiting"} :
           /\ t = timers[u] /\ Becomes(t, [tasks[t] EXCEPT !.st = s]) /\ Starts(t)
<1>1. PICK t \in Ids : t = timers[u]
  BY DEF TimerFires, TypeOK
<1>2. Made(tasks, t)
  BY <1>1 DEF TimerFires
<1>3. PICK s \in {"running", "waiting"} :
        /\ tasks' = [tasks EXCEPT ![t].st = s]
        /\ IF s = "running" THEN Len(queue) < MaxProcessing /\ queue' = Append(queue, Nil)
           ELSE ~(Len(queue) < MaxProcessing) /\ queue' = Append(queue, t)
  BY <1>2 DEF Made, Room
<1>4. tasks[t] \in Tasks /\ [tasks[t] EXCEPT !.st = s] \in Tasks
      /\ [tasks[t] EXCEPT !.st = s].st = s
  <2>1. tasks[t] \in Tasks
    BY Typed
  <2> QED
    BY <2>1 DEF Tasks, States
<1>5. PICK p : p = [tasks[t] EXCEPT !.st = s]
  OBVIOUS
<1>6. tasks' = [tasks EXCEPT ![t] = p]
  BY <1>3, <1>5
<1>7. Becomes(t, p)
  BY <1>4, <1>5, <1>6, BecomesStep
<1>8. Starts(t)
  BY <1>3, <1>4, <1>5, <1>7 DEF Starts, Becomes
<1> QED
  BY <1>1, <1>5, <1>7, <1>8

LEMMA TypeParts ==
  ASSUME tasks' \in Seq(Tasks), queue' \in Seq({Nil} \cup Ids'),
         \A i \in Ids' : tasks'[i].st = "waiting" => i \in Queued',
         up' \in BOOLEAN, at' \in {"loop", "finish", "complete"},
         timers' \in [Urls -> {Nil} \cup Ids'], mark' \subseteq Urls
  PROVE  TypeOK'
BY DEF TypeOK, Tasks, States

\* One task moves on, and no timer is touched.
LEMMA OneMoves ==
  ASSUME IInv, NEW t \in Ids, NEW p \in Tasks, Becomes(t, p), Reported(p),
         up' = up, at' \in {"loop", "finish", "complete"}, timers' = timers, mark' \subseteq Urls,
         queue' \in Seq({Nil} \cup Ids'), Held', Enough',
         \A i \in Ids' : tasks'[i].st = "waiting" => i \in Queued',
         tasks[t].st = "delayed" => p.st = "delayed" /\ p.url = tasks[t].url
  PROVE  IInv'
<1>1. Ids' = Ids /\ tasks' \in Seq(Tasks) /\ tasks'[t] = p
      /\ \A i \in Ids \ {t} : tasks'[i] = tasks[i]
  BY DEF Becomes
<1>2. TypeOK'
  BY <1>1, TypeParts DEF IInv, TypeOK
<1>3. Reports'
  BY <1>1 DEF IInv, Reports, Reported
<1>4. Delays'
  <2>1. ASSUME NEW u \in Urls, timers[u] # Nil
        PROVE  tasks'[timers[u]].st = "delayed" /\ tasks'[timers[u]].url = u
    <3>1. /\ timers[u] \in Ids /\ tasks[timers[u]].st = "delayed"
          /\ tasks[timers[u]].url = u
      BY <2>1 DEF IInv, TypeOK, Delays
    <3> QED
      BY <1>1, <3>1
  <2> QED
    BY <2>1 DEF Delays
<1> QED
  BY <1>2, <1>3, <1>4 DEF IInv

LEMMA CreateKeeps ==
  ASSUME IInv, NEW kind \in Kinds, NEW u \in Urls, Create(kind, u)
  PROVE  IInv'
<1>0. TypeOK /\ tasks \in Seq(Tasks) /\ Ids = 1..Len(tasks) /\ Len(tasks) \in Nat
  BY Typed DEF IInv
<1>1. PICK t, s : /\ Adds(t, [NewTask(kind, u) EXCEPT !.st = s])
                  /\ \/ /\ s = "delayed" /\ queue' = queue
                        /\ timers' = [timers EXCEPT ![u] = IF @ = Nil THEN t ELSE @]
                     \/ /\ s \in {"running", "waiting"} /\ Starts(t) /\ timers' = timers
                  /\ s \in {"delayed", "running", "waiting"}
  BY <1>0, CreateStep
<1>2. PICK p : p = [NewTask(kind, u) EXCEPT !.st = s]
  OBVIOUS
<1>3. /\ t \notin Ids /\ t # Nil /\ Ids' = Ids \cup {t} /\ tasks' \in Seq(Tasks)
      /\ tasks'[t] = p /\ \A i \in Ids : tasks'[i] = tasks[i]
  BY <1>0, <1>1, <1>2 DEF Adds, Nil
<1>4. /\ p.st = s /\ p.url = u /\ p.told = 0 /\ ~p.ok /\ ~p.held
  BY <1>2 DEF NewTask
<1>5. up' = up /\ at' = at /\ mark' \subseteq Urls
  BY <1>0 DEF Create, TypeOK
<1>6. But(t)
  BY <1>3 DEF But
<1>7. Reports'
  BY <1>1, <1>3, <1>4, <1>5 DEF IInv, Reports, Reported
<1>8. timers' \in [Urls -> {Nil} \cup Ids']
  BY <1>1, <1>3 DEF IInv, TypeOK
<1>9. Delays'
  <2>1. ASSUME NEW v \in Urls, timers'[v] # Nil
        PROVE  tasks'[timers'[v]].st = "delayed" /\ tasks'[timers'[v]].url = v
    <3>1. CASE timers'[v] = timers[v]
      <4>1. /\ timers[v] \in Ids /\ tasks[timers[v]].st = "delayed"
            /\ tasks[timers[v]].url = v
        BY <2>1, <3>1 DEF IInv, TypeOK, Delays
      <4> QED
        BY <1>3, <3>1, <4>1
    <3>2. CASE timers'[v] # timers[v]
      <4>1. v = u /\ timers'[v] = t /\ s = "delayed"
        BY <1>1, <3>2 DEF IInv, TypeOK
      <4> QED
        BY <1>3, <1>4, <4>1
    <3> QED
      BY <3>1, <3>2
  <2> QED
    BY <2>1 DEF Delays
<1>10. /\ Held' /\ Enough' /\ queue' \in Seq({Nil} \cup Ids')
       /\ \A i \in Ids' : tasks'[i].st = "waiting" => i \in Queued'
  <2>1. CASE s = "delayed"
    <3>1. queue' = queue
      BY <1>1, <2>1
    <3>2. Held'
      BY <1>0, <1>3, <3>1, Typed DEF IInv, Held
    <3>3. Queued' = Queued /\ Queued \subseteq Ids /\ t \notin Queued
      BY <1>0, <1>3, <3>1, Weights DEF Queued, Range
    <3>4. Spent' = Spent
      BY <1>3, <3>3 DEF Spent
    <3>5. UnderWay' = UnderWay
      BY <1>3, <1>4, <2>1 DEF UnderWay
    <3>6. Enough'
      BY <1>5, <3>1, <3>3, <3>4, <3>5 DEF IInv, Enough, HeldForReason, Ends
    <3>7. queue' \in Seq({Nil} \cup Ids')
      <4>1. {Nil} \cup Ids \subseteq {Nil} \cup Ids'
        BY <1>3
      <4> QED
        BY <1>0, <3>1, <4>1, SeqMonotonic, Typed
    <3>8. \A i \in Ids' : tasks'[i].st = "waiting" => i \in Queued'
      BY <1>0, <1>3, <1>4, <2>1, <3>3 DEF TypeOK
    <3> QED
      BY <3>2, <3>6, <3>7, <3>8
  <2>2. CASE Starts(t)
    BY <1>3, <1>5, <1>6, <2>2, PutStep DEF Starts
  <2> QED
    BY <1>1, <2>1, <2>2
<1>11. TypeOK'
  BY <1>0, <1>3, <1>5, <1>8, <1>10, TypeParts DEF TypeOK
<1> QED
  BY <1>7, <1>9, <1>10, <1>11 DEF IInv

LEMMA FiresKeeps ==
  ASSUME IInv, NEW u \in Urls, TimerFires(u)
  PROVE  IInv'
<1>0. TypeOK
  BY DEF IInv
<1>1. PICK t \in Ids, s \in {"running", "waiting"} :
        /\ t = timers[u] /\ Becomes(t, [tasks[t] EXCEPT !.st = s]) /\ Starts(t)
  BY <1>0, FiresStep
<1>2. PICK p : p = [tasks[t] EXCEPT !.st = s]
  OBVIOUS
<1>3. /\ Ids' = Ids /\ tasks' \in Seq(Tasks) /\ tasks'[t] = p
      /\ \A i \in Ids \ {t} : tasks'[i] = tasks[i]
  BY <1>1, <1>2 DEF Becomes
<1>4. tasks[t].st = "delayed" /\ tasks[t].url = u /\ t # Nil /\ tasks[t] \in Tasks
  BY <1>0, <1>1, Typed DEF IInv, Delays, TimerFires
<1>5. /\ p.st = s /\ p.told = tasks[t].told /\ p.ok = tasks[t].ok
      /\ p.held = tasks[t].held /\ p.spoilt = tasks[t].spoilt
  BY <1>2, <1>4 DEF Tasks
<1>6. /\ up' = up /\ at' = at /\ mark' \subseteq Urls
      /\ timers' = [timers EXCEPT ![u] = Nil] /\ timers' \in [Urls -> {Nil} \cup Ids']
  BY <1>0, <1>3 DEF TimerFires, TypeOK
<1>7. But(t)
  BY <1>3 DEF But
<1>8. /\ Held' /\ Enough' /\ queue' \in Seq({Nil} \cup Ids')
      /\ \A i \in Ids' : tasks'[i].st = "waiting" => i \in Queued'
  BY <1>1, <1>4, <1>6, <1>7, PutStep DEF Starts
<1>9. Reports'
  <2>1. Reported(tasks[t]) /\ \A i \in Ids \ {t} : Reported(tasks[i])
    BY DEF IInv, Reports
  <2>2. Reported(p)'
    BY <1>1, <1>4, <1>5, <2>1 DEF Reported
  <2> QED
    BY <1>3, <1>6, <2>1, <2>2 DEF Reports, Reported
<1>10. Delays'
  <2>1. ASSUME NEW v \in Urls, timers'[v] # Nil
        PROVE  tasks'[timers'[v]].st = "delayed" /\ tasks'[timers'[v]].url = v
    <3>1. v # u /\ timers'[v] = timers[v]
      BY <1>0, <1>6, <2>1 DEF TypeOK
    <3>2. /\ timers[v] \in Ids /\ tasks[timers[v]].st = "delayed"
          /\ tasks[timers[v]].url = v
      BY <2>1, <3>1 DEF IInv, TypeOK, Delays
    <3>3. timers[v] # t
      BY <1>4, <3>1, <3>2
    <3> QED
      BY <1>3, <3>1, <3>2, <3>3
  <2> QED
    BY <2>1 DEF Delays
<1>11. TypeOK'
  BY <1>0, <1>3, <1>6, <1>8, TypeParts DEF TypeOK
<1> QED
  BY <1>8, <1>9, <1>10, <1>11 DEF IInv

LEMMA AbortKeeps ==
  ASSUME IInv, NEW t \in Ids, Abort(t)
  PROVE  IInv'
<1>0. TypeOK /\ tasks[t] \in Tasks /\ Reported(tasks[t])
  BY Typed DEF IInv, Reports
<1>1. PICK p : p = Cancelled(tasks[t])
  OBVIOUS
<1>2. /\ tasks' = [tasks EXCEPT ![t] = p]
      /\ UNCHANGED <<up, queue, timers, mark, at>>
  BY <1>1 DEF Abort
<1>3. tasks[t].st = "waiting" =>
        /\ p \in Tasks /\ p.st = "cancelled" /\ p.held
        /\ p.told = tasks[t].told /\ p.ok = tasks[t].ok
  BY <1>0, <1>1 DEF Cancelled, Tasks, States
<1>4. tasks[t].st # "waiting" => p = tasks[t]
  BY <1>1 DEF Cancelled
<1>5. p \in Tasks
  BY <1>0, <1>3, <1>4
<1>6. Becomes(t, p)
  BY <1>0, <1>2, <1>5, BecomesStep
<1>7. But(t) /\ tasks'[t] = p /\ Ids' = Ids
  BY <1>6 DEF Becomes, But
<1>8. Reported(p)
  BY <1>0, <1>3, <1>4 DEF Reported
<1>9. Held' /\ Enough' /\ \A i \in Ids' : tasks'[i].st = "waiting" => i \in Queued'
  <2>1. CASE tasks[t].st = "waiting"
    BY <1>2, <1>3, <1>7, <2>1, SpentStep
  <2>2. CASE tasks[t].st # "waiting"
    <3>1. Ends' = Ends
      BY <1>0, <1>2, <1>4, <1>7, <2>2, UnderWayBut, Weights DEF Ends
    <3> QED
      BY <1>2, <1>4, <1>7, <2>2, <3>1, StayStep
  <2> QED
    BY <2>1, <2>2
<1> QED
  BY <1>2, <1>3, <1>4, <1>5, <1>6, <1>7, <1>8, <1>9, <1>0, Typed, OneMoves
     DEF TypeOK

LEMMA FinishKeeps ==
  ASSUME IInv, NEW t \in Ids, NEW status \in {"bad", "copied", "uncopied"},
         Finish(t, status)
  PROVE  IInv'
<1>0. TypeOK /\ tasks[t] \in Tasks /\ Reported(tasks[t]) /\ tasks[t].st = "running"
  BY Typed DEF IInv, Reports, Finish
<1>1. PICK p : p = IF up THEN Finished(tasks[t], status) ELSE tasks[t]
  OBVIOUS
<1>2. /\ tasks' = [tasks EXCEPT ![t] = p]
      /\ UNCHANGED <<up, queue, timers, mark>> /\ at = "loop" /\ at' \in {"loop", "finish"}
  <2>1. tasks = [tasks EXCEPT ![t] = tasks[t]]
    <3>1. tasks \in [1..Len(tasks) -> Tasks]
      BY <1>0, Typed, LenProperties
    <3> QED
      BY <3>1
  <2> QED
    BY <1>1, <2>1 DEF Finish
<1>3. /\ p \in Tasks /\ p.st \in {"running", "stored", "refused"}
      /\ Reported(p)
  <2>1. CASE ~up
    BY <1>0, <1>1, <2>1
  <2>2. CASE up /\ status = "bad"
    <3>1. p = [tasks[t] EXCEPT !.st = "refused"]
      BY <1>1, <2>2 DEF Finished
    <3>2. /\ p \in Tasks /\ p.st = "refused" /\ p.told = tasks[t].told
          /\ p.ok = tasks[t].ok /\ p.held = tasks[t].held /\ p.spoilt = tasks[t].spoilt
      BY <1>0, <3>1 DEF Tasks, States
    <3> QED
      BY <1>0, <3>2 DEF Reported
  <2>3. CASE up /\ status # "bad"
    <3> DEFINE ok == (status = "copied")
               told == tasks[t].told + 1
    <3>1. p = [[tasks[t] EXCEPT !.told = told, !.ok = ok] EXCEPT !.st = "stored"]
      BY <1>1, <2>3 DEF Finished, Told
    <3>2. told = 1 /\ told \in 0..2 /\ ok \in BOOLEAN /\ ~tasks[t].held
      <4>1. tasks[t].told = 0 /\ ~tasks[t].held
        BY <1>0 DEF Reported
      <4>2. ok \in BOOLEAN
        BY Zenon
      <4>3. told = 1 /\ told \in 0..2
        BY <4>1
      <4> QED
        BY <4>1, <4>2, <4>3
    <3> HIDE DEF told, ok
    <3>3. /\ p \in Tasks /\ p.st = "stored" /\ p.told = told
          /\ p.ok = ok /\ p.held = tasks[t].held /\ p.spoilt = tasks[t].spoilt
      BY <1>0, <3>1, <3>2 DEF Tasks, States
    <3>4. p.st = "stored" /\ p.told = 1 /\ ~p.held
      BY <3>2, <3>3
    <3> QED
      BY <3>3, <3>4 DEF Reported
  <2> QED
    BY <2>1, <2>2, <2>3
<1>4. Becomes(t, p)
  BY <1>0, <1>2, <1>3, BecomesStep
<1>5. But(t) /\ tasks'[t] = p /\ Ids' = Ids
  BY <1>4 DEF Becomes, But
<1>6. Ends' = Ends
  <2>1. tasks'[t].st \in Working /\ tasks[t].st \in Working
    BY <1>0, <1>3, <1>5 DEF Working
  <2>2. Cardinality(UnderWay') = Cardinality(UnderWay)
    BY <1>0, <1>5, <2>1, UnderWayBut, Weights
  <2> QED
    BY <1>2, <2>2 DEF Ends
<1>7. Held' /\ Enough' /\ \A i \in Ids' : tasks'[i].st = "waiting" => i \in Queued'
  BY <1>0, <1>2, <1>3, <1>5, <1>6, StayStep
<1> QED
  BY <1>0, <1>2, <1>3, <1>4, <1>5, <1>7, Typed, OneMoves DEF TypeOK

LEMMA CompleteKeeps ==
  ASSUME IInv, NEW t \in Ids, NEW error \in BOOLEAN, Complete(t, error)
  PROVE  IInv'
<1>0. /\ TypeOK /\ tasks[t] \in Tasks /\ Reported(tasks[t])
      /\ tasks[t].st \in {"running", "stored", "refused", "cancelled"}
      /\ error \in Errors(tasks[t]) /\ up \in BOOLEAN
  BY Typed DEF IInv, Reports, Complete
<1> DEFINE spoilt == tasks[t].st = "stored" /\ error
<1>1. PICK p : p = [Completed(tasks[t], error) EXCEPT !.spoilt = spoilt]
  OBVIOUS
<1>2. /\ tasks' = [tasks EXCEPT ![t] = p]
      /\ UNCHANGED <<up, queue, timers, mark>> /\ at = "loop" /\ at' = "complete"
  BY <1>1 DEF Complete
<1>s. spoilt \in BOOLEAN /\ (spoilt <=> tasks[t].st = "stored" /\ error)
  BY Zenon
<1> HIDE DEF spoilt
<1>3. p \in Tasks /\ p.st = "over" /\ Reported(p)
  <2>1. CASE ~(up /\ (error \/ tasks[t].st # "stored"))
    <3>1. p = [[tasks[t] EXCEPT !.st = "over"] EXCEPT !.spoilt = spoilt]
      BY <1>1, <2>1 DEF Completed
    <3>2. /\ p \in Tasks /\ p.st = "over" /\ p.told = tasks[t].told
          /\ p.ok = tasks[t].ok /\ p.held = tasks[t].held
      BY <1>0, <1>s, <3>1 DEF Tasks, States
    <3>3. up => tasks[t].st = "stored"
      BY <2>1
    <3> QED
      BY <1>0, <3>2, <3>3 DEF Reported
  <2>2. CASE up /\ (error \/ tasks[t].st # "stored")
    <3> DEFINE told == tasks[t].told + 1
               ok == ~error /\ tasks[t].kind = "data"
    <3>1. p = [[[tasks[t] EXCEPT !.told = told, !.ok = ok] EXCEPT !.st = "over"]
                EXCEPT !.spoilt = spoilt]
      BY <1>1, <2>2 DEF Completed, Told
    <3>2. ok \in BOOLEAN /\ (ok => ~error)
      BY Zenon
    <3>3. /\ told \in {1, 2} /\ told \in 0..2
          /\ told = 2 => tasks[t].st = "stored"
          /\ tasks[t].held => told = 1
      BY <1>0 DEF Reported
    <3> HIDE DEF told, ok
    <3>4. /\ p \in Tasks /\ p.st = "over" /\ p.told = told
          /\ p.ok = ok /\ p.held = tasks[t].held /\ p.spoilt = spoilt
      BY <1>0, <1>s, <3>1, <3>2, <3>3 DEF Tasks, States
    <3>5. tasks[t].held => ~ok
      <4>1. tasks[t].held => tasks[t].st = "cancelled"
        BY <1>0 DEF Reported
      <4>2. tasks[t].st = "cancelled" => error
        BY <1>0 DEF Errors
      <4> QED
        BY <3>2, <4>1, <4>2
    <3>6. told = 2 => spoilt /\ ~ok
      BY <1>s, <2>2, <3>2, <3>3
    <3> QED
      BY <3>3, <3>4, <3>5, <3>6 DEF Reported
  <2> QED
    BY <2>1, <2>2
<1>4. Becomes(t, p)
  BY <1>0, <1>2, <1>3, BecomesStep
<1>5. But(t) /\ tasks'[t] = p /\ Ids' = Ids
  BY <1>4 DEF Becomes, But
<1>6. Ends' = Ends
  <2>1. ~(p.st \in Working) /\ tasks[t].st \in Working
    BY <1>0, <1>3 DEF Working
  <2>2. Cardinality(UnderWay') = Cardinality(UnderWay) - 1
    BY <1>0, <1>5, <2>1, UnderWayBut, Weights
  <2> QED
    BY <1>0, <1>2, <2>2, Weights DEF Ends
<1>7. Held' /\ Enough' /\ \A i \in Ids' : tasks'[i].st = "waiting" => i \in Queued'
  BY <1>0, <1>2, <1>3, <1>5, <1>6, StayStep
<1> QED
  BY <1>0, <1>2, <1>3, <1>4, <1>5, <1>7, Typed, OneMoves DEF TypeOK

LEMMA ReturnsKeeps ==
  ASSUME IInv, CompleteReturns
  PROVE  IInv'
<1>0. /\ TypeOK /\ Ids = 1..Len(tasks) /\ tasks \in Seq(Tasks)
      /\ UNCHANGED <<up, timers, mark>> /\ at' = "loop"
  BY Typed DEF IInv, CompleteReturns
<1>1. /\ Held' /\ Enough' /\ queue' \in Seq({Nil} \cup Ids')
      /\ \A i \in Ids' : tasks'[i].st = "waiting" => i \in Queued'
  BY ReturnsStep
<1>2. CASE Queued = {}
  <2>1. tasks' = tasks /\ Ids' = Ids
    BY <1>2, EmptyReturns DEF Ids
  <2>2. TypeOK'
    BY <1>0, <1>1, <2>1, TypeParts DEF TypeOK
  <2>3. Reports' /\ Delays'
    BY <1>0, <2>1 DEF IInv, Reports, Reported, Delays
  <2> QED
    BY <1>1, <2>2, <2>3 DEF IInv
<1>3. CASE Queued # {}
  <2>1. PICK t \in Ids :
          Becomes(t, IF tasks[t].st = "waiting" THEN [tasks[t] EXCEPT !.st = "running"]
                                                ELSE tasks[t])
    BY <1>3, TakenStep
  <2>2. PICK p : p = IF tasks[t].st = "waiting" THEN [tasks[t] EXCEPT !.st = "running"]
                                                ELSE tasks[t]
    OBVIOUS
  <2>3. tasks[t] \in Tasks /\ Reported(tasks[t])
    BY <1>0, Typed DEF IInv, Reports
  <2>4. /\ p \in Tasks /\ Reported(p)
        /\ tasks[t].st = "delayed" => p.st = "delayed" /\ p.url = tasks[t].url
    <3>1. CASE tasks[t].st = "waiting"
      <4>1. /\ p \in Tasks /\ p.st = "running" /\ p.told = tasks[t].told
            /\ p.ok = tasks[t].ok /\ p.held = tasks[t].held /\ p.spoilt = tasks[t].spoilt
        BY <2>2, <2>3, <3>1 DEF Tasks, States
      <4> QED
        BY <2>3, <3>1, <4>1 DEF Reported
    <3>2. CASE tasks[t].st # "waiting"
      BY <2>2, <2>3, <3>2
    <3> QED
      BY <3>1, <3>2
  <2>5. Becomes(t, p)
    BY <2>1, <2>2
  <2> QED
    BY <1>0, <1>1, <2>4, <2>5, OneMoves DEF TypeOK
<1> QED
  BY <1>2, <1>3

LEMMA DestroyKeeps ==
  ASSUME IInv, Destroy
  PROVE  IInv'
<1> DEFINE cancelled(o) == IF o.st = "waiting"
                             THEN [o EXCEPT !.st = "cancelled"] ELSE o
<1>0. /\ TypeOK /\ Ids = 1..Len(tasks) /\ Len(tasks) \in Nat
      /\ \A t \in Ids : tasks[t] \in Tasks /\ Reported(tasks[t])
      /\ up' = FALSE /\ queue' = << >> /\ at = "loop" /\ UNCHANGED <<timers, mark, at>>
  BY Typed DEF IInv, Reports, Destroy
<1>1. tasks' = [t \in Ids |-> cancelled(tasks[t])]
  BY DEF Destroy
<1>2. ASSUME NEW t \in Ids
      PROVE  /\ cancelled(tasks[t]) \in Tasks /\ cancelled(tasks[t]).st # "waiting"
             /\ Reported(tasks[t])'
             /\ tasks[t].st = "delayed" => cancelled(tasks[t]) = tasks[t]
             /\ tasks'[t] = cancelled(tasks[t])
  <2>1. PICK p : p = cancelled(tasks[t])
    OBVIOUS
  <2>2. tasks'[t] = p
    BY <1>1, <2>1
  <2>3. CASE tasks[t].st = "waiting"
    <3>1. /\ p \in Tasks /\ p.st = "cancelled" /\ p.told = tasks[t].told
          /\ p.ok = tasks[t].ok /\ p.held = tasks[t].held /\ p.spoilt = tasks[t].spoilt
      BY <1>0, <2>1, <2>3 DEF Tasks, States
    <3>2. Reported(tasks[t])'
      BY <1>0, <2>2, <2>3, <3>1 DEF Reported
    <3> QED
      BY <2>1, <2>2, <2>3, <3>1, <3>2
  <2>4. CASE tasks[t].st # "waiting"
    <3>1. p = tasks[t]
      BY <2>1, <2>4
    <3>2. Reported(tasks[t])'
      BY <1>0, <2>2, <3>1 DEF Reported
    <3> QED
      BY <1>0, <2>1, <2>2, <2>4, <3>1, <3>2
  <2> QED
    BY <2>3, <2>4
<1> HIDE DEF cancelled
<1>3. tasks' \in Seq(Tasks) /\ Ids' = Ids
  <2>1. tasks' \in [1..Len(tasks) -> Tasks]
    BY <1>0, <1>1, <1>2
  <2> QED
    BY <1>0, <2>1, SeqFun DEF Ids
<1>4. DOMAIN queue' = {} /\ Len(queue') = 0 /\ queue' \in Seq({Nil} \cup Ids')
  BY <1>0, EmptySeq
<1>5. Queued' = {}
  BY <1>4 DEF Queued, Range
<1>6. TypeOK'
  BY <1>0, <1>2, <1>3, <1>4, TypeParts DEF TypeOK
<1>7. Reports'
  BY <1>2, <1>3 DEF Reports
<1>8. Delays'
  <2>1. ASSUME NEW u \in Urls, timers[u] # Nil
        PROVE  tasks'[timers[u]] = tasks[timers[u]] /\ timers[u] \in Ids
    BY <1>0, <1>2, <2>1 DEF IInv, Delays, TypeOK
  <2> QED
    BY <1>0, <2>1 DEF IInv, Delays
<1>9. Held' /\ Enough'
  <2>1. UnderWay' \in SUBSET Ids /\ IsFiniteSet(Ids)
    <3>1. UnderWay' \in SUBSET Ids'
      BY DEF UnderWay
    <3>2. IsFiniteSet(1..Len(tasks))
      BY <1>0, FS_Interval
    <3> QED
      BY <1>0, <1>3, <3>1, <3>2
  <2>2. Cardinality(UnderWay') \in Nat
    BY <2>1, FS_Subset, FS_CardinalityType
  <2>3. Ends' >= 0
    BY <2>2 DEF Ends
  <2> QED
    BY <1>4, <1>5, <2>3 DEF Held, Enough, HeldForReason
<1> QED
  BY <1>6, <1>7, <1>8, <1>9 DEF IInv

LEMMA SameKeeps ==
  ASSUME IInv, UNCHANGED <<up, tasks, queue, timers>>, mark' \subseteq Urls,
         at' = at \/ (at = "finish" /\ at' = "loop")
  PROVE  IInv'
<1>1. UnderWay' = UnderWay /\ Queued' = Queued /\ Spent' = Spent /\ Ends' = Ends /\ Ids' = Ids
  BY DEF UnderWay, Queued, Spent, Ends, Ids
<1>2. TypeOK'
  BY <1>1 DEF IInv, TypeOK
<1> QED
  BY <1>1, <1>2 DEF IInv, Reports, Reported, Delays, Held, Enough, HeldForReason
-----------------------------------------------------------------------------
(* The theorems                                                            *)

LEMMA InitInv == Init => IInv
<1> SUFFICES ASSUME Init PROVE IInv
  OBVIOUS
<1>1. /\ Ids = {} /\ DOMAIN queue = {} /\ Len(queue) = 0 /\ Queued = {} /\ UnderWay = {}
  BY DEF Init, Ids, Queued, UnderWay, Range
<1>2. TypeOK
  BY <1>1, EmptySeq DEF Init, TypeOK
<1>3. Ends = 0
  BY <1>1, FS_EmptySet DEF Init, Ends
<1> QED
  BY <1>1, <1>2, <1>3 DEF Init, IInv, Reports, Delays, Held, Enough, HeldForReason

THEOREM Inductive == Spec => []IInv
<1>1. IInv /\ [Next]_vars => IInv'
  <2> SUFFICES ASSUME IInv, [Next]_vars PROVE IInv'
    OBVIOUS
  <2>1. CASE FinishReturns
    BY <2>1, SameKeeps DEF FinishReturns
  <2>2. CASE UNCHANGED vars
    BY <2>2, SameKeeps DEF vars, IInv, TypeOK
  <2> QED
    BY <2>1, <2>2, CreateKeeps, FiresKeeps, AbortKeeps, FinishKeeps, CompleteKeeps,
       ReturnsKeeps, DestroyKeeps DEF Next, SessionStep
<1> QED
  BY <1>1, InitInv, PTL DEF Spec

\* Whatever the order of the session's messages and the owner's calls, and though
\* a cancel stops no message that is on its way, the owner hears of the end of a
\* task: a second time only of a failure after the file was stored, of a success
\* never after another report nor of what was aborted in the queue
\* (didFinishDownloadingToURL, didCompleteWithError, abort).
THEOREM EndsAreHeard == Spec => []EndsAreTold
<1>1. IInv => EndsAreTold
  <2> SUFFICES ASSUME IInv PROVE EndsAreTold
    OBVIOUS
  <2>1. ASSUME NEW t \in Ids
        PROVE  /\ up /\ tasks[t].st = "over" => tasks[t].told >= 1
               /\ tasks[t].told = 2 => tasks[t].spoilt /\ ~tasks[t].ok
               /\ tasks[t].held => ~tasks[t].ok /\ tasks[t].told <= 1
    BY DEF IInv, Reports, Reported
  <2> QED
    BY <2>1 DEF EndsAreTold, IInv
<1> QED
  BY <1>1, Inductive, PTL

\* A task is held in the queue only while MaxProcessing others are under way, for
\* every limit and number of tasks, though each end takes out placeholders that
\* are not its own (the tail of didCompleteWithError).
THEOREM QueueHoldsForReason == Spec => []HeldForReason
<1>1. IInv => HeldForReason
  BY DEF IInv, Enough
<1> QED
  BY <1>1, Inductive, PTL
=============================================================================

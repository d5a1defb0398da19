-------------------------- MODULE HttpClientProofs --------------------------
(***************************************************************************)
(* Proofs about HttpClient, for any number of objects, threads, jobs and    *)
(* requests.  The inductive invariant says that a job is in one place at a   *)
(* time, that the queues hold consecutive requests, and for each object how  *)
(* its flags agree with the answers that are still out for it.             *)
(***************************************************************************)
EXTENDS HttpClient, TLAPS,
        FunctionTheorems, FiniteSetTheorems, SequenceTheorems

\* Where, and so how often, a value occurs in a queue.
Places(s, c) == {i \in DOMAIN s : s[i] = c}

\* Append and Tail, place by place.
LEMMA Appended ==
  ASSUME NEW S, NEW s \in Seq(S), NEW e \in S
  PROVE  /\ Append(s, e) \in Seq(S) /\ Len(Append(s, e)) = Len(s) + 1
         /\ Len(s) \in Nat /\ DOMAIN s = 1..Len(s)
         /\ DOMAIN Append(s, e) = 1..Len(s) + 1
         /\ \A i \in 1..Len(s) : Append(s, e)[i] = s[i]
         /\ Append(s, e)[Len(s) + 1] = e
<1>1. Append(s, e) \in Seq(S) /\ Len(Append(s, e)) = Len(s) + 1
  BY AppendProperties
<1>2. DOMAIN Append(s, e) = 1..Len(s) + 1
  BY <1>1, LenProperties
<1>3. DOMAIN s = 1..Len(s) /\ Len(s) \in Nat
  BY LenProperties
<1> QED
  BY <1>1, <1>2, <1>3, AppendProperties

LEMMA Tailed ==
  ASSUME NEW S, NEW s \in Seq(S), s # << >>
  PROVE  /\ Tail(s) \in Seq(S) /\ Len(Tail(s)) = Len(s) - 1
         /\ Len(s) \in Nat \ {0} /\ DOMAIN s = 1..Len(s)
         /\ DOMAIN Tail(s) = 1..Len(s) - 1
         /\ \A i \in 1..Len(s) - 1 : Tail(s)[i] = s[i + 1]
         /\ Head(s) = s[1] /\ Head(s) \in S
<1>1. Tail(s) \in Seq(S) /\ Len(Tail(s)) = Len(s) - 1 /\ Head(s) \in S
  BY HeadTailProperties
<1>2. DOMAIN Tail(s) = 1..Len(s) - 1
  BY <1>1, LenProperties
<1>3. DOMAIN s = 1..Len(s) /\ Len(s) \in Nat \ {0}
  BY LenProperties, EmptySeq
<1>4. \A i \in 1..Len(s) - 1 : Tail(s)[i] = s[i + 1]
  BY <1>1, HeadTailProperties
<1> QED
  BY <1>1, <1>2, <1>3, <1>4

LEMMA PlacesFinite ==
  ASSUME NEW S, NEW s \in Seq(S), NEW c
  PROVE  IsFiniteSet(Places(s, c)) /\ Cardinality(Places(s, c)) \in Nat
<1>1. IsFiniteSet(1..Len(s)) /\ DOMAIN s = 1..Len(s)
  BY FS_Interval, LenProperties
<1>2. Places(s, c) \in SUBSET (1..Len(s))
  BY <1>1 DEF Places
<1> QED
  BY <1>1, <1>2, FS_Subset, FS_CardinalityType

LEMMA PlacesAppend ==
  ASSUME NEW S, NEW s \in Seq(S), NEW e \in S, NEW c
  PROVE  Cardinality(Places(Append(s, e), c)) =
           Cardinality(Places(s, c)) + IF e = c THEN 1 ELSE 0
<1> DEFINE n == Len(s) + 1
           t == Append(s, e)
<1>1. /\ DOMAIN s = 1..Len(s) /\ DOMAIN t = 1..n /\ Len(s) \in Nat
      /\ \A i \in 1..Len(s) : t[i] = s[i]
      /\ t[n] = e
  BY Appended
<1>2. n \notin Places(s, c) /\ IsFiniteSet(Places(s, c))
  <2>1. n \notin Places(s, c)
    BY <1>1 DEF Places
  <2> QED
    BY <2>1, PlacesFinite
<1> HIDE DEF t
<1>3. CASE e = c
  <2>1. Places(t, c) = Places(s, c) \cup {n}
    BY <1>1, <1>3 DEF Places
  <2>2. Cardinality(Places(t, c)) = Cardinality(Places(s, c)) + 1
    BY <1>2, <2>1, FS_AddElement
  <2> QED
    BY <1>3, <2>2 DEF t
<1>4. CASE e # c
  <2>1. Places(t, c) = Places(s, c)
    BY <1>1, <1>4 DEF Places
  <2> QED
    BY <1>4, <2>1, PlacesFinite DEF t
<1> QED
  BY <1>3, <1>4

LEMMA PlacesTail ==
  ASSUME NEW S, NEW s \in Seq(S), s # << >>, NEW c
  PROVE  Cardinality(Places(s, c)) =
           Cardinality(Places(Tail(s), c)) + IF Head(s) = c THEN 1 ELSE 0
<1> DEFINE t == Tail(s)
           P == Places(t, c)
           Q == Places(s, c) \ {1}
           f == [i \in P |-> i + 1]
<1>1. /\ t \in Seq(S) /\ Len(s) \in Nat \ {0} /\ Head(s) = s[1]
      /\ DOMAIN s = 1..Len(s) /\ DOMAIN t = 1..(Len(s) - 1)
      /\ \A i \in 1..(Len(s) - 1) : t[i] = s[i + 1]
  BY Tailed
<1>2. IsFiniteSet(P) /\ IsFiniteSet(Places(s, c)) /\ IsFiniteSet(Q)
  BY <1>1, PlacesFinite, FS_RemoveElement
<1> HIDE DEF t
<1>3. f \in Bijection(P, Q)
  <2>1. f \in [P -> Q]
    BY <1>1 DEF Places
  <2>2. \A a, b \in P : f[a] = f[b] => a = b
    BY <1>1 DEF Places
  <2>3. \A q \in Q : \E a \in P : f[a] = q
    <3>1. SUFFICES ASSUME NEW q \in Q PROVE q - 1 \in P /\ f[q - 1] = q
      BY <3>1
    <3> QED
      BY <1>1 DEF Places
  <2> QED
    BY <2>1, <2>2, <2>3, Fun_IsBij
<1>4. Cardinality(P) = Cardinality(Q)
  BY <1>2, <1>3, FS_Bijection DEF ExistsBijection
<1>5. Cardinality(Q) = IF 1 \in Places(s, c) THEN Cardinality(Places(s, c)) - 1
                       ELSE Cardinality(Places(s, c))
  BY <1>2, FS_RemoveElement
<1>6. 1 \in Places(s, c) <=> Head(s) = c
  BY <1>1 DEF Places
<1>7. Cardinality(Places(s, c)) \in Nat
  BY PlacesFinite
<1> QED
  BY <1>4, <1>5, <1>6, <1>7 DEF t
-----------------------------------------------------------------------------

\* A job waits, runs or ends, or its answer is posted, and is there once.
Apart ==
  /\ \A i, j \in DOMAIN waiting : i # j => waiting[i] # waiting[j]
  /\ \A i, j \in DOMAIN posted :
       i # j /\ posted[i] # Dispatch => posted[i] # posted[j]
  /\ \A i \in DOMAIN waiting : waiting[i] \notin running \cup ending
  /\ \A i \in DOMAIN posted : posted[i] \notin running
  /\ \A i \in DOMAIN posted, j \in DOMAIN waiting : posted[i] # waiting[j]
  /\ running \cap ending = {}

Counts ==
  /\ count = Users /\ (deleted <=> count = 0)
  /\ engine = "down" => posted = <<>>

\* The requests answered, those whose response waits and those that wait
\* themselves follow each other; the sentinel is sent once, behind them all.
Consecutive ==
  /\ \A i \in DOMAIN answered : answered[i] = i
  /\ \A i \in DOMAIN responses : responses[i] = Len(answered) + i
  /\ \A i \in DOMAIN requests :
       requests[i] = IF requests[i] = Sentinel THEN Sentinel
                     ELSE Len(answered) + Len(responses) + i
  /\ engine \in {"up", "reset"} =>
       /\ \A i \in DOMAIN requests : requests[i] # Sentinel
       /\ sent = Len(answered) + Len(responses) + Len(requests)
       /\ net # "gone"

OneEach ==
  engine = "up" =>
    Cardinality(Places(posted, Dispatch)) + (IF net = "responded" THEN 1 ELSE 0) = Len(responses)

\* The job n is still to be answered, on whatever thread it is.
Out(n) ==
  \/ \E i \in DOMAIN waiting : waiting[i] = n
  \/ n \in running
  \/ \E i \in DOMAIN posted : posted[i] = n
Mine(x) == {n \in DOMAIN jobs : jobs[n].of = x /\ Out(n)}

\* An object is rooted while an answer or a timeout is awaited, with a root to spare
\* in the callbacks of an answer, which take one when they return.
Rooted(o) ==
  /\ o.timer => o.sending
  /\ ~o.tangled =>
       /\ o.sending => o.roots > 0 /\ ~o.dead
       /\ o.in = "abort" => ~o.sending
       /\ o.in = "answer" /\ o.sending => o.roots > 1

\* An object that was not misused awaits one answer at most, and has not heard
\* of an end while it awaits one, unless it is just being aborted.
Properly(x) ==
  LET o == xhr[x] IN
  ~o.misused =>
    /\ o.ends <= 1
    /\ \A m, n \in Mine(x) : m = n
    /\ Mine(x) # {} /\ o.callback /\ o.in # "abort" => o.ends = 0

\* Without a timeout, an abort or a premature send all answers are to the
\* present opening.
Uncut(x) ==
  LET o == xhr[x] IN
  /\ o.in = "abort" => o.cut
  /\ ~o.cut /\ ~o.early =>
       /\ ~o.stale
       /\ \A n \in Mine(x) : jobs[n].open = o.opens
       /\ o.ready = "UNSENT" => Mine(x) = {}

Objective == \A x \in Xhrs : Rooted(xhr[x]) /\ Properly(x) /\ Uncut(x)

IInv == TypeOK /\ Apart /\ Counts /\ Consecutive /\ OneEach /\ Objective
-----------------------------------------------------------------------------
(* Types                                                                   *)


LEMMA InitType == Init => TypeOK
<1> SUFFICES ASSUME Init PROVE TypeOK
  OBVIOUS
<1>1. NewXhr \in Objects
  BY HttpAssumption DEF NewXhr, Objects, HttpAssumption
<1>2. /\ engine \in {"up", "reset", "left", "down"} /\ deleted \in BOOLEAN
      /\ count \in Nat /\ running \subseteq DOMAIN jobs /\ ending \subseteq DOMAIN jobs
      /\ net \in {"none", "created", "idle", "responded", "gone"}
  BY DEF Init
<1>4. jobs \in Seq([of : Xhrs, open : Nat]) /\ sent \in 0..MaxRequests
  BY EmptySeq, HttpAssumption DEF Init, HttpAssumption
<1>3. /\ waiting \in Seq(DOMAIN jobs) /\ posted \in Seq({Dispatch} \cup DOMAIN jobs)
      /\ requests \in Seq(0..sent) /\ responses \in Seq(1..sent)
      /\ answered \in Seq(1..sent)
  BY EmptySeq DEF Init
<1> QED
  BY <1>1, <1>2, <1>3, <1>4 DEF Init, TypeOK

\* What becomes of an object in each of the operators applied to it.
LEMMA UnrootFields ==
  ASSUME NEW o \in Objects
  PROVE  LET p == Unroot(o) IN
         /\ p \in Objects
         /\ p.roots \in Nat /\ (o.roots > 1 => p.roots > 0)
         /\ p.in = o.in /\ p.ready = o.ready /\ p.sending = o.sending
         /\ p.timedOut = o.timedOut /\ p.aborted = o.aborted
         /\ p.timer = o.timer /\ p.callback = o.callback
         /\ p.opens = o.opens /\ p.ends = o.ends /\ p.misused = o.misused
         /\ p.cut = o.cut /\ p.early = o.early /\ p.tangled = o.tangled
         /\ p.stale = o.stale /\ p.dead = o.dead
<1> DEFINE r == IF o.roots > 0 THEN o.roots - 1 ELSE 0
<1>1. o.roots \in Nat
  BY DEF Objects
<1>2. r \in Nat /\ (o.roots > 1 => r > 0)
  BY <1>1
<1>3. Unroot(o) = [o EXCEPT !.roots = r]
  BY DEF Unroot
<1> HIDE DEF r
<1>4. Unroot(o) \in Objects /\ Unroot(o).roots = r
  BY <1>2, <1>3 DEF Objects
<1> QED
  BY <1>2, <1>3, <1>4 DEF Objects

LEMMA AbortedFields ==
  ASSUME NEW o \in Objects
  PROVE  LET p == Aborted(o) IN
         /\ p \in Objects
         /\ p.ends = o.ends + 1 /\ p.ready = "DONE" /\ ~p.sending /\ ~p.timer
         /\ p.aborted /\ p.cut /\ p.misused = (o.misused \/ o.ends > 0)
         /\ p.in = o.in /\ p.roots = o.roots /\ p.callback = o.callback
         /\ p.opens = o.opens /\ p.early = o.early /\ p.tangled = o.tangled
         /\ p.stale = o.stale /\ p.dead = o.dead
<1> DEFINE e == o.ends + 1
           m == (o.misused \/ o.ends > 0)
<1>1. e \in Nat /\ m \in BOOLEAN
  BY DEF Objects
<1>2. Aborted(o) = [o EXCEPT !.aborted = TRUE, !.sending = FALSE, !.timer = FALSE,
                      !.ready = "DONE", !.ends = e, !.cut = TRUE, !.misused = m]
  BY DEF Aborted
<1> HIDE DEF e, m
<1>3. Aborted(o) \in Objects
  BY <1>1, <1>2 DEF Objects
<1>4. Aborted(o).ends = e /\ Aborted(o).misused = m
  BY <1>2 DEF Objects
<1> QED
  BY <1>2, <1>3, <1>4 DEF Objects, e, m

LEMMA AbortReturnsFields ==
  ASSUME NEW o \in Objects
  PROVE  LET p == AbortReturns(o) IN
         /\ p \in Objects
         /\ p.ready = "UNSENT" /\ ~p.callback
         /\ p.ends = o.ends /\ p.sending = o.sending /\ p.timer = o.timer
         /\ p.cut = o.cut /\ p.misused = o.misused /\ p.in = o.in
         /\ p.opens = o.opens /\ p.early = o.early /\ p.tangled = o.tangled
         /\ p.stale = o.stale /\ p.dead = o.dead
<1>1. PICK u \in Objects : u = Unroot(o)
  BY UnrootFields
<1>2. AbortReturns(o) = [u EXCEPT !.ready = "UNSENT", !.callback = FALSE]
  BY <1>1 DEF AbortReturns
<1>3. LET p == AbortReturns(o) IN
      /\ p \in Objects
      /\ p.ready = "UNSENT" /\ ~p.callback
      /\ p.ends = u.ends /\ p.sending = u.sending /\ p.timer = u.timer
      /\ p.cut = u.cut /\ p.misused = u.misused /\ p.in = u.in
      /\ p.opens = u.opens /\ p.early = u.early /\ p.tangled = u.tangled
      /\ p.stale = u.stale /\ p.dead = u.dead
  BY <1>2 DEF Objects
<1> QED
  BY <1>1, <1>3, UnrootFields

LEMMA TimeoutReturnsFields ==
  ASSUME NEW o \in Objects
  PROVE  LET p == TimeoutReturns(o) IN
         /\ p \in Objects
         /\ ~p.timer /\ p.ready = "UNSENT" /\ p.cut
         /\ p.ends = o.ends /\ p.roots = o.roots /\ p.sending = o.sending
         /\ p.callback = o.callback /\ p.misused = o.misused /\ p.in = o.in
         /\ p.opens = o.opens /\ p.early = o.early /\ p.tangled = o.tangled
         /\ p.stale = o.stale /\ p.dead = o.dead
BY DEF TimeoutReturns, Objects

LEMMA DestructFields ==
  ASSUME NEW o \in Objects
  PROVE  LET p == Destruct(o) IN
         /\ p \in Objects
         /\ p.ends = o.ends /\ p.roots = o.roots /\ p.ready = o.ready
         /\ p.sending = o.sending /\ p.in = o.in
         /\ ~p.timer /\ ~p.callback /\ p.cut = o.cut /\ p.opens = o.opens
         /\ p.misused = o.misused /\ p.early = o.early /\ p.tangled = o.tangled
         /\ p.stale = o.stale /\ p.dead
BY DEF Destruct, Objects

\* The two ways to hear of an answer: not at all, or as the end.
LEMMA HeardFields ==
  ASSUME NEW o \in Objects, NEW n, NEW ok \in BOOLEAN
  PROVE  LET p == Heard(o, n, ok) IN
         /\ p \in Objects
         /\ ~p.timer /\ ~p.sending
         /\ p.roots = o.roots /\ p.callback = o.callback /\ p.opens = o.opens
         /\ p.misused = o.misused /\ p.cut = o.cut /\ p.early = o.early
         /\ p.tangled = o.tangled /\ p.dead = o.dead
         /\ \/ p.in = o.in /\ p.ends = o.ends
            \/ p.in = "answer" /\ p.ends = o.ends + 1
         /\ p.ready = "UNSENT" => o.ready = "UNSENT"
         /\ p.stale => o.stale \/ jobs[n].open # o.opens
<1> DEFINE h == [o EXCEPT !.timer = FALSE, !.sending = FALSE]
<1>1. /\ h \in Objects /\ ~h.timer /\ ~h.sending
      /\ h.in = o.in /\ h.ends = o.ends /\ h.roots = o.roots /\ h.ready = o.ready
      /\ h.timedOut = o.timedOut /\ h.aborted = o.aborted /\ h.callback = o.callback
      /\ h.opens = o.opens /\ h.misused = o.misused /\ h.cut = o.cut
      /\ h.early = o.early /\ h.tangled = o.tangled /\ h.stale = o.stale /\ h.dead = o.dead
  BY DEF Objects
<1>2. /\ o.timedOut \in BOOLEAN /\ o.aborted \in BOOLEAN /\ o.stale \in BOOLEAN
      /\ o.ready \in {"UNSENT", "OPENED", "DONE"}
  BY DEF Objects
<1>3. Heard(o, n, ok) =
        IF h.timedOut THEN [h EXCEPT !.in = "answer", !.ends = @ + 1]
        ELSE IF h.aborted \/ h.ready = "UNSENT" THEN h
        ELSE [h EXCEPT !.in = "answer", !.ends = @ + 1,
                       !.ready = IF ok THEN "DONE" ELSE @,
                       !.stale = @ \/ jobs[n].open # o.opens]
  BY DEF Heard, AfterTimeout
<1> DEFINE e == o.ends + 1
           r == IF ok THEN "DONE" ELSE o.ready
           s == (o.stale \/ jobs[n].open # o.opens)
           p == Heard(o, n, ok)
<1>4. /\ e \in Nat /\ r \in {"UNSENT", "OPENED", "DONE"} /\ s \in BOOLEAN
      /\ (r = "UNSENT" => o.ready = "UNSENT") /\ (s => o.stale \/ jobs[n].open # o.opens)
  BY <1>2 DEF Objects
<1>5. CASE o.timedOut
  <2>1. p = [o EXCEPT !.timer = FALSE, !.sending = FALSE, !.in = "answer", !.ends = e]
    BY <1>1, <1>3, <1>5 DEF Objects
  <2> HIDE DEF h, e, p
  <2>2. p \in Objects /\ p.ends = e
    BY <1>4, <2>1 DEF Objects
  <2>3. /\ ~p.timer /\ ~p.sending /\ p.in = "answer" /\ p.ready = o.ready
        /\ p.stale = o.stale /\ p.roots = o.roots /\ p.callback = o.callback
        /\ p.opens = o.opens /\ p.misused = o.misused /\ p.cut = o.cut
        /\ p.early = o.early /\ p.tangled = o.tangled /\ p.dead = o.dead
    BY <2>1 DEF Objects
  <2> QED
    BY <2>2, <2>3 DEF p, e
<1>6. CASE ~o.timedOut /\ (o.aborted \/ o.ready = "UNSENT")
  <2>1. Heard(o, n, ok) = h
    BY <1>1, <1>3, <1>6
  <2> HIDE DEF h
  <2> QED
    BY <1>1, <2>1
<1>7. CASE ~o.timedOut /\ ~o.aborted /\ o.ready # "UNSENT"
  <2>1. p = [o EXCEPT !.timer = FALSE, !.sending = FALSE, !.in = "answer",
                      !.ends = e, !.ready = r, !.stale = s]
    <3>1. p = [h EXCEPT !.in = "answer", !.ends = @ + 1,
                        !.ready = IF ok THEN "DONE" ELSE @,
                        !.stale = @ \/ jobs[n].open # o.opens]
      BY <1>1, <1>3, <1>7
    <3> QED
      BY <3>1 DEF Objects
  <2> HIDE DEF h, e, r, s, p
  <2>2. p \in Objects /\ p.ends = e /\ p.ready = r /\ p.stale = s
    BY <1>4, <2>1 DEF Objects
  <2>3. /\ ~p.timer /\ ~p.sending /\ p.in = "answer"
        /\ p.roots = o.roots /\ p.callback = o.callback
        /\ p.opens = o.opens /\ p.misused = o.misused /\ p.cut = o.cut
        /\ p.early = o.early /\ p.tangled = o.tangled /\ p.dead = o.dead
    BY <2>1 DEF Objects
  <2> QED
    BY <1>4, <2>2, <2>3 DEF p, e
<1> QED
  BY <1>2, <1>5, <1>6, <1>7

\* What each step of the cocos thread does to the objects.
Others(x) == \A y \in Xhrs \ {x} : xhr'[y] = xhr[y]

LEMMA ObjectStep ==
  ASSUME TypeOK, NEW x \in Xhrs, NEW p \in Objects, xhr' = [xhr EXCEPT ![x] = p]
  PROVE  xhr' \in [Xhrs -> Objects] /\ xhr'[x] = p /\ Others(x)
BY DEF TypeOK, Others

LEMMA OpenStep ==
  ASSUME TypeOK, NEW x \in Xhrs, Open(x)
  PROVE  LET o == xhr[x]  p == xhr'[x] IN
         /\ xhr' \in [Xhrs -> Objects] /\ Others(x)
         /\ p.ready = "OPENED" /\ p.misused = (o.misused \/ Outstanding(x) # {})
         /\ p.sending = o.sending /\ p.timer = o.timer /\ p.callback = o.callback
         /\ p.roots = o.roots /\ p.ends = o.ends /\ p.cut = o.cut /\ p.stale = o.stale
         /\ p.in = o.in /\ p.early = o.early /\ p.tangled = o.tangled
         /\ p.dead = o.dead
         /\ o.ready = "UNSENT"
<1> DEFINE m == (xhr[x].misused \/ Outstanding(x) # {})
           n == xhr[x].opens + 1
           p == [xhr[x] EXCEPT !.ready = "OPENED", !.aborted = FALSE, !.timedOut = FALSE,
                               !.opens = n, !.misused = m]
<1>1. xhr[x] \in Objects
  BY DEF TypeOK
<1>2. m \in BOOLEAN /\ n \in 0..MaxSends
  BY <1>1, HttpAssumption DEF Objects, HttpAssumption, Open
<1>3. xhr' = [xhr EXCEPT ![x] = p]
  BY <1>1 DEF Open, TypeOK
<1> HIDE DEF m, n
<1>4. p \in Objects
  BY <1>1, <1>2 DEF Objects
<1>5. /\ p.ready = "OPENED" /\ p.misused = m
      /\ p.sending = xhr[x].sending /\ p.timer = xhr[x].timer
      /\ p.callback = xhr[x].callback /\ p.roots = xhr[x].roots /\ p.ends = xhr[x].ends
      /\ p.cut = xhr[x].cut /\ p.stale = xhr[x].stale /\ p.dead = xhr[x].dead
      /\ p.in = xhr[x].in /\ p.early = xhr[x].early /\ p.tangled = xhr[x].tangled
  BY <1>1 DEF Objects
<1>6. xhr[x].ready = "UNSENT"
  BY DEF Open, MayOpen
<1> HIDE DEF p
<1> QED
  BY <1>3, <1>4, <1>5, <1>6, ObjectStep DEF m

LEMMA SendStep ==
  ASSUME TypeOK, NEW x \in Xhrs, NEW timeout \in BOOLEAN, Send(x, timeout)
  PROVE  LET o == xhr[x]  p == xhr'[x] IN
         /\ xhr' \in [Xhrs -> Objects] /\ Others(x)
         /\ p.sending /\ p.roots = o.roots + 1 /\ p.ends = 0
         /\ p.misused = (o.misused \/ Outstanding(x) # {})
         /\ p.early = (o.early \/ o.ready = "UNSENT")
         /\ p.tangled = (o.tangled \/ o.in = "abort" \/ (o.in = "answer" /\ o.roots = 0))
         /\ p.in = o.in /\ p.ready = o.ready /\ p.opens = o.opens /\ p.cut = o.cut
         /\ p.stale = o.stale /\ p.dead = o.dead
         /\ ~o.dead
<1> DEFINE n == xhr[x].roots + 1
           m == (xhr[x].misused \/ Outstanding(x) # {})
           e == (xhr[x].early \/ xhr[x].ready = "UNSENT")
           t == (xhr[x].tangled \/ xhr[x].in = "abort"
                                \/ (xhr[x].in = "answer" /\ xhr[x].roots = 0))
           p == [xhr[x] EXCEPT !.sending = TRUE, !.timedOut = FALSE, !.timer = timeout,
                   !.callback = TRUE, !.loadStart = TRUE, !.roots = n, !.ends = 0,
                   !.misused = m, !.early = e, !.tangled = t]
<1>1. xhr[x] \in Objects
  BY DEF TypeOK
<1>2. n \in Nat /\ m \in BOOLEAN /\ e \in BOOLEAN /\ t \in BOOLEAN
  BY <1>1 DEF Objects
<1>3. xhr' = [xhr EXCEPT ![x] = p]
  <2>1. xhr \in [Xhrs -> Objects]
    BY DEF TypeOK
  <2>2. xhr' = [xhr EXCEPT ![x].sending = TRUE, ![x].timedOut = FALSE,
                  ![x].timer = timeout, ![x].callback = TRUE, ![x].loadStart = TRUE,
                  ![x].roots = n, ![x].ends = 0, ![x].misused = m, ![x].early = e,
                  ![x].tangled = t]
    BY <1>1, <2>1 DEF Send
  <2> HIDE DEF n, m, e, t
  <2> QED
    BY <1>1, <2>1, <2>2
<1> HIDE DEF n, m, e, t
<1>4. p \in Objects
  BY <1>1, <1>2 DEF Objects
<1>5. /\ p.sending /\ p.roots = n /\ p.ends = 0 /\ p.misused = m /\ p.early = e
      /\ p.tangled = t /\ p.in = xhr[x].in /\ p.ready = xhr[x].ready
      /\ p.opens = xhr[x].opens /\ p.cut = xhr[x].cut /\ p.stale = xhr[x].stale
      /\ p.dead = xhr[x].dead
  BY <1>1 DEF Objects
<1>6. ~xhr[x].dead
  BY DEF Send, Alive
<1> HIDE DEF p
<1> QED
  BY <1>3, <1>4, <1>5, <1>6, ObjectStep DEF n, m, e, t

LEMMA TimeoutStep ==
  ASSUME TypeOK, NEW x \in Xhrs, Timeout(x)
  PROVE  LET o == xhr[x]  p == xhr'[x] IN
         /\ xhr' \in [Xhrs -> Objects] /\ Others(x)
         /\ p.in = "timeout" /\ o.in = "no"
         /\ p.ready = o.ready /\ p.sending = o.sending /\ p.timer = o.timer
         /\ p.callback = o.callback /\ p.roots = o.roots /\ p.opens = o.opens
         /\ p.ends = o.ends /\ p.misused = o.misused /\ p.cut = o.cut
         /\ p.early = o.early /\ p.tangled = o.tangled /\ p.stale = o.stale
         /\ p.dead = o.dead
<1> DEFINE p == [xhr[x] EXCEPT !.in = "timeout"]
<1>1. xhr[x] \in Objects /\ xhr[x].in = "no"
  BY DEF TypeOK, Timeout, Idle
<1>2. xhr' = [xhr EXCEPT ![x] = p]
  BY DEF Timeout
<1>3. /\ p \in Objects /\ p.in = "timeout"
      /\ p.ready = xhr[x].ready /\ p.sending = xhr[x].sending /\ p.timer = xhr[x].timer
      /\ p.callback = xhr[x].callback /\ p.roots = xhr[x].roots /\ p.opens = xhr[x].opens
      /\ p.ends = xhr[x].ends /\ p.misused = xhr[x].misused /\ p.cut = xhr[x].cut
      /\ p.early = xhr[x].early /\ p.tangled = xhr[x].tangled /\ p.stale = xhr[x].stale
      /\ p.dead = xhr[x].dead
  BY <1>1 DEF Objects
<1> HIDE DEF p
<1> QED
  BY <1>1, <1>2, <1>3, ObjectStep

LEMMA FinalizeStep ==
  ASSUME TypeOK, NEW x \in Xhrs, Finalize(x)
  PROVE  /\ xhr' \in [Xhrs -> Objects] /\ Others(x) /\ xhr'[x] = Destruct(xhr[x])
         /\ xhr[x] \in Objects /\ xhr[x].roots = 0
BY DestructFields, ObjectStep DEF Finalize, TypeOK

\* Abort comes from outside the callbacks, and stops in its own, or from inside.
LEMMA AbortStep ==
  ASSUME TypeOK, NEW x \in Xhrs, Abort(x)
  PROVE  LET o == xhr[x]  p == xhr'[x] IN
         /\ xhr' \in [Xhrs -> Objects] /\ Others(x)
         /\ p.ends = o.ends + 1 /\ ~p.sending /\ ~p.timer /\ p.cut
         /\ p.misused = (o.misused \/ o.ends > 0)
         /\ \/ o.in = "no" /\ p.in = "abort"
            \/ o.in # "no" /\ p.in = o.in /\ p.tangled /\ ~p.callback
<1>1. xhr[x] \in Objects
  BY DEF TypeOK
<1>2. PICK d \in Objects : d = Aborted(xhr[x])
  BY <1>1, AbortedFields
<1>3. /\ d.ends = xhr[x].ends + 1 /\ ~d.sending /\ ~d.timer /\ d.cut
      /\ d.misused = (xhr[x].misused \/ xhr[x].ends > 0) /\ d.in = xhr[x].in
  BY <1>1, <1>2, AbortedFields
<1>4. CASE xhr[x].in = "no"
  <2> DEFINE p == [d EXCEPT !.in = "abort"]
  <2>1. xhr' = [xhr EXCEPT ![x] = p]
    BY <1>2, <1>3, <1>4 DEF Abort
  <2>2. /\ p \in Objects /\ p.in = "abort" /\ p.ends = d.ends /\ p.sending = d.sending
        /\ p.timer = d.timer /\ p.cut = d.cut /\ p.misused = d.misused
    BY DEF Objects
  <2> HIDE DEF p
  <2> QED
    BY <1>3, <1>4, <2>1, <2>2, ObjectStep
<1>5. CASE xhr[x].in # "no"
  <2>1. PICK r \in Objects : r = AbortReturns(d)
    BY AbortReturnsFields
  <2> DEFINE p == [r EXCEPT !.tangled = TRUE]
  <2>2. xhr' = [xhr EXCEPT ![x] = p]
    BY <1>2, <1>3, <1>5, <2>1 DEF Abort
  <2>3. /\ p \in Objects /\ p.in = r.in /\ p.ends = r.ends /\ p.sending = r.sending
        /\ p.timer = r.timer /\ p.cut = r.cut /\ p.misused = r.misused
        /\ p.tangled /\ p.callback = r.callback
    BY DEF Objects
  <2>4. /\ r.in = d.in /\ r.ends = d.ends /\ r.sending = d.sending
        /\ r.timer = d.timer /\ r.cut = d.cut /\ r.misused = d.misused /\ ~r.callback
    BY <2>1, AbortReturnsFields
  <2> HIDE DEF p
  <2> QED
    BY <1>3, <1>5, <2>2, <2>3, <2>4, ObjectStep
<1> QED
  BY <1>4, <1>5

\* What each handler does after its callbacks.
LEMMA ReturnStep ==
  ASSUME TypeOK, NEW x \in Xhrs, Return(x)
  PROVE  LET o == xhr[x]  p == xhr'[x] IN
         /\ xhr' \in [Xhrs -> Objects] /\ Others(x)
         /\ p.in = "no" /\ o.in # "no"
         /\ p.sending = o.sending /\ (p.timer => o.timer)
         /\ p.opens = o.opens /\ p.ends = o.ends /\ p.misused = o.misused
         /\ p.early = o.early /\ p.tangled = o.tangled
         /\ p.stale = o.stale /\ p.dead = o.dead
         /\ o.in = "abort" => ~p.callback /\ p.cut = o.cut
         /\ o.in = "timeout" => p.cut /\ p.callback = o.callback /\ p.roots = o.roots
         /\ o.in = "answer" => /\ p.cut = o.cut /\ p.callback = o.callback
                               /\ p.ready = o.ready
                               /\ o.roots > 1 => p.roots > 0
<1>1. PICK o \in Objects : o = xhr[x]
  BY DEF TypeOK
<1>2. o.in \in {"abort", "timeout", "answer"} /\ o.timer \in BOOLEAN
  BY <1>1 DEF Return, Objects
<1>3. PICK r : r = Returned(o)
  OBVIOUS
<1>4. /\ r \in Objects
      /\ r.sending = o.sending /\ (r.timer => o.timer)
      /\ r.opens = o.opens /\ r.ends = o.ends /\ r.misused = o.misused
      /\ r.early = o.early /\ r.tangled = o.tangled
      /\ r.stale = o.stale /\ r.dead = o.dead
      /\ o.in = "abort" => ~r.callback /\ r.cut = o.cut
      /\ o.in = "timeout" => r.cut /\ r.callback = o.callback /\ r.roots = o.roots
      /\ o.in = "answer" => /\ r.cut = o.cut /\ r.callback = o.callback
                            /\ r.ready = o.ready
                            /\ o.roots > 1 => r.roots > 0
  <2>1. CASE o.in = "abort"
    <3>1. r = AbortReturns(o)
      BY <1>3, <2>1 DEF Returned
    <3> QED
      BY <2>1, <3>1, AbortReturnsFields
  <2>2. CASE o.in = "timeout"
    <3>1. r = TimeoutReturns(o)
      BY <1>3, <2>2 DEF Returned
    <3> QED
      BY <2>2, <3>1, TimeoutReturnsFields
  <2>3. CASE o.in = "answer"
    <3>1. r = Unroot(o)
      BY <1>3, <2>3 DEF Returned
    <3> QED
      BY <2>3, <3>1, UnrootFields
  <2> QED
    BY <1>2, <2>1, <2>2, <2>3
<1> DEFINE p == [r EXCEPT !.in = "no"]
<1>5. xhr' = [xhr EXCEPT ![x] = p]
  BY <1>1, <1>3 DEF Return
<1>6. /\ p \in Objects /\ p.in = "no"
      /\ p.sending = r.sending /\ p.timer = r.timer /\ p.roots = r.roots
      /\ p.opens = r.opens /\ p.ends = r.ends /\ p.misused = r.misused
      /\ p.early = r.early /\ p.tangled = r.tangled
      /\ p.stale = r.stale /\ p.dead = r.dead /\ p.callback = r.callback
      /\ p.cut = r.cut /\ p.ready = r.ready
  BY <1>4 DEF Objects
<1> HIDE DEF p
<1>7. xhr' \in [Xhrs -> Objects] /\ Others(x) /\ xhr'[x] = p
  BY <1>5, <1>6, ObjectStep
<1> QED
  BY <1>1, <1>2, <1>4, <1>6, <1>7

\* The answer of a job goes to its object, if that still listens.
LEMMA AnswerStep ==
  ASSUME TypeOK, Perform, Head(posted) # Dispatch
  PROVE  LET f == Head(posted)  x == jobs[f].of IN
         /\ f \in DOMAIN jobs /\ x \in Xhrs /\ xhr[x] \in Objects
         /\ xhr' \in [Xhrs -> Objects] /\ Others(x)
         /\ IF xhr[x].callback
              THEN \E ok \in BOOLEAN : xhr'[x] = Heard(xhr[x], f, ok)
              ELSE xhr' = xhr
<1> DEFINE f == Head(posted)
           x == jobs[f].of
<1>1. f \in DOMAIN jobs
  <2>1. posted \in Seq({Dispatch} \cup DOMAIN jobs) /\ posted # <<>>
    BY DEF Perform, TypeOK
  <2>2. f \in {Dispatch} \cup DOMAIN jobs
    BY <2>1, HeadTailProperties
  <2> QED
    BY <2>2
<1>2. x \in Xhrs /\ xhr[x] \in Objects
  <2>1. jobs \in Seq([of : Xhrs, open : Nat]) /\ xhr \in [Xhrs -> Objects]
    BY DEF TypeOK
  <2>2. jobs[f] \in [of : Xhrs, open : Nat]
    BY <1>1, <2>1, ElementOfSeq, LenProperties
  <2>3. x \in Xhrs
    BY <2>2
  <2> QED
    BY <2>1, <2>3
<1>3. PICK ok \in BOOLEAN : xhr' = IF xhr[x].callback
                                     THEN [xhr EXCEPT ![x] = Heard(xhr[x], f, ok)]
                                     ELSE xhr
  BY DEF Perform
<1> HIDE DEF f, x
<1>4. CASE xhr[x].callback
  BY <1>1, <1>2, <1>3, <1>4, HeardFields, ObjectStep DEF f, x
<1>5. CASE ~xhr[x].callback
  BY <1>1, <1>2, <1>3, <1>5 DEF TypeOK, Others, f, x
<1> QED
  BY <1>4, <1>5

\* What the types say of the threads at work.
LEMMA Finite ==
  ASSUME TypeOK
  PROVE  /\ IsFiniteSet(running) /\ Cardinality(running) \in Nat
         /\ IsFiniteSet(ending) /\ Cardinality(ending) \in Nat
         /\ DOMAIN jobs = 1..Len(jobs) /\ Len(jobs) \in Nat
         /\ DOMAIN waiting = 1..Len(waiting) /\ Len(waiting) \in Nat
         /\ DOMAIN posted = 1..Len(posted) /\ Len(posted) \in Nat
         /\ Dispatch \notin DOMAIN jobs
<1>1. DOMAIN jobs = 1..Len(jobs) /\ Len(jobs) \in Nat
  BY LenProperties DEF TypeOK
<1>2. IsFiniteSet(DOMAIN jobs)
  BY <1>1, FS_Interval
<1>3. running \in SUBSET DOMAIN jobs /\ ending \in SUBSET DOMAIN jobs
  BY DEF TypeOK
<1>4. IsFiniteSet(running) /\ IsFiniteSet(ending)
  BY <1>2, <1>3, FS_Subset
<1>5. /\ DOMAIN waiting = 1..Len(waiting) /\ Len(waiting) \in Nat
      /\ DOMAIN posted = 1..Len(posted) /\ Len(posted) \in Nat
  BY LenProperties DEF TypeOK
<1> QED
  BY <1>1, <1>4, <1>5, FS_CardinalityType DEF Dispatch

\* Who gives up a share of the count had one.
LEMMA Shares ==
  ASSUME TypeOK, Counts
  PROVE  /\ engine \in {"up", "reset"} => count > 0
         /\ net \in {"idle", "responded"} => count > 0
         /\ running \cup ending # {} => count > 0
<1>1. (running # {} => Cardinality(running) # 0) /\ (ending # {} => Cardinality(ending) # 0)
  BY Finite, FS_EmptySet
<1> QED
  BY <1>1, Finite DEF Counts, Users

LEMMA PostType ==
  ASSUME TypeOK, NEW f \in {Dispatch} \cup DOMAIN jobs, Post(f)
  PROVE  posted' \in Seq({Dispatch} \cup DOMAIN jobs)
BY AppendProperties DEF TypeOK, Post

LEMMA PerformType ==
  ASSUME TypeOK, Perform
  PROVE  /\ posted' \in Seq({Dispatch} \cup DOMAIN jobs)
         /\ responses' \in Seq(1..sent) /\ answered' \in Seq(1..sent)
         /\ xhr' \in [Xhrs -> Objects]
<1>1. posted' \in Seq({Dispatch} \cup DOMAIN jobs)
  BY HeadTailProperties DEF TypeOK, Perform
<1>2. CASE Head(posted) = Dispatch /\ responses # <<>>
  <2>1. responses' = Tail(responses) /\ answered' = Append(answered, Head(responses))
    BY <1>2 DEF Perform, Taken
  <2>2. responses \in Seq(1..sent) /\ answered \in Seq(1..sent)
    BY DEF TypeOK
  <2>3. Head(responses) \in 1..sent /\ responses' \in Seq(1..sent)
    BY <1>2, <2>1, <2>2, HeadTailProperties
  <2>4. answered' \in Seq(1..sent)
    BY <2>1, <2>2, <2>3, AppendProperties
  <2> QED
    BY <1>1, <1>2, <2>3, <2>4 DEF TypeOK, Perform
<1>3. CASE Head(posted) = Dispatch /\ responses = <<>>
  BY <1>1, <1>3 DEF TypeOK, Perform
<1>4. CASE Head(posted) # Dispatch
  BY <1>1, <1>4, AnswerStep DEF TypeOK, Perform
<1> QED
  BY <1>2, <1>3, <1>4

LEMMA TypeStep ==
  ASSUME IInv, [Next]_vars
  PROVE  TypeOK'
<1> USE DEF IInv
<1>0. DOMAIN jobs = 1..Len(jobs) /\ Len(jobs) \in Nat
  BY Finite
<1>1. ASSUME NEW x \in Xhrs, Open(x) \/ Abort(x) \/ Timeout(x) \/ Finalize(x) \/ Return(x)
      PROVE  TypeOK'
  <2>1. xhr' \in [Xhrs -> Objects] /\ Only(x)
    BY <1>1, OpenStep, AbortStep, TimeoutStep, FinalizeStep, ReturnStep DEF Open, Abort, Timeout, Finalize, Return
  <2> QED
    BY <2>1 DEF TypeOK, Only, pool, queues
<1>2. ASSUME NEW x \in Xhrs, NEW timeout \in BOOLEAN, Send(x, timeout)
      PROVE  TypeOK'
  <2>1. xhr' \in [Xhrs -> Objects]
    BY <1>2, SendStep
  <2> DEFINE j == [of |-> x, open |-> xhr[x].opens]
  <2>2. j \in [of : Xhrs, open : Nat] /\ jobs \in Seq([of : Xhrs, open : Nat])
    BY HttpAssumption DEF HttpAssumption, TypeOK, Objects
  <2> HIDE DEF j
  <2>3. jobs' = Append(jobs, j) /\ waiting' = Append(waiting, Len(jobs'))
    BY <1>2 DEF Send, j
  <2>4. jobs' \in Seq([of : Xhrs, open : Nat]) /\ Len(jobs') = Len(jobs) + 1
    BY <2>2, <2>3, AppendProperties
  <2>5. DOMAIN jobs' = 1..Len(jobs) + 1
    BY <2>4, LenProperties
  <2>6. DOMAIN jobs \subseteq DOMAIN jobs' /\ Len(jobs') \in DOMAIN jobs'
    BY <1>0, <2>4, <2>5
  <2>7. waiting \in Seq(DOMAIN jobs') /\ posted \in Seq({Dispatch} \cup DOMAIN jobs')
    BY <2>6, SeqMonotonic DEF TypeOK
  <2>8. waiting' \in Seq(DOMAIN jobs')
    BY <2>3, <2>6, <2>7, AppendProperties
  <2> QED
    BY <1>2, <2>1, <2>4, <2>6, <2>7, <2>8 DEF TypeOK, Send, queues
<1>3. CASE SendQueued
  <2>1. sent' \in 0..MaxRequests /\ sent' = sent + 1 /\ sent \in Nat
    BY <1>3, HttpAssumption DEF SendQueued, TypeOK, HttpAssumption
  <2>2. 0..sent \subseteq 0..sent' /\ 1..sent \subseteq 1..sent' /\ sent' \in 0..sent'
    BY <2>1
  <2>3. /\ requests \in Seq(0..sent') /\ responses \in Seq(1..sent')
        /\ answered \in Seq(1..sent')
    BY <2>2, SeqMonotonic DEF TypeOK
  <2>4. requests' \in Seq(0..sent')
    BY <1>3, <2>2, <2>3, AppendProperties DEF SendQueued
  <2> QED
    BY <1>3, <2>1, <2>3, <2>4 DEF TypeOK, SendQueued, pool
<1>4. CASE Perform
  BY <1>4, PerformType DEF TypeOK, Perform, pool
<1>5. CASE JobStart
  <2>1. Head(waiting) \in DOMAIN jobs /\ waiting' \in Seq(DOMAIN jobs)
    BY <1>5, HeadTailProperties DEF JobStart, TypeOK
  <2> QED
    BY SMTT(20), <1>5, <2>1 DEF TypeOK, JobStart, Enter, queues
<1>6. ASSUME NEW n \in 1..MaxSends, JobAnswer(n)
      PROVE  TypeOK'
  <2>1. n \in DOMAIN jobs
    BY <1>6 DEF JobAnswer, TypeOK
  <2>2. posted' \in Seq({Dispatch} \cup DOMAIN jobs)
    BY <1>6, <2>1, PostType DEF JobAnswer
  <2> QED
    BY <1>6, <2>1, <2>2 DEF TypeOK, JobAnswer, queues
<1>7. ASSUME NEW n \in 1..MaxSends, JobEnd(n)
      PROVE  TypeOK'
  <2>1. count > 0
    BY <1>7, Shares DEF JobEnd
  <2> QED
    BY <1>7, <2>1 DEF TypeOK, JobEnd, Leave, queues
<1>8. CASE NetStart
  BY <1>8 DEF TypeOK, NetStart, Enter, pool
<1>9. CASE NetRespond
  <2>1. Head(requests) \in 0..sent /\ requests' \in Seq(0..sent)
    BY <1>9, HeadTailProperties DEF NetRespond, TypeOK
  <2>2. Head(requests) \in 1..sent
    BY <1>9, <2>1 DEF NetRespond, Sentinel, TypeOK
  <2>3. responses' \in Seq(1..sent)
    BY <1>9, <2>2, AppendProperties DEF NetRespond, TypeOK, Queued
  <2> QED
    BY <1>9, <2>1, <2>3 DEF TypeOK, NetRespond, pool
<1>10. CASE NetPost
  <2>1. posted' \in Seq({Dispatch} \cup DOMAIN jobs)
    BY <1>10, PostType DEF NetPost
  <2> QED
    BY <1>10, <2>1 DEF TypeOK, NetPost, pool
<1>11. CASE NetQuit
  <2>1. count > 0
    BY <1>11, Shares DEF NetQuit
  <2>2. <<>> \in Seq(0..sent) /\ <<>> \in Seq(1..sent)
    BY EmptySeq
  <2> QED
    BY <1>11, <2>1, <2>2 DEF TypeOK, NetQuit, Leave, pool
<1>12. CASE DestroyReset
  BY <1>12 DEF TypeOK, DestroyReset, pool, queues
<1>13. CASE DestroySentinel
  <2>1. count > 0
    BY <1>13, Shares DEF DestroySentinel
  <2>2. requests' \in Seq(0..sent)
    <3>1. Sentinel \in 0..sent
      BY DEF Sentinel, TypeOK
    <3> QED
      BY <1>13, <3>1, AppendProperties DEF DestroySentinel, TypeOK
  <2> QED
    BY <1>13, <2>1, <2>2 DEF TypeOK, DestroySentinel, Leave, pool
<1>14. CASE DestroyRemove
  <2>1. <<>> \in Seq({Dispatch} \cup DOMAIN jobs)
    BY EmptySeq
  <2>2. xhr' \in [Xhrs -> Objects]
    <3>1. ASSUME NEW x \in Xhrs PROVE [xhr[x] EXCEPT !.timer = FALSE] \in Objects
      BY ZenonT(30) DEF TypeOK, Objects
    <3> QED
      BY <1>14, <3>1 DEF DestroyRemove
  <2> QED
    BY <1>14, <2>1, <2>2 DEF TypeOK, DestroyRemove, pool, queues
<1>15. CASE UNCHANGED vars
  BY <1>15 DEF TypeOK, vars, pool, queues
<1> QED
  BY <1>1, <1>2, <1>3, <1>4, <1>5, <1>6, <1>7, <1>8, <1>9, <1>10, <1>11, <1>12,
     <1>13, <1>14, <1>15 DEF Next

-----------------------------------------------------------------------------
(* Each job is in one place                                                *)

LEMMA ApartStep ==
  ASSUME IInv, [Next]_vars
  PROVE  Apart'
<1> USE DEF IInv
<1>0. /\ jobs \in Seq([of : Xhrs, open : Nat]) /\ waiting \in Seq(DOMAIN jobs)
      /\ posted \in Seq({Dispatch} \cup DOMAIN jobs)
      /\ running \subseteq DOMAIN jobs /\ ending \subseteq DOMAIN jobs
  BY DEF TypeOK
<1>1. ASSUME UNCHANGED <<waiting, running, ending, posted>>
      PROVE  Apart'
  BY <1>1 DEF Apart
<1>2. ASSUME NEW x \in Xhrs, Open(x) \/ Abort(x) \/ Timeout(x) \/ Finalize(x) \/ Return(x)
      PROVE  Apart'
  BY <1>1, <1>2 DEF Open, Abort, Timeout, Finalize, Return, Only, pool
<1>3. ASSUME NEW x \in Xhrs, NEW timeout \in BOOLEAN, Send(x, timeout)
      PROVE  Apart'
  <2> DEFINE n == Len(jobs) + 1
  <2>1. Len(jobs') = n
    <3>1. [of |-> x, open |-> xhr[x].opens] \in [of : Xhrs, open : Nat]
      BY HttpAssumption DEF HttpAssumption, TypeOK, Objects
    <3> QED
      BY <1>0, <1>3, <3>1, AppendProperties DEF Send
  <2>2. waiting' = Append(waiting, n) /\ UNCHANGED <<running, ending, posted>>
    BY <1>3, <2>1 DEF Send
  <2>3. n \notin DOMAIN jobs /\ n # Dispatch /\ n \in Nat
    BY Finite DEF Dispatch
  <2> HIDE DEF n
  <2>4. waiting \in Seq(DOMAIN jobs \cup {n})
    BY <1>0, SeqMonotonic
  <2>5. /\ DOMAIN waiting = 1..Len(waiting) /\ Len(waiting) \in Nat
        /\ DOMAIN waiting' = 1..Len(waiting) + 1
        /\ \A i \in 1..Len(waiting) : waiting'[i] = waiting[i] /\ waiting[i] # n
        /\ waiting'[Len(waiting) + 1] = n
    BY <1>0, <2>2, <2>3, <2>4, Appended, ElementOfSeq
  <2>6. \A i \in DOMAIN posted : posted[i] # n
    BY <1>0, <2>3, ElementOfSeq, LenProperties
  <2> QED
    BY SMTT(20), <1>0, <2>2, <2>3, <2>5, <2>6 DEF Apart
<1>4. CASE JobStart
  <2>1. /\ DOMAIN waiting = 1..Len(waiting) /\ Len(waiting) \in Nat \ {0}
        /\ DOMAIN waiting' = 1..Len(waiting) - 1
        /\ \A i \in 1..Len(waiting) - 1 : waiting'[i] = waiting[i + 1]
        /\ running' = running \cup {waiting[1]}
        /\ UNCHANGED <<ending, posted>>
    BY <1>0, <1>4, Tailed DEF JobStart
  <2>2. PICK f : f = waiting[1]
    OBVIOUS
  <2>3. /\ \A i \in DOMAIN waiting' : i + 1 \in DOMAIN waiting /\ waiting'[i] = waiting[i + 1]
        /\ \A i \in DOMAIN waiting' : waiting'[i] # f
        /\ 1 \in DOMAIN waiting /\ running' = running \cup {f}
    <3>1. \A i \in DOMAIN waiting' : i + 1 \in DOMAIN waiting /\ i + 1 # 1
      BY <2>1
    <3> QED
      BY <2>1, <2>2, <3>1 DEF Apart
  <2>4. f \notin ending /\ f \notin running /\ \A i \in DOMAIN posted : posted[i] # f
    BY <2>2, <2>3 DEF Apart
  <2>5. \A i, j \in DOMAIN waiting' : i # j => waiting'[i] # waiting'[j]
    <3>1. \A i, j \in DOMAIN waiting' : i # j => i + 1 # j + 1
      BY <2>1
    <3> QED
      BY <2>3, <3>1 DEF Apart
  <2>6. /\ \A i \in DOMAIN waiting' : waiting'[i] \notin running' \cup ending'
        /\ \A i \in DOMAIN posted', j \in DOMAIN waiting' : posted'[i] # waiting'[j]
    BY <2>1, <2>3 DEF Apart
  <2>7. /\ \A i \in DOMAIN posted' : posted'[i] \notin running'
        /\ running' \cap ending' = {}
        /\ \A i, j \in DOMAIN posted' : i # j /\ posted'[i] # Dispatch => posted'[i] # posted'[j]
    BY <2>1, <2>3, <2>4 DEF Apart
  <2> QED
    BY <2>5, <2>6, <2>7 DEF Apart
<1>5. ASSUME NEW n \in 1..MaxSends, JobAnswer(n)
      PROVE  Apart'
  <2>1. /\ n \in running /\ n \in DOMAIN jobs /\ n # Dispatch
        /\ running' = running \ {n} /\ ending' = ending \cup {n} /\ waiting' = waiting
    BY <1>0, <1>5, Finite DEF JobAnswer
  <2>2. CASE posted' = posted
    BY <2>1, <2>2 DEF Apart
  <2>3. CASE posted' = Append(posted, n)
    <3>1. /\ DOMAIN posted = 1..Len(posted) /\ Len(posted) \in Nat
          /\ DOMAIN posted' = 1..Len(posted) + 1
          /\ \A i \in 1..Len(posted) : posted'[i] = posted[i]
          /\ posted'[Len(posted) + 1] = n
      BY <1>0, <2>1, <2>3, Appended
    <3> QED
      BY <2>1, <3>1 DEF Apart
  <2> QED
    BY <1>5, <2>2, <2>3 DEF JobAnswer, Post
<1>6. ASSUME NEW n \in 1..MaxSends, JobEnd(n)
      PROVE  Apart'
  BY <1>6 DEF JobEnd, Apart
<1>7. CASE Perform
  <2>1. /\ DOMAIN posted = 1..Len(posted) /\ Len(posted) \in Nat \ {0}
        /\ DOMAIN posted' = 1..Len(posted) - 1
        /\ \A i \in 1..Len(posted) - 1 : posted'[i] = posted[i + 1]
        /\ UNCHANGED <<running, waiting, ending>>
    BY <1>0, <1>7, Tailed DEF Perform, pool
  <2> QED
    BY <2>1 DEF Apart
<1>8. CASE NetPost
  <2>1. UNCHANGED <<running, waiting, ending>>
    BY <1>8 DEF NetPost, pool
  <2>2. CASE posted' = posted
    BY <1>1, <2>1, <2>2
  <2>3. CASE posted' = Append(posted, Dispatch)
    <3>1. /\ DOMAIN posted = 1..Len(posted) /\ Len(posted) \in Nat
          /\ DOMAIN posted' = 1..Len(posted) + 1
          /\ \A i \in 1..Len(posted) : posted'[i] = posted[i]
          /\ posted'[Len(posted) + 1] = Dispatch
      BY <1>0, <2>3, Appended
    <3>2. \A i \in DOMAIN waiting : waiting[i] # Dispatch
      BY <1>0, Finite, ElementOfSeq
    <3>3. Dispatch \notin running
      BY <1>0, Finite
    <3> QED
      BY <2>1, <3>1, <3>2, <3>3 DEF Apart
  <2> QED
    BY <1>8, <2>2, <2>3 DEF NetPost, Post
<1>9. CASE DestroyRemove
  <2>1. posted' = <<>> /\ UNCHANGED <<running, waiting, ending>>
    BY <1>9 DEF DestroyRemove, pool
  <2> QED
    BY <2>1 DEF Apart
<1>10. CASE SendQueued \/ NetStart \/ NetRespond \/ NetQuit \/ DestroyReset \/ DestroySentinel
  BY <1>1, <1>10 DEF SendQueued, NetStart, NetRespond, NetQuit, DestroyReset,
                     DestroySentinel, pool
<1>11. CASE UNCHANGED vars
  BY <1>1, <1>11 DEF vars, pool
<1> QED
  BY <1>2, <1>3, <1>4, <1>5, <1>6, <1>7, <1>8, <1>9, <1>10, <1>11 DEF Next

-----------------------------------------------------------------------------
(* The count is that of the users                                          *)

LEMMA Left ==
  ASSUME count \in Nat, count > 0, Leave
  PROVE  count' = count - 1 /\ (deleted' <=> count' = 0)
<1>1. count' = count - 1 /\ deleted' = (count = 1)
  BY DEF Leave
<1>2. count' = 0 <=> count = 1
  BY <1>1
<1> QED
  BY <1>1, <1>2

LEMMA CountsStep ==
  ASSUME IInv, [Next]_vars
  PROVE  Counts'
<1> USE DEF IInv
<1>0. /\ IsFiniteSet(running) /\ Cardinality(running) \in Nat
      /\ IsFiniteSet(ending) /\ Cardinality(ending) \in Nat
      /\ count \in Nat /\ deleted \in BOOLEAN
      /\ engine \in {"up", "reset", "left", "down"}
      /\ net \in {"none", "created", "idle", "responded", "gone"}
  BY Finite DEF TypeOK
<1>1. ASSUME UNCHANGED <<engine, deleted, count, running, ending, net>>,
             posted = <<>> \/ engine # "down" => posted' = <<>> \/ engine # "down"
      PROVE  Counts'
  BY <1>1 DEF Counts, Users
<1>2. ASSUME NEW x \in Xhrs, Open(x) \/ Abort(x) \/ Timeout(x) \/ Finalize(x) \/ Return(x)
      PROVE  Counts'
  BY <1>1, <1>2 DEF Open, Abort, Timeout, Finalize, Return, Only, pool, queues
<1>3. ASSUME NEW x \in Xhrs, NEW timeout \in BOOLEAN, Send(x, timeout)
      PROVE  Counts'
  BY <1>1, <1>3 DEF Send, queues
<1>4. CASE JobStart
  <2>1. Head(waiting) \notin running /\ Head(waiting) \notin ending
    BY <1>4, Tailed DEF JobStart, Apart, TypeOK
  <2>2. Cardinality(running') = Cardinality(running) + 1
    BY <1>0, <1>4, <2>1, FS_AddElement DEF JobStart
  <2> QED
    BY <1>0, <1>4, <2>2 DEF JobStart, Enter, Counts, Users, queues
<1>5. ASSUME NEW n \in 1..MaxSends, JobAnswer(n)
      PROVE  Counts'
  <2>1. n \in running /\ n \notin ending
    BY <1>5 DEF JobAnswer, Apart
  <2>2. /\ Cardinality(running') = Cardinality(running) - 1
        /\ Cardinality(ending') = Cardinality(ending) + 1
    BY <1>0, <1>5, <2>1, FS_AddElement, FS_RemoveElement DEF JobAnswer
  <2> QED
    BY SMTT(20), <1>0, <1>5, <2>2 DEF JobAnswer, Post, Counts, Users, queues
<1>6. ASSUME NEW n \in 1..MaxSends, JobEnd(n)
      PROVE  Counts'
  <2>1. Cardinality(ending') = Cardinality(ending) - 1
    BY <1>0, <1>6, FS_RemoveElement DEF JobEnd
  <2>2. count > 0 /\ ~deleted
    BY <1>0, <1>6, Shares DEF JobEnd, Counts
  <2> QED
    <3>1. count' = count - 1 /\ (deleted' <=> count' = 0)
      BY <1>0, <1>6, <2>2, Left DEF JobEnd
    <3> QED
      BY <1>0, <1>6, <2>1, <2>2, <3>1 DEF JobEnd, Counts, Users, queues
<1>7. CASE Perform
  BY <1>1, <1>7 DEF Perform, pool
<1>8. CASE SendQueued
  BY <1>0, <1>8 DEF SendQueued, Counts, Users, pool
<1>9. CASE NetStart
  BY <1>0, <1>9 DEF NetStart, Enter, Counts, Users, pool
<1>10. CASE NetRespond
  BY <1>0, <1>10 DEF NetRespond, Counts, Users, pool
<1>11. CASE NetPost
  BY <1>0, <1>11 DEF NetPost, Post, Counts, Users, pool
<1>12. CASE NetQuit
  <2>1. count > 0 /\ ~deleted
    BY <1>0, <1>12, Shares DEF NetQuit, Counts
  <2> QED
    <3>1. count' = count - 1 /\ (deleted' <=> count' = 0)
      BY <1>0, <1>12, <2>1, Left DEF NetQuit
    <3> QED
      BY <1>0, <1>12, <2>1, <3>1 DEF NetQuit, Counts, Users, pool
<1>13. CASE DestroyReset
  BY <1>0, <1>13 DEF DestroyReset, Counts, Users, pool, queues
<1>14. CASE DestroySentinel
  <2>1. count > 0 /\ ~deleted
    BY <1>0, <1>14, Shares DEF DestroySentinel, Counts
  <2> QED
    <3>1. count' = count - 1 /\ (deleted' <=> count' = 0)
      BY <1>0, <1>14, <2>1, Left DEF DestroySentinel
    <3> QED
      BY <1>0, <1>14, <2>1, <3>1 DEF DestroySentinel, Counts, Users, pool
<1>15. CASE DestroyRemove
  BY <1>0, <1>15 DEF DestroyRemove, Counts, Users, pool, queues
<1>16. CASE UNCHANGED vars
  BY <1>1, <1>16 DEF vars, pool, queues
<1> QED
  BY <1>2, <1>3, <1>4, <1>5, <1>6, <1>7, <1>8, <1>9, <1>10, <1>11, <1>12, <1>13,
     <1>14, <1>15, <1>16 DEF Next
-----------------------------------------------------------------------------
(* Requests follow each other                                              *)

LEMMA ConsecutiveStep ==
  ASSUME IInv, [Next]_vars
  PROVE  Consecutive'
<1> USE DEF IInv
<1>0. /\ requests \in Seq(0..sent) /\ responses \in Seq(1..sent)
      /\ answered \in Seq(1..sent) /\ sent \in Nat
      /\ engine \in {"up", "reset", "left", "down"}
      /\ Len(requests) \in Nat /\ Len(responses) \in Nat /\ Len(answered) \in Nat
      /\ DOMAIN requests = 1..Len(requests) /\ DOMAIN responses = 1..Len(responses)
      /\ DOMAIN answered = 1..Len(answered)
  BY LenProperties, HttpAssumption DEF TypeOK, HttpAssumption
<1>00. /\ \A i \in 1..Len(answered) : answered[i] = i
       /\ \A i \in 1..Len(responses) : responses[i] = Len(answered) + i
       /\ \A i \in 1..Len(requests) :
            requests[i] # Sentinel => requests[i] = Len(answered) + Len(responses) + i
  BY <1>0 DEF Consecutive
<1>1. ASSUME UNCHANGED <<engine, queues, answered>>
      PROVE  Consecutive'
  BY <1>1 DEF Consecutive, queues
<1>2. CASE Perform
  <2>1. CASE UNCHANGED <<responses, answered>>
    BY <1>1, <1>2, <2>1 DEF Perform, queues
  <2>2. CASE /\ responses # <<>> /\ responses' = Tail(responses)
             /\ answered' = Append(answered, Head(responses))
    <3>1. /\ Head(responses) = responses[1] /\ Head(responses) \in 1..sent
          /\ Len(responses') = Len(responses) - 1 /\ Len(responses) > 0
          /\ DOMAIN responses' = 1..Len(responses) - 1
          /\ \A i \in 1..Len(responses) - 1 : responses'[i] = responses[i + 1]
      BY <1>0, <2>2, Tailed
    <3>2. /\ Len(answered') = Len(answered) + 1
          /\ DOMAIN answered' = 1..Len(answered) + 1
          /\ \A i \in 1..Len(answered) : answered'[i] = answered[i]
          /\ answered'[Len(answered) + 1] = responses[1]
      BY <1>0, <2>2, <3>1, Appended
    <3>3. UNCHANGED <<requests, sent, engine, net>>
      BY <1>2 DEF Perform
    <3>4. \A i \in DOMAIN answered' : answered'[i] = i
      <4>1. responses[1] = Len(answered) + 1
        BY <1>0, <1>00, <3>1
      <4>2. ASSUME NEW i \in 1..Len(answered) + 1 PROVE answered'[i] = i
        <5>1. CASE i = Len(answered) + 1
          BY <3>2, <4>1, <5>1
        <5>2. CASE i # Len(answered) + 1
          <6>1. i \in 1..Len(answered)
            BY <1>0, <5>2
          <6> QED
            BY <1>00, <3>2, <6>1
        <5> QED
          BY <5>1, <5>2
      <4> QED
        BY <3>2, <4>2
    <3>5. \A i \in DOMAIN responses' : responses'[i] = Len(answered') + i
      <4>1. ASSUME NEW i \in 1..Len(responses) - 1
            PROVE  responses[i + 1] = Len(answered) + 1 + i
        <5>1. i + 1 \in DOMAIN responses
          BY <1>0
        <5>2. responses[i + 1] = Len(answered) + (i + 1)
          BY <5>1 DEF Consecutive
        <5> QED
          BY <1>0, <5>2
      <4> QED
        BY <1>0, <3>1, <3>2, <4>1
    <3>6. Len(answered') + Len(responses') = Len(answered) + Len(responses)
      BY <1>0, <3>1, <3>2
    <3> QED
      BY <1>0, <3>3, <3>4, <3>5, <3>6 DEF Consecutive
  <2> QED
    BY <1>2, <2>1, <2>2 DEF Perform, Taken
<1>3. CASE SendQueued
  <2>1. sent + 1 \in 0..sent + 1 /\ requests \in Seq(0..sent + 1)
    BY <1>0, SeqMonotonic
  <2>2. requests' = Append(requests, sent + 1)
    BY <1>3 DEF SendQueued
  <2>3. /\ Len(requests') = Len(requests) + 1
        /\ DOMAIN requests' = 1..Len(requests) + 1
        /\ \A i \in 1..Len(requests) : requests'[i] = requests[i]
        /\ requests'[Len(requests) + 1] = sent + 1
    BY <2>1, <2>2, Appended
  <2> QED
    <3>1. /\ UNCHANGED <<answered, responses, engine>> /\ sent' = sent + 1
          /\ engine = "up" /\ net' # "gone"
      BY <1>3 DEF SendQueued, Consecutive
    <3>2. sent = Len(answered) + Len(responses) + Len(requests)
      BY <3>1 DEF Consecutive
    <3>3. \A i \in DOMAIN requests' :
            requests'[i] # Sentinel /\ requests'[i] = Len(answered) + Len(responses) + i
      <4>1. \A i \in 1..Len(requests) : requests[i] # Sentinel
        BY <1>0, <3>1 DEF Consecutive
      <4>2. ASSUME NEW i \in 1..Len(requests) + 1
            PROVE  /\ requests'[i] # Sentinel
                   /\ requests'[i] = Len(answered) + Len(responses) + i
        <5>1. CASE i = Len(requests) + 1
          BY <1>0, <2>3, <3>2, <5>1 DEF Sentinel
        <5>2. CASE i # Len(requests) + 1
          <6>1. i \in 1..Len(requests)
            BY <1>0, <5>2
          <6> QED
            BY <1>00, <2>3, <4>1, <6>1
        <5> QED
          BY <5>1, <5>2
      <4> QED
        BY <2>3, <4>2
    <3> QED
      BY <1>0, <2>3, <3>1, <3>2, <3>3 DEF Consecutive
<1>4. CASE NetRespond
  <2> DEFINE r == Head(requests)
  <2>1. /\ r = requests[1] /\ r \in 0..sent /\ r # Sentinel
        /\ Len(requests') = Len(requests) - 1 /\ Len(requests) > 0
        /\ DOMAIN requests' = 1..Len(requests) - 1
        /\ \A i \in 1..Len(requests) - 1 : requests'[i] = requests[i + 1]
    BY <1>0, <1>4, Tailed DEF NetRespond
  <2>2. r \in 1..sent
    BY <1>0, <2>1 DEF Sentinel
  <2>3. responses' = Append(responses, r)
    BY <1>4 DEF NetRespond, Queued
  <2>4. /\ Len(responses') = Len(responses) + 1
        /\ DOMAIN responses' = 1..Len(responses) + 1
        /\ \A i \in 1..Len(responses) : responses'[i] = responses[i]
        /\ responses'[Len(responses) + 1] = requests[1]
    BY <1>0, <2>1, <2>2, <2>3, Appended
  <2>5. UNCHANGED <<answered, sent, engine>> /\ net' # "gone"
    BY <1>4 DEF NetRespond
  <2> HIDE DEF r
  <2> QED
    <3>1. requests[1] = Len(answered) + Len(responses) + 1
      BY <1>0, <1>00, <2>1
    <3>2. \A i \in DOMAIN responses' : responses'[i] = Len(answered') + i
      <4>1. ASSUME NEW i \in 1..Len(responses) + 1
            PROVE  responses'[i] = Len(answered) + i
        <5>1. CASE i = Len(responses) + 1
          BY <1>0, <2>4, <3>1, <5>1
        <5>2. CASE i # Len(responses) + 1
          <6>1. i \in 1..Len(responses)
            BY <1>0, <5>2
          <6> QED
            BY <1>00, <2>4, <6>1
        <5> QED
          BY <5>1, <5>2
      <4> QED
        BY <2>4, <2>5, <4>1
    <3>3. ASSUME NEW i \in DOMAIN requests'
          PROVE  /\ i + 1 \in DOMAIN requests /\ requests'[i] = requests[i + 1]
                 /\ requests'[i] = IF requests'[i] = Sentinel THEN Sentinel
                                   ELSE Len(answered') + Len(responses') + i
      <4>1. i + 1 \in DOMAIN requests /\ requests'[i] = requests[i + 1] /\ i \in Nat
        BY <1>0, <2>1
      <4>2. requests[i + 1] = IF requests[i + 1] = Sentinel THEN Sentinel
                              ELSE Len(answered) + Len(responses) + (i + 1)
        BY <4>1 DEF Consecutive
      <4>3. Len(answered) + Len(responses) + (i + 1) = Len(answered') + Len(responses') + i
        BY <1>0, <2>4, <2>5, <4>1
      <4> QED
        BY <4>1, <4>2, <4>3
    <3>4. Len(answered') + Len(responses') + Len(requests')
            = Len(answered) + Len(responses) + Len(requests)
      BY <1>0, <2>1, <2>4, <2>5
    <3>5. \A i \in DOMAIN answered' : answered'[i] = i
      BY <2>5 DEF Consecutive
    <3> QED
      BY <2>5, <3>2, <3>3, <3>4, <3>5 DEF Consecutive
<1>5. CASE NetQuit
  <2>1. requests' = <<>> /\ responses' = <<>> /\ UNCHANGED <<answered, sent, engine>>
    BY <1>5 DEF NetQuit
  <2>2. engine \notin {"up", "reset"}
    <3>1. requests[1] = Sentinel /\ 1 \in DOMAIN requests
      BY <1>0, <1>5, Tailed DEF NetQuit
    <3> QED
      BY <3>1 DEF Consecutive
  <2> QED
    <3>1. DOMAIN requests' = {} /\ DOMAIN responses' = {}
      BY <2>1
    <3> QED
      BY <1>0, <2>1, <2>2, <3>1 DEF Consecutive
<1>6. CASE DestroySentinel
  <2>1. requests' = Append(requests, Sentinel) /\ Sentinel \in 0..sent
    BY <1>0, <1>6 DEF DestroySentinel, Sentinel
  <2>2. /\ Len(requests') = Len(requests) + 1
        /\ DOMAIN requests' = 1..Len(requests) + 1
        /\ \A i \in 1..Len(requests) : requests'[i] = requests[i]
        /\ requests'[Len(requests) + 1] = Sentinel
    BY <1>0, <2>1, Appended
  <2> QED
    BY <1>0, <1>6, <2>2 DEF DestroySentinel, Consecutive
<1>7. CASE NetStart \/ NetPost \/ DestroyReset \/ DestroyRemove
  BY <1>0, <1>7 DEF NetStart, NetPost, DestroyReset, DestroyRemove, Consecutive, queues
<1>8. ASSUME NEW x \in Xhrs, Open(x) \/ Abort(x) \/ Timeout(x) \/ Finalize(x) \/ Return(x)
      PROVE  Consecutive'
  BY <1>1, <1>8 DEF Open, Abort, Timeout, Finalize, Return, Only
<1>9. ASSUME NEW x \in Xhrs, NEW timeout \in BOOLEAN, Send(x, timeout)
      PROVE  Consecutive'
  BY <1>1, <1>9 DEF Send
<1>10. ASSUME NEW n \in 1..MaxSends, JobAnswer(n) \/ JobEnd(n)
       PROVE  Consecutive'
  BY <1>1, <1>10 DEF JobAnswer, JobEnd
<1>11. CASE JobStart \/ UNCHANGED vars
  BY <1>1, <1>11 DEF JobStart, vars
<1> QED
  BY <1>2, <1>3, <1>4, <1>5, <1>6, <1>7, <1>8, <1>9, <1>10, <1>11 DEF Next
-----------------------------------------------------------------------------
(* Each response has a dispatch                                            *)

LEMMA OneEachStep ==
  ASSUME IInv, [Next]_vars
  PROVE  OneEach'
<1> USE DEF IInv
<1>0. /\ posted \in Seq({Dispatch} \cup DOMAIN jobs)
      /\ responses \in Seq(1..sent) /\ requests \in Seq(0..sent) /\ sent \in Nat
      /\ Len(responses) \in Nat
      /\ Cardinality(Places(posted, Dispatch)) \in Nat
      /\ Dispatch \in {Dispatch} \cup DOMAIN jobs
  BY PlacesFinite, LenProperties, HttpAssumption DEF TypeOK, HttpAssumption
<1>1. ASSUME UNCHANGED <<posted, net, responses>>, engine' = engine \/ engine' # "up"
      PROVE  OneEach'
  BY <1>1 DEF OneEach, Places
<1>2. CASE Perform
  <2>1. /\ posted # <<>> /\ posted' = Tail(posted) /\ engine = "up"
        /\ UNCHANGED <<engine, net>>
    BY <1>2 DEF Perform
  <2>2. Cardinality(Places(posted, Dispatch)) =
          Cardinality(Places(posted', Dispatch)) + IF Head(posted) = Dispatch THEN 1 ELSE 0
    BY <1>0, <2>1, PlacesTail
  <2>3. Cardinality(Places(posted', Dispatch)) \in Nat
    BY <1>0, <2>1, Tailed, PlacesFinite
  <2>4. CASE Head(posted) = Dispatch
    <3>1. responses # <<>>
      <4>1. Len(responses) > 0
        BY <1>0, <2>1, <2>2, <2>3, <2>4 DEF OneEach
      <4> QED
        BY <4>1
    <3>2. Len(responses') = Len(responses) - 1
      BY <1>0, <1>2, <2>4, <3>1, Tailed DEF Perform, Taken
    <3> QED
      BY SMTT(20), <1>0, <2>1, <2>2, <2>3, <2>4, <3>2 DEF OneEach
  <2>5. CASE Head(posted) # Dispatch
    <3>1. responses' = responses
      BY <1>2, <2>5 DEF Perform
    <3> QED
      BY <1>0, <2>1, <2>2, <2>3, <2>5, <3>1 DEF OneEach
  <2> QED
    BY <2>4, <2>5
<1>3. ASSUME NEW n \in 1..MaxSends, JobAnswer(n)
      PROVE  OneEach'
  <2>1. CASE posted' = posted
    BY <1>1, <1>3, <2>1 DEF JobAnswer, queues
  <2>2. CASE posted' = Append(posted, n)
    <3>1. n # Dispatch /\ n \in {Dispatch} \cup DOMAIN jobs
      BY <1>3, Finite DEF JobAnswer, TypeOK
    <3>2. Cardinality(Places(posted', Dispatch)) = Cardinality(Places(posted, Dispatch))
      <4>1. Cardinality(Places(Append(posted, n), Dispatch)) =
              Cardinality(Places(posted, Dispatch)) + IF n = Dispatch THEN 1 ELSE 0
        <5> DEFINE S == {Dispatch} \cup DOMAIN jobs
        <5>1. posted \in Seq(S) /\ n \in S
          BY <1>0, <3>1
        <5> HIDE DEF S
        <5> QED
          BY <5>1, PlacesAppend
      <4> QED
        BY <1>0, <2>2, <3>1, <4>1
    <3> QED
      BY <1>3, <3>2 DEF JobAnswer, OneEach, queues
  <2> QED
    BY <1>3, <2>1, <2>2 DEF JobAnswer, Post
<1>4. CASE NetPost
  <2>1. CASE engine = "up"
    <3>1. Cardinality(Places(posted', Dispatch)) = Cardinality(Places(posted, Dispatch)) + 1
      BY <1>0, <1>4, <2>1, PlacesAppend DEF NetPost, Post
    <3> QED
      BY <1>0, <1>4, <2>1, <3>1 DEF NetPost, OneEach
  <2>2. CASE engine # "up"
    BY <1>4, <2>2 DEF NetPost, OneEach
  <2> QED
    BY <2>1, <2>2
<1>5. CASE NetRespond
  <2>1. Head(requests) \in 1..sent
    BY <1>0, <1>5, Tailed DEF NetRespond, Sentinel
  <2>2. Len(responses') = Len(responses) + 1
    BY <1>0, <1>5, <2>1, Appended DEF NetRespond, Queued
  <2> QED
    BY <1>0, <1>5, <2>2 DEF NetRespond, OneEach
<1>6. CASE NetQuit
  <2>1. engine # "up"
    BY <1>0, <1>6, Tailed DEF NetQuit, Consecutive
  <2> QED
    BY <1>6, <2>1 DEF NetQuit, OneEach
<1>7. CASE SendQueued \/ NetStart
  BY <1>0, <1>7 DEF SendQueued, NetStart, OneEach
<1>8. CASE DestroyReset \/ DestroySentinel \/ DestroyRemove
  BY <1>8 DEF DestroyReset, DestroySentinel, DestroyRemove, OneEach
<1>9. ASSUME NEW x \in Xhrs, Open(x) \/ Abort(x) \/ Timeout(x) \/ Finalize(x) \/ Return(x)
      PROVE  OneEach'
  BY <1>1, <1>9 DEF Open, Abort, Timeout, Finalize, Return, Only, queues
<1>10. ASSUME NEW x \in Xhrs, NEW timeout \in BOOLEAN, Send(x, timeout)
      PROVE  OneEach'
  BY <1>1, <1>10 DEF Send, queues
<1>11. ASSUME NEW n \in 1..MaxSends, JobEnd(n)
       PROVE  OneEach'
  BY <1>1, <1>11 DEF JobEnd, queues
<1>12. CASE JobStart \/ UNCHANGED vars
  BY <1>1, <1>12 DEF JobStart, vars, queues
<1> QED
  BY <1>2, <1>3, <1>4, <1>5, <1>6, <1>7, <1>8, <1>9, <1>10, <1>11, <1>12 DEF Next

-----------------------------------------------------------------------------
(* The objects and their answers                                           *)

LEMMA OutstandingIsMine ==
  ASSUME NEW x PROVE Outstanding(x) = Mine(x)
BY DEF Outstanding, Mine, Out, Range

\* An answer that is out was sent before; only Send adds one.
LEMMA OutStep ==
  ASSUME IInv, [Next]_vars, \A x \in Xhrs, timeout \in BOOLEAN : ~Send(x, timeout)
  PROVE  jobs' = jobs /\ \A n \in DOMAIN jobs : Out(n)' => Out(n)
<1> USE DEF IInv
<1>0. /\ waiting \in Seq(DOMAIN jobs) /\ posted \in Seq({Dispatch} \cup DOMAIN jobs)
      /\ Dispatch \notin DOMAIN jobs
  BY Finite DEF TypeOK
<1>1. ASSUME UNCHANGED <<jobs, waiting, running, posted>>
      PROVE  jobs' = jobs /\ \A n \in DOMAIN jobs : Out(n)' => Out(n)
  BY <1>1 DEF Out
<1>2. CASE JobStart
  <2>1. /\ UNCHANGED <<jobs, posted>> /\ running' = running \cup {waiting[1]}
        /\ DOMAIN waiting = 1..Len(waiting) /\ Len(waiting) \in Nat \ {0}
        /\ DOMAIN waiting' = 1..Len(waiting) - 1
        /\ \A i \in 1..Len(waiting) - 1 : waiting'[i] = waiting[i + 1]
    BY <1>0, <1>2, Tailed DEF JobStart
  <2> QED
    BY <2>1 DEF Out
<1>3. ASSUME NEW f \in {Dispatch} \cup DOMAIN jobs, Post(f), f = Dispatch \/ Out(f),
             UNCHANGED <<jobs, waiting>>, running' \subseteq running
      PROVE  jobs' = jobs /\ \A n \in DOMAIN jobs : Out(n)' => Out(n)
  <2>1. CASE posted' = posted
    BY <1>3, <2>1 DEF Out
  <2>2. CASE posted' = Append(posted, f)
    <3>1. /\ DOMAIN posted = 1..Len(posted) /\ Len(posted) \in Nat
          /\ DOMAIN posted' = 1..Len(posted) + 1
          /\ \A i \in 1..Len(posted) : posted'[i] = posted[i]
          /\ posted'[Len(posted) + 1] = f
      BY <1>0, <2>2, Appended
    <3>2. ASSUME NEW n \in DOMAIN jobs, Out(n)' PROVE Out(n)
      <4>1. CASE n = f
        BY <1>0, <1>3, <4>1
      <4>2. CASE n # f
        BY <1>3, <3>1, <3>2, <4>2 DEF Out
      <4> QED
        BY <4>1, <4>2
    <3> QED
      BY <1>3, <3>2
  <2> QED
    BY <1>3, <2>1, <2>2 DEF Post
<1>4. ASSUME NEW n \in 1..MaxSends, JobAnswer(n)
      PROVE  jobs' = jobs /\ \A m \in DOMAIN jobs : Out(m)' => Out(m)
  <2>1. Out(n) /\ n \in DOMAIN jobs
    BY <1>4 DEF JobAnswer, Out, TypeOK
  <2> QED
    BY <1>3, <1>4, <2>1 DEF JobAnswer
<1>5. CASE NetPost
  BY <1>3, <1>5 DEF NetPost, pool
<1>6. CASE Perform
  <2>1. /\ UNCHANGED <<jobs, waiting, running>>
        /\ DOMAIN posted = 1..Len(posted) /\ Len(posted) \in Nat \ {0}
        /\ DOMAIN posted' = 1..Len(posted) - 1
        /\ \A i \in 1..Len(posted) - 1 : posted'[i] = posted[i + 1]
    BY <1>0, <1>6, Tailed DEF Perform, pool
  <2> QED
    BY <2>1 DEF Out
<1>7. CASE DestroyRemove
  BY <1>7 DEF DestroyRemove, pool, Out
<1>8. ASSUME NEW x \in Xhrs, Open(x) \/ Abort(x) \/ Timeout(x) \/ Finalize(x) \/ Return(x)
      PROVE  jobs' = jobs /\ \A n \in DOMAIN jobs : Out(n)' => Out(n)
  BY <1>1, <1>8 DEF Open, Abort, Timeout, Finalize, Return, Only, pool
<1>9. ASSUME NEW n \in 1..MaxSends, JobEnd(n)
      PROVE  jobs' = jobs /\ \A m \in DOMAIN jobs : Out(m)' => Out(m)
  BY <1>1, <1>9 DEF JobEnd
<1>10. CASE SendQueued \/ NetStart \/ NetRespond \/ NetQuit \/ DestroyReset \/ DestroySentinel
  BY <1>1, <1>10 DEF SendQueued, NetStart, NetRespond, NetQuit, DestroyReset,
                     DestroySentinel, pool
<1>11. CASE UNCHANGED vars
  BY <1>1, <1>11 DEF vars, pool
<1> QED
  BY <1>2, <1>4, <1>5, <1>6, <1>7, <1>8, <1>9, <1>10, <1>11 DEF Next

\* The answer that is performed is not out any more.
LEMMA PerformedIsIn ==
  ASSUME IInv, Perform, Head(posted) # Dispatch
  PROVE  \E n \in DOMAIN jobs : n = Head(posted) /\ Out(n) /\ ~Out(n)'
<1>0. PICK n : n = Head(posted)
  OBVIOUS
<1>1. /\ posted \in Seq({Dispatch} \cup DOMAIN jobs) /\ posted # <<>>
      /\ posted' = Tail(posted) /\ UNCHANGED <<jobs, waiting, running>>
  BY DEF IInv, TypeOK, Perform, pool
<1>2. /\ DOMAIN posted = 1..Len(posted) /\ Len(posted) \in Nat \ {0}
      /\ DOMAIN posted' = 1..Len(posted) - 1 /\ n = posted[1]
      /\ \A i \in 1..Len(posted) - 1 : posted'[i] = posted[i + 1]
      /\ n \in {Dispatch} \cup DOMAIN jobs
  BY <1>0, <1>1, Tailed
<1>3. n # Dispatch
  BY <1>0
<1>4. \A i \in 1..Len(posted) - 1 : posted[i + 1] # n
  <2>1. ASSUME NEW i \in 1..Len(posted) - 1 PROVE posted[i + 1] # n
    <3>1. 1 \in DOMAIN posted /\ i + 1 \in DOMAIN posted /\ i + 1 # 1
      BY <1>2
    <3> QED
      BY <1>2, <1>3, <3>1 DEF IInv, Apart
  <2> QED
    BY <2>1
<1>5. (\A i \in DOMAIN waiting : waiting[i] # n) /\ n \notin running
  <2>1. 1 \in DOMAIN posted
    BY <1>2
  <2> QED
    BY <1>2, <2>1 DEF IInv, Apart
<1>6. ~Out(n)'
  <2>1. \A i \in DOMAIN posted' : posted'[i] # n
    BY <1>2, <1>4
  <2> QED
    BY <1>1, <1>5, <2>1 DEF Out
<1>7. Out(n)
  <2>1. 1 \in DOMAIN posted
    BY <1>2
  <2> QED
    BY <1>2, <2>1 DEF Out
<1> QED
  BY <1>0, <1>2, <1>3, <1>6, <1>7

\* Send puts one answer of its object out, and it serves the present opening.
LEMMA SendOut ==
  ASSUME IInv, NEW x \in Xhrs, NEW timeout \in BOOLEAN, Send(x, timeout)
  PROVE  LET n == Len(jobs) + 1 IN
         /\ Mine(x)' \subseteq Mine(x) \cup {n} /\ jobs'[n].open = xhr[x].opens
         /\ \A m \in Mine(x) : m # n /\ jobs'[m] = jobs[m]
         /\ \A y \in Xhrs \ {x} : /\ Mine(y)' \subseteq Mine(y)
                                  /\ \A m \in Mine(y) : jobs'[m] = jobs[m]
<1> DEFINE n == Len(jobs) + 1
           j == [of |-> x, open |-> xhr[x].opens]
<1>1. j \in [of : Xhrs, open : Nat] /\ j.of = x /\ j.open = xhr[x].opens
  BY HttpAssumption DEF HttpAssumption, IInv, TypeOK, Objects
<1>2. /\ jobs' = Append(jobs, j) /\ waiting' = Append(waiting, Len(jobs'))
      /\ UNCHANGED <<running, posted>>
  BY DEF Send
<1> HIDE DEF j
<1>3. /\ DOMAIN jobs = 1..Len(jobs) /\ Len(jobs) \in Nat /\ Len(jobs') = n
      /\ DOMAIN jobs' = 1..n /\ jobs'[n] = j
      /\ \A m \in 1..Len(jobs) : jobs'[m] = jobs[m]
  BY <1>1, <1>2, Appended DEF IInv, TypeOK
<1>4. waiting \in Seq(DOMAIN jobs')
  <2>1. DOMAIN jobs \subseteq DOMAIN jobs'
    BY <1>3
  <2> QED
    BY <2>1, SeqMonotonic DEF IInv, TypeOK
<1>5. n \in DOMAIN jobs'
  BY <1>3
<1> HIDE DEF n
<1>6. /\ DOMAIN waiting = 1..Len(waiting) /\ Len(waiting) \in Nat
      /\ DOMAIN waiting' = 1..Len(waiting) + 1 /\ waiting'[Len(waiting) + 1] = n
      /\ \A i \in 1..Len(waiting) : waiting'[i] = waiting[i]
  BY <1>2, <1>3, <1>4, <1>5, Appended
<1>7. \A m : Out(m)' /\ m # n => Out(m)
  BY <1>2, <1>6 DEF Out
<1>8. \A m \in DOMAIN jobs' : m # n => m \in DOMAIN jobs
  BY <1>3 DEF n
<1>9. \A y : \A m \in Mine(y) : m # n /\ jobs'[m] = jobs[m]
  BY <1>3 DEF Mine, n
<1>10. Mine(x)' \subseteq Mine(x) \cup {n}
  BY <1>3, <1>7, <1>8 DEF Mine
<1>11. \A y \in Xhrs \ {x} : Mine(y)' \subseteq Mine(y)
  BY <1>1, <1>3, <1>7, <1>8 DEF Mine
<1> QED
  BY <1>1, <1>3, <1>9, <1>10, <1>11 DEF n

\* An object that a step leaves alone, and none of whose answers it adds.
LEMMA Fewer ==
  ASSUME NEW y \in Xhrs, xhr'[y] = xhr[y], Mine(y)' \subseteq Mine(y),
         \A n \in Mine(y) : jobs'[n] = jobs[n],
         Rooted(xhr[y]), Properly(y), Uncut(y)
  PROVE  Rooted(xhr[y])' /\ Properly(y)' /\ Uncut(y)'
<1>1. Rooted(xhr[y])'
  BY DEF Rooted
<1>2. Properly(y)'
  BY DEF Properly
<1>3. Uncut(y)'
  BY DEF Uncut
<1> QED
  BY <1>1, <1>2, <1>3

\* The flags of an object are Booleans, and its invariant holds before a step.
LEMMA ObjectTypes ==
  ASSUME IInv, NEW x \in Xhrs
  PROVE  LET o == xhr[x] IN
         /\ TypeOK /\ o \in Objects /\ Rooted(o) /\ Properly(x) /\ Uncut(x)
         /\ o.sending \in BOOLEAN /\ o.timer \in BOOLEAN /\ o.callback \in BOOLEAN
         /\ o.misused \in BOOLEAN /\ o.cut \in BOOLEAN /\ o.early \in BOOLEAN
         /\ o.tangled \in BOOLEAN /\ o.stale \in BOOLEAN /\ o.dead \in BOOLEAN
         /\ o.roots \in Nat /\ o.ends \in Nat
         /\ o.in \in {"no", "abort", "timeout", "answer"}
<1>1. TypeOK /\ xhr[x] \in Objects /\ Rooted(xhr[x]) /\ Properly(x) /\ Uncut(x)
  BY DEF IInv, Objective, TypeOK
<1> QED
  BY <1>1 DEF Objects

LEMMA OpenObjects ==
  ASSUME IInv, NEW x \in Xhrs, Open(x), Mine(x)' \subseteq Mine(x)
  PROVE  Rooted(xhr[x])' /\ Properly(x)' /\ Uncut(x)'
<1>1. xhr'[x].misused = (xhr[x].misused \/ Mine(x) # {})
  BY ObjectTypes, OpenStep, OutstandingIsMine
<1>2. Rooted(xhr[x])'
  BY ObjectTypes, OpenStep DEF Rooted
<1>3. Properly(x)'
  <2>1. ASSUME ~xhr'[x].misused
        PROVE  Mine(x)' = {} /\ xhr'[x].ends <= 1
    BY <1>1, <2>1, ObjectTypes, OpenStep DEF Properly
  <2> QED
    BY <2>1 DEF Properly
<1>4. Uncut(x)'
  <2>1. ASSUME ~xhr'[x].cut, ~xhr'[x].early
        PROVE  Mine(x)' = {} /\ ~xhr'[x].stale
    BY <2>1, ObjectTypes, OpenStep DEF Uncut
  <2>2. xhr'[x].in = "abort" => xhr'[x].cut
    BY ObjectTypes, OpenStep DEF Uncut
  <2> QED
    BY <2>1, <2>2 DEF Uncut
<1> QED
  BY <1>2, <1>3, <1>4

LEMMA SendObjects ==
  ASSUME IInv, NEW x \in Xhrs, NEW timeout \in BOOLEAN, Send(x, timeout)
  PROVE  Rooted(xhr[x])' /\ Properly(x)' /\ Uncut(x)'
<1>1. PICK n : n = Len(jobs) + 1
  OBVIOUS
<1>2. /\ Mine(x)' \subseteq Mine(x) \cup {n} /\ jobs'[n].open = xhr[x].opens
      /\ \A m \in Mine(x) : m # n /\ jobs'[m] = jobs[m]
  BY <1>1, SendOut
<1>3. xhr'[x].misused = (xhr[x].misused \/ Mine(x) # {})
  BY ObjectTypes, SendStep, OutstandingIsMine
<1>4. Rooted(xhr[x])'
  <2>1. ASSUME ~xhr'[x].tangled
        PROVE  /\ xhr'[x].roots > 0 /\ ~xhr'[x].dead /\ xhr'[x].in # "abort"
               /\ xhr'[x].in = "answer" => xhr'[x].roots > 1
    <3>1. /\ xhr'[x].roots = xhr[x].roots + 1 /\ ~xhr[x].dead
          /\ xhr'[x].in = xhr[x].in /\ xhr'[x].dead = xhr[x].dead
      BY ObjectTypes, SendStep
    <3>2. xhr'[x].tangled = (xhr[x].tangled \/ xhr[x].in = "abort"
                               \/ (xhr[x].in = "answer" /\ xhr[x].roots = 0))
      BY ObjectTypes, SendStep
    <3>3. xhr[x].in # "abort" /\ ~(xhr[x].in = "answer" /\ xhr[x].roots = 0)
      BY Zenon, <2>1, <3>2
    <3> QED
      BY <3>1, <3>3, ObjectTypes
  <2> QED
    BY <2>1, SendStep, ObjectTypes DEF Rooted
<1>5. Properly(x)'
  <2>1. ASSUME ~xhr'[x].misused
        PROVE  Mine(x)' \subseteq {n} /\ xhr'[x].ends = 0
    <3>1. xhr'[x].ends = 0
      BY ObjectTypes, SendStep
    <3>2. Mine(x) = {}
      BY <1>3, <2>1
    <3> QED
      BY <1>2, <3>1, <3>2
  <2> QED
    BY <2>1 DEF Properly
<1>6. Uncut(x)'
  <2>1. ASSUME ~xhr'[x].cut, ~xhr'[x].early
        PROVE  /\ ~xhr'[x].stale /\ xhr'[x].ready # "UNSENT"
               /\ \A m \in Mine(x)' : jobs'[m].open = xhr'[x].opens
    <3>1. ~xhr[x].cut /\ ~xhr[x].early /\ xhr[x].ready # "UNSENT"
      BY <2>1, ObjectTypes, SendStep
    <3>2. ~xhr[x].stale /\ \A m \in Mine(x) : jobs[m].open = xhr[x].opens
      BY <3>1, ObjectTypes DEF Uncut
    <3>3. /\ xhr'[x].stale = xhr[x].stale /\ xhr'[x].ready = xhr[x].ready
          /\ xhr'[x].opens = xhr[x].opens
      BY ObjectTypes, SendStep
    <3> QED
      BY <1>2, <3>1, <3>2, <3>3
  <2>2. xhr'[x].in = "abort" => xhr'[x].cut
    BY ObjectTypes, SendStep DEF Uncut
  <2> QED
    BY <2>1, <2>2 DEF Uncut
<1> QED
  BY <1>4, <1>5, <1>6

LEMMA TimeoutObjects ==
  ASSUME IInv, NEW x \in Xhrs, Timeout(x), Mine(x)' \subseteq Mine(x), jobs' = jobs
  PROVE  Rooted(xhr[x])' /\ Properly(x)' /\ Uncut(x)'
<1>1. Rooted(xhr[x])'
  BY ObjectTypes, TimeoutStep DEF Rooted
<1>2. Properly(x)'
  BY ObjectTypes, TimeoutStep DEF Properly
<1>3. Uncut(x)'
  BY ObjectTypes, TimeoutStep DEF Uncut
<1> QED
  BY <1>1, <1>2, <1>3

LEMMA AbortObjects ==
  ASSUME IInv, NEW x \in Xhrs, Abort(x), Mine(x)' \subseteq Mine(x)
  PROVE  Rooted(xhr[x])' /\ Properly(x)' /\ Uncut(x)'
<1>1. Rooted(xhr[x])'
  BY ObjectTypes, AbortStep DEF Rooted
<1>2. Properly(x)'
  <2>1. ASSUME ~xhr'[x].misused
        PROVE  /\ xhr'[x].ends <= 1 /\ \A m, n \in Mine(x)' : m = n
               /\ xhr'[x].in = "abort" \/ ~xhr'[x].callback
    <3>1. ~xhr[x].misused /\ xhr[x].ends = 0
      <4>1. xhr'[x].misused = (xhr[x].misused \/ xhr[x].ends > 0)
        BY ObjectTypes, AbortStep
      <4>2. ~xhr[x].misused /\ ~(xhr[x].ends > 0)
        BY Zenon, <2>1, <4>1
      <4> QED
        BY <4>2, ObjectTypes
    <3> QED
      BY <3>1, ObjectTypes, AbortStep DEF Properly
  <2> QED
    BY <2>1 DEF Properly
<1>3. Uncut(x)'
  BY ObjectTypes, AbortStep DEF Uncut
<1> QED
  BY <1>1, <1>2, <1>3

LEMMA ReturnObjects ==
  ASSUME IInv, NEW x \in Xhrs, Return(x), Mine(x)' \subseteq Mine(x), jobs' = jobs
  PROVE  Rooted(xhr[x])' /\ Properly(x)' /\ Uncut(x)'
<1>1. Rooted(xhr[x])'
  <2>1. ASSUME ~xhr'[x].tangled, xhr'[x].sending
        PROVE  xhr'[x].roots > 0 /\ ~xhr'[x].dead
    BY <2>1, ObjectTypes, ReturnStep DEF Rooted
  <2>2. xhr'[x].timer => xhr'[x].sending
    BY ObjectTypes, ReturnStep DEF Rooted
  <2>3. xhr'[x].in = "no"
    BY ObjectTypes, ReturnStep
  <2> QED
    BY <2>1, <2>2, <2>3 DEF Rooted
<1>2. Properly(x)'
  <2>1. ASSUME ~xhr'[x].misused
        PROVE  /\ xhr'[x].ends <= 1 /\ \A m, n \in Mine(x)' : m = n
               /\ Mine(x)' # {} /\ xhr'[x].callback => xhr'[x].ends = 0
    BY <2>1, ObjectTypes, ReturnStep DEF Properly
  <2> QED
    BY <2>1 DEF Properly
<1>3. Uncut(x)'
  <2>1. ASSUME ~xhr'[x].cut, ~xhr'[x].early
        PROVE  /\ ~xhr'[x].stale /\ \A n \in Mine(x)' : jobs[n].open = xhr'[x].opens
               /\ xhr'[x].ready = "UNSENT" => Mine(x)' = {}
    <3>1. xhr[x].in = "answer" /\ ~xhr[x].cut /\ ~xhr[x].early
      BY <2>1, ObjectTypes, ReturnStep DEF Uncut
    <3> QED
      BY <3>1, ObjectTypes, ReturnStep DEF Uncut
  <2>2. xhr'[x].in # "abort"
    BY ObjectTypes, ReturnStep
  <2> QED
    BY <2>1, <2>2 DEF Uncut
<1> QED
  BY <1>1, <1>2, <1>3

LEMMA FinalizeObjects ==
  ASSUME IInv, NEW x \in Xhrs, Finalize(x), Mine(x)' \subseteq Mine(x), jobs' = jobs
  PROVE  Rooted(xhr[x])' /\ Properly(x)' /\ Uncut(x)'
<1>1. LET o == xhr[x]
          p == xhr'[x] IN
      /\ p.ends = o.ends /\ p.roots = o.roots /\ p.ready = o.ready
      /\ p.sending = o.sending /\ p.in = o.in
      /\ ~p.timer /\ ~p.callback /\ p.cut = o.cut /\ p.opens = o.opens
      /\ p.misused = o.misused /\ p.early = o.early /\ p.tangled = o.tangled
      /\ p.stale = o.stale /\ o.roots = 0
  BY ObjectTypes, FinalizeStep, DestructFields
<1>2. Rooted(xhr[x])'
  BY <1>1, ObjectTypes DEF Rooted
<1>3. Properly(x)'
  BY <1>1, ObjectTypes DEF Properly
<1>4. Uncut(x)'
  BY <1>1, ObjectTypes DEF Uncut
<1> QED
  BY <1>2, <1>3, <1>4

\* The object hears the answer n: it was one of its own and is the last.
LEMMA HeardObjects ==
  ASSUME IInv, NEW x \in Xhrs, NEW n \in Mine(x), NEW ok \in BOOLEAN, xhr[x].callback,
         xhr[x].in = "no", xhr'[x] = Heard(xhr[x], n, ok),
         Mine(x)' \subseteq Mine(x) \ {n}, jobs' = jobs
  PROVE  Rooted(xhr[x])' /\ Properly(x)' /\ Uncut(x)'
<1>1. LET o == xhr[x]
          p == xhr'[x] IN
      /\ ~p.timer /\ ~p.sending
      /\ p.roots = o.roots /\ p.callback = o.callback /\ p.opens = o.opens
      /\ p.misused = o.misused /\ p.cut = o.cut /\ p.early = o.early
      /\ p.tangled = o.tangled /\ p.dead = o.dead
  <2>1. PICK o \in Objects : o = xhr[x]
    BY ObjectTypes
  <2>2. PICK p : p = Heard(o, n, ok)
    OBVIOUS
  <2>3. ~p.timer
    BY <2>2, HeardFields
  <2>4. ~p.sending
    BY <2>2, HeardFields
  <2>5. p.roots = o.roots
    BY <2>2, HeardFields
  <2>6. p.callback = o.callback
    BY <2>2, HeardFields
  <2>7. p.opens = o.opens
    BY <2>2, HeardFields
  <2>8. p.misused = o.misused
    BY <2>2, HeardFields
  <2>9. p.cut = o.cut
    BY <2>2, HeardFields
  <2>10. p.early = o.early
    BY <2>2, HeardFields
  <2>11. p.tangled = o.tangled
    BY <2>2, HeardFields
  <2>12. p.dead = o.dead
    BY <2>2, HeardFields
  <2> QED
    BY <2>1, <2>2, <2>3, <2>4, <2>5, <2>6, <2>7, <2>8, <2>9, <2>10, <2>11, <2>12
<1>2. LET o == xhr[x]
          p == xhr'[x] IN
      /\ \/ p.in = o.in /\ p.ends = o.ends
         \/ p.in = "answer" /\ p.ends = o.ends + 1
      /\ p.ready = "UNSENT" => o.ready = "UNSENT"
      /\ p.stale => o.stale \/ jobs[n].open # o.opens
  BY ObjectTypes, HeardFields
<1>3. Rooted(xhr[x])'
  BY <1>1, <1>2, ObjectTypes DEF Rooted
<1>4. Properly(x)'
  <2>1. ASSUME ~xhr'[x].misused
        PROVE  Mine(x)' = {} /\ xhr'[x].ends <= 1
    BY <1>1, <1>2, <2>1, ObjectTypes DEF Properly
  <2> QED
    BY <2>1 DEF Properly
<1>5. Uncut(x)'
  <2>1. ASSUME ~xhr'[x].cut, ~xhr'[x].early
        PROVE  /\ ~xhr'[x].stale /\ xhr'[x].ready # "UNSENT"
               /\ \A m \in Mine(x)' : jobs'[m].open = xhr'[x].opens
    BY <1>1, <1>2, <2>1, ObjectTypes DEF Uncut
  <2>2. xhr'[x].in # "abort"
    BY <1>2
  <2> QED
    BY <2>1, <2>2 DEF Uncut
<1> QED
  BY <1>3, <1>4, <1>5

LEMMA TimerRemoved ==
  ASSUME NEW o \in Objects, NEW p, p = [o EXCEPT !.timer = FALSE]
  PROVE  /\ p.ends = o.ends /\ p.roots = o.roots /\ p.ready = o.ready
         /\ p.sending = o.sending /\ p.in = o.in
         /\ ~p.timer /\ p.callback = o.callback /\ p.cut = o.cut /\ p.opens = o.opens
         /\ p.misused = o.misused /\ p.early = o.early /\ p.tangled = o.tangled
         /\ p.stale = o.stale /\ p.dead = o.dead
BY DEF Objects

LEMMA ObjectiveStep ==
  ASSUME IInv, [Next]_vars
  PROVE  Objective'
<1>0. /\ TypeOK /\ Objective /\ \A y \in Xhrs : Rooted(xhr[y]) /\ Properly(y) /\ Uncut(y)
  BY DEF IInv, Objective
<1>1. ASSUME NEW x \in Xhrs, NEW timeout \in BOOLEAN, Send(x, timeout)
      PROVE  Objective'
  <2>1. ASSUME NEW y \in Xhrs \ {x}
        PROVE  Rooted(xhr[y])' /\ Properly(y)' /\ Uncut(y)'
    <3>1. xhr'[y] = xhr[y]
      BY <1>0, <1>1, SendStep DEF Others
    <3>2. Mine(y)' \subseteq Mine(y) /\ \A m \in Mine(y) : jobs'[m] = jobs[m]
      BY <1>1, SendOut
    <3> QED
      BY <1>0, <3>1, <3>2, Fewer
  <2>2. Rooted(xhr[x])' /\ Properly(x)' /\ Uncut(x)'
    BY <1>1, SendObjects
  <2> QED
    BY <2>1, <2>2 DEF Objective
<1>2. CASE \A x \in Xhrs, timeout \in BOOLEAN : ~Send(x, timeout)
  <2>1. jobs' = jobs /\ \A n \in DOMAIN jobs : Out(n)' => Out(n)
    BY <1>2, OutStep
  <2>2. \A y \in Xhrs : Mine(y)' \subseteq Mine(y)
    BY <2>1 DEF Mine
  <2>3. ASSUME NEW y \in Xhrs, xhr'[y] = xhr[y]
        PROVE  Rooted(xhr[y])' /\ Properly(y)' /\ Uncut(y)'
    BY <1>0, <2>1, <2>2, <2>3, Fewer
  <2>4. ASSUME xhr' = xhr PROVE Objective'
    BY <2>3, <2>4 DEF Objective
  <2>5. ASSUME NEW x \in Xhrs, Open(x) \/ Abort(x) \/ Timeout(x) \/ Finalize(x) \/ Return(x)
        PROVE  Objective'
    <3>1. Others(x)
      BY <1>0, <2>5, OpenStep, AbortStep, TimeoutStep, FinalizeStep, ReturnStep
    <3>2. Rooted(xhr[x])' /\ Properly(x)' /\ Uncut(x)'
      BY <2>1, <2>2, <2>5, OpenObjects, AbortObjects, TimeoutObjects, FinalizeObjects,
         ReturnObjects
    <3> QED
      BY <2>3, <3>1, <3>2 DEF Objective, Others
  <2>6. CASE Perform /\ Head(posted) = Dispatch
    <3>1. xhr' = xhr
      BY <2>6 DEF Perform
    <3> QED
      BY <2>4, <3>1
  <2>7. CASE Perform /\ Head(posted) # Dispatch
    <3>1. PICK n \in DOMAIN jobs : n = Head(posted) /\ Out(n) /\ ~Out(n)'
      BY <2>7, PerformedIsIn
    <3>2. PICK x \in Xhrs : x = jobs[n].of
      BY <1>0, <2>7, <3>1, AnswerStep
    <3>3. /\ Others(x)
          /\ IF xhr[x].callback
               THEN \E ok \in BOOLEAN : xhr'[x] = Heard(xhr[x], n, ok)
               ELSE xhr' = xhr
      BY <1>0, <2>7, <3>1, <3>2, AnswerStep
    <3>4. n \in Mine(x) /\ n \notin Mine(x)'
      BY <3>1, <3>2 DEF Mine
    <3>5. CASE xhr[x].callback
      <4>1. Mine(x)' \subseteq Mine(x) \ {n}
        BY <2>2, <3>4
      <4>2. Rooted(xhr[x])' /\ Properly(x)' /\ Uncut(x)'
        <5>1. xhr[x].in = "no"
          BY <2>7, <3>2 DEF Perform, Idle
        <5> QED
          BY <2>1, <3>3, <3>4, <3>5, <4>1, <5>1, HeardObjects
      <4> QED
        BY <2>3, <3>3, <4>2 DEF Objective, Others
    <3>6. CASE ~xhr[x].callback
      BY <2>4, <3>3, <3>6
    <3> QED
      BY <3>5, <3>6
  <2>8. CASE DestroyRemove
    <3>1. \A y \in Xhrs : xhr'[y] = [xhr[y] EXCEPT !.timer = FALSE]
      BY <2>8 DEF DestroyRemove
    <3>2. ASSUME NEW y \in Xhrs
          PROVE  Rooted(xhr[y])' /\ Properly(y)' /\ Uncut(y)'
      <4>1. LET o == xhr[y]
                p == xhr'[y] IN
            /\ p.ends = o.ends /\ p.roots = o.roots /\ p.ready = o.ready
            /\ p.sending = o.sending /\ p.in = o.in
            /\ ~p.timer /\ p.callback = o.callback /\ p.cut = o.cut /\ p.opens = o.opens
            /\ p.misused = o.misused /\ p.early = o.early /\ p.tangled = o.tangled
            /\ p.stale = o.stale /\ p.dead = o.dead
        <5>1. xhr[y] \in Objects
          BY <1>0 DEF TypeOK
        <5> QED
          BY <3>1, <5>1, TimerRemoved
      <4>2. Rooted(xhr[y])'
        BY <1>0, <4>1 DEF Rooted
      <4>3. Properly(y)'
        BY <1>0, <2>2, <4>1 DEF Properly
      <4>4. Uncut(y)'
        BY <1>0, <2>1, <2>2, <4>1 DEF Uncut
      <4> QED
        BY <4>2, <4>3, <4>4
    <3> QED
      BY <3>2 DEF Objective
  <2>9. ASSUME NEW n \in 1..MaxSends, JobAnswer(n) \/ JobEnd(n)
        PROVE  Objective'
    BY <2>4, <2>9 DEF JobAnswer, JobEnd
  <2>10. CASE JobStart \/ SendQueued \/ NetStart \/ NetRespond \/ NetPost \/ NetQuit
              \/ DestroyReset \/ DestroySentinel \/ UNCHANGED vars
    BY <2>4, <2>10 DEF JobStart, SendQueued, NetStart, NetRespond, NetPost, NetQuit,
                       DestroyReset, DestroySentinel, vars
  <2> QED
    BY <1>2, <2>5, <2>6, <2>7, <2>8, <2>9, <2>10 DEF Next
<1> QED
  BY <1>1, <1>2

-----------------------------------------------------------------------------
(* The theorems                                                            *)

LEMMA InitInv == Init => IInv
<1> SUFFICES ASSUME Init PROVE IInv
  OBVIOUS
<1>1. TypeOK
  BY InitType
<1>2. DOMAIN waiting = {} /\ DOMAIN posted = {} /\ DOMAIN jobs = {}
      /\ DOMAIN answered = {} /\ DOMAIN responses = {} /\ DOMAIN requests = {}
      /\ Len(answered) = 0 /\ Len(responses) = 0 /\ Len(requests) = 0
  BY DEF Init
<1>3. Apart
  BY <1>2 DEF Init, Apart
<1>4. Counts
  BY FS_EmptySet DEF Init, Counts, Users
<1>5. Consecutive
  BY <1>2 DEF Init, Consecutive
<1>6. OneEach
  <2>1. Places(posted, Dispatch) = {}
    BY <1>2 DEF Places
  <2> QED
    BY <1>2, <2>1, FS_EmptySet DEF Init, OneEach
<1>7. ASSUME NEW x \in Xhrs PROVE Rooted(xhr[x]) /\ Properly(x) /\ Uncut(x)
  <2>1. xhr[x] = NewXhr /\ Mine(x) = {}
    BY <1>2 DEF Init, Mine
  <2> QED
    BY <2>1 DEF NewXhr, Rooted, Properly, Uncut
<1> QED
  BY <1>1, <1>3, <1>4, <1>5, <1>6, <1>7 DEF IInv, Objective

THEOREM Inductive == Spec => []IInv
<1>1. IInv /\ [Next]_vars => IInv'
  BY TypeStep, ApartStep, CountsStep, ConsecutiveStep, OneEachStep, ObjectiveStep DEF IInv
<1> QED
  BY <1>1, InitInv, PTL DEF Spec

\* The variables keep their types, and the count of the client's users is the
\* number of those who use it: no job and no network thread that has started
\* works on a deleted client (decreaseThreadCountAndMayDeleteThis).
THEOREM UsersAreCounted == Spec => []CountsUsers
<1>1. IInv => CountsUsers
  <2> SUFFICES ASSUME IInv PROVE CountsUsers
    OBVIOUS
  <2>1. TypeOK /\ count = Users /\ (deleted <=> count = 0)
        /\ (engine = "down" => posted = <<>>)
    BY DEF IInv, Counts
  <2>2. deleted => running \cup ending = {} /\ net \notin {"idle", "responded"}
    <3>1. count = 0 => running \cup ending = {} /\ net \notin {"idle", "responded"}
      BY <2>1, Shares DEF IInv
    <3> QED
      BY <2>1, <3>1
  <2> QED
    BY <2>1, <2>2 DEF CountsUsers
<1> QED
  BY <1>1, Inductive, PTL

\* The requests given to send are answered in that order, and each response has
\* one dispatch that takes it (networkThread, dispatchResponseCallbacks).
THEOREM InOrder == Spec => []AnsweredInOrder
<1>1. IInv => AnsweredInOrder
  BY DEF IInv, Consecutive, OneEach, AnsweredInOrder, Places
<1> QED
  BY <1>1, Inductive, PTL

\* A script that neither opens nor sends an object anew before its answer is in,
\* nor aborts what is over, is told of an end once, and an answer is taken for that
\* of another opening only after a timeout, an abort or a send without open
\* (onResponse, abort, the timer), whatever it calls from inside its callbacks.
THEOREM EndIsHeardOnce == Spec => []HeardOnce
<1>1. IInv => HeardOnce
  <2> SUFFICES ASSUME IInv, NEW x \in Xhrs
               PROVE  /\ xhr[x].ends > 1 => xhr[x].misused
                      /\ xhr[x].stale => xhr[x].cut \/ xhr[x].early
    BY DEF HeardOnce
  <2>1. Properly(x) /\ Uncut(x) /\ xhr[x] \in Objects
    BY DEF IInv, Objective, TypeOK
  <2>2. xhr[x].ends \in Nat /\ xhr[x].misused \in BOOLEAN
    BY <2>1 DEF Objects
  <2>3. xhr[x].ends > 1 => xhr[x].misused
    BY <2>1, <2>2 DEF Properly
  <2>4. xhr[x].stale => xhr[x].cut \/ xhr[x].early
    BY <2>1 DEF Uncut
  <2> QED
    BY <2>3, <2>4
<1> QED
  BY <1>1, Inductive, PTL

\* An object that awaits an answer is rooted and not destroyed, though it was sent
\* from inside the callbacks of the answer before, unless its callbacks are tangled
\* with an abort; and a timer is only set while it awaits one (sendRequest,
\* onloadend).
THEOREM ObjectsAreKept == Spec => []KeptAlive
<1>1. IInv => KeptAlive
  BY DEF IInv, Objective, Rooted, KeptAlive
<1> QED
  BY <1>1, Inductive, PTL
=============================================================================

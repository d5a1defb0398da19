------------------------- MODULE MessageQueueProofs -------------------------
(***************************************************************************)
(* Proofs about MessageQueue, for every chunk size and every bound on the  *)
(* number of messages.  The inductive invariant relates the writer's       *)
(* counters, the reader's counters, the links in memory, the history of    *)
(* executed messages and the place of the two threads.  The last part      *)
(* proves that a client of the queue sees what OrderedDelivery promises.   *)
(***************************************************************************)
EXTENDS MessageQueue, TLAPS, FiniteSetTheorems, SequenceTheorems

Notifying == {"notify", "notifyWait", "notifyTerm", "notifyDestroy"}

\* Address a lies before address b.
Before(a, b) == a[1] < b[1] \/ (a[1] = b[1] /\ a[2] < b[2])

\* The messages of s lie at increasing addresses, each links to the next one and
\* the last one to free space <<w, o>>; a switch message links into a later chunk.
WellFormed(s, w, o) ==
  /\ s \in Seq(Message) /\ Len(s) > 0 /\ w \in Nat /\ o \in Nat
  /\ \A i \in 1 .. Len(s) - 1 : s[i].next = s[i + 1].at
  /\ s[Len(s)].next = <<w, o>>
  /\ \A i, j \in 1 .. Len(s) : i < j => Before(s[i].at, s[j].at)
  /\ \A i \in 1 .. Len(s) : Before(s[i].at, <<w, o>>)
  /\ \A i \in 1 .. Len(s) : s[i].kind = "Switch" => s[i].at[1] < s[i].next[1]

Layout == WellFormed(log, wchunk, offset) /\ log[Len(log)].kind # "Switch"

\* The reader's counters stay behind the published count, the published count
\* behind the allocated one.
Counts ==
  /\ pos + newCount = snap /\ snap <= written
  /\ written + pending = Len(log)

\* What has been executed, in terms of the reader's position
History ==
  /\ Len(done) = IF cpc = "exec" THEN pos - 1 ELSE pos
  /\ ExecutedInOrder

\* In immediate mode there is no thread and the reader has caught up.
Immediate ==
  immediate => cpc = "none" /\ pos = Len(log) /\ newCount = 0 /\ pending = 0

\* The mutex is held between the pull and the wait, and whoever publishes in
\* that time, or while the consumer sleeps, has still to notify.
Wakeup ==
  /\ locked <=> cpc = "locked"
  /\ cpc \in {"locked", "waiting"} /\ written > snap => ppc \in Notifying

\* A message that signals a waiting call is the last one until that call
\* returns, and the semaphore is up only after its execution.
Signalling ==
  /\ ppc \in Waiting => pending = 0
  /\ \A i \in 1 .. Len(log) :
       log[i].kind \in Signals /\ i > Len(done) => i = Len(log) /\ ppc \in Waiting
  /\ event > 0 /\ ppc \in Waiting => Len(done) = Len(log)

\* Freed chunks lie behind the reader; so do stashed ones, except the one a
\* switch message under the reader has just left.
ChunksBehind ==
  ppc # "gone" =>
    /\ \A c \in freed : c < log[pos].at[1]
    /\ \A c \in recycled :
         c < log[pos].at[1] \/ (log[pos].kind = "Switch" /\ c = log[pos].at[1])

Gone == ppc = "gone" => cpc = "none"

IInv ==
  /\ TypeOK /\ Layout /\ Counts /\ History /\ Immediate
  /\ Wakeup /\ Signalling /\ ChunksBehind /\ Gone

-----------------------------------------------------------------------------
(* What the two ways to allocate do to the messages in memory *)

LEMMA MsgType ==
  ASSUME NEW kind \in Kind, NEW c \in Nat, NEW o \in Nat
  PROVE  Msg(kind, c, o) \in Message
BY DEF Msg, Message, Address

LEMMA LogFields ==
  ASSUME TypeOK
  PROVE  \A i \in 1 .. Len(log) :
           log[i] \in Message /\ log[i].at \in Nat \X Nat /\ log[i].next \in Nat \X Nat
<1>1. \A i \in 1 .. Len(log) : log[i] \in Message
  BY DEF TypeOK
<1>2. \A m \in Message : m.at \in Address /\ m.next \in Address
  BY DEF Message
<1> QED BY <1>1, <1>2 DEF Address

LEMMA AppendWellFormed ==
  ASSUME NEW s, NEW w, NEW o, WellFormed(s, w, o),
         NEW m \in Message, NEW w2 \in Nat, NEW o2 \in Nat,
         m.at = <<w, o>>, m.next = <<w2, o2>>, Before(<<w, o>>, <<w2, o2>>),
         m.kind = "Switch" => w < w2
  PROVE  WellFormed(Append(s, m), w2, o2)
<1> DEFINE t == Append(s, m)
           n == Len(s)
<1>1. n \in Nat /\ n > 0 /\ w \in Nat /\ o \in Nat
  BY DEF WellFormed
<1>2. /\ t \in Seq(Message) /\ Len(t) = n + 1 /\ t[n + 1] = m
      /\ \A i \in 1 .. n : t[i] = s[i]
  BY DEF WellFormed
<1>3. \A i \in 1 .. n : s[i].at \in Nat \X Nat
  <2>1. \A i \in 1 .. n : s[i] \in Message
    BY DEF WellFormed
  <2> QED BY <2>1 DEF Message, Address
<1> HIDE DEF t
<1>4. ASSUME NEW i \in 1 .. n PROVE t[i].next = t[i + 1].at
  <2>1. CASE i < n
    BY SMTT(20), <2>1, <1>1, <1>2 DEF WellFormed
  <2>2. CASE i = n
    BY <2>2, <1>1, <1>2 DEF WellFormed
  <2> QED BY <2>1, <2>2, <1>1
<1>5. ASSUME NEW i \in 1 .. n PROVE Before(t[i].at, <<w, o>>)
  BY <1>1, <1>2 DEF WellFormed
<1>6. ASSUME NEW i \in 1 .. n + 1 PROVE Before(t[i].at, <<w2, o2>>)
  <2>1. CASE i = n + 1
    BY <2>1, <1>2
  <2>2. CASE i # n + 1
    <3>1. i \in 1 .. n
      BY <2>2, <1>1
    <3>2. Before(t[i].at, <<w, o>>) /\ t[i].at \in Nat \X Nat
      BY <3>1, <1>2, <1>3, <1>5
    <3> QED BY <3>2, <1>1 DEF Before
  <2> QED BY <2>1, <2>2
<1>7. ASSUME NEW i \in 1 .. n + 1, NEW j \in 1 .. n + 1, i < j
      PROVE  Before(t[i].at, t[j].at)
  <2>1. CASE j = n + 1
    <3>1. i \in 1 .. n /\ t[j].at = <<w, o>>
      BY <2>1, <1>7, <1>1, <1>2
    <3> QED BY <3>1, <1>5
  <2>2. CASE j # n + 1
    <3>1. i \in 1 .. n /\ j \in 1 .. n
      BY <2>2, <1>7, <1>1
    <3> QED BY <3>1, <1>7, <1>2 DEF WellFormed
  <2> QED BY <2>1, <2>2
<1>8. ASSUME NEW i \in 1 .. n + 1, t[i].kind = "Switch"
      PROVE  t[i].at[1] < t[i].next[1]
  <2>1. CASE i = n + 1
    BY <2>1, <1>8, <1>1, <1>2
  <2>2. CASE i # n + 1
    <3>1. i \in 1 .. n
      BY <2>2, <1>1
    <3> QED BY <3>1, <1>8, <1>2 DEF WellFormed
  <2> QED BY <2>1, <2>2
<1>9. t[n + 1].next = <<w2, o2>>
  BY <1>2
<1>10. \A i, j \in 1 .. Len(t) : i < j => Before(t[i].at, t[j].at)
  BY <1>2, <1>7
<1>11. \A i \in 1 .. Len(t) - 1 : t[i].next = t[i + 1].at
  BY <1>1, <1>2, <1>4
<1>12. \A i \in 1 .. Len(t) : Before(t[i].at, <<w2, o2>>)
  BY <1>2, <1>6
<1>13. \A i \in 1 .. Len(t) : t[i].kind = "Switch" => t[i].at[1] < t[i].next[1]
  BY <1>2, <1>8
<1>14. t \in Seq(Message) /\ Len(t) > 0 /\ t[Len(t)].next = <<w2, o2>>
  BY <1>1, <1>2, <1>9
<1>15. WellFormed(t, w2, o2)
  BY <1>10, <1>11, <1>12, <1>13, <1>14 DEF WellFormed
<1> QED BY <1>15 DEF t

\* The switch out of the current chunk and the dummy head of the next one
LEMMA SwitchWellFormed ==
  ASSUME WellFormed(log, wchunk, offset)
  PROVE  WellFormed(Append(log, SwitchMsg), wchunk + 1, 0)
<1>1. wchunk \in Nat /\ offset \in Nat /\ wchunk + 1 \in Nat
  BY DEF WellFormed
<1>2. SwitchMsg \in Message
  BY <1>1 DEF SwitchMsg, Message, Address, Kind
<1>3. Before(<<wchunk, offset>>, <<wchunk + 1, 0>>)
  BY <1>1 DEF Before
<1>4. /\ SwitchMsg.at = <<wchunk, offset>> /\ SwitchMsg.next = <<wchunk + 1, 0>>
      /\ wchunk < wchunk + 1
  BY <1>1 DEF SwitchMsg
<1> QED BY <1>1, <1>2, <1>3, <1>4, AppendWellFormed

LEMMA AllocateLayout ==
  ASSUME Layout, NEW kind \in Kind, kind # "Switch", Allocate(kind)
  PROVE  /\ Layout'
         /\ Len(log') \in {Len(log) + 1, Len(log) + 3}
         /\ \A i \in 1 .. Len(log) : log'[i] = log[i]
         /\ \A i \in Len(log) + 1 .. Len(log') - 1 : log'[i].kind \in {"Dummy", "Switch"}
<1> DEFINE n == Len(log)
<1>0. log \in Seq(Message) /\ wchunk \in Nat /\ offset \in Nat /\ n \in Nat
  BY DEF Layout, WellFormed
<1>1. CASE Fits
  <2> DEFINE m == Msg(kind, wchunk, offset)
  <2>1. m \in Message /\ m.at = <<wchunk, offset>> /\ m.next = <<wchunk, offset + 1>> /\ m.kind = kind
    BY <1>0, MsgType DEF Msg
  <2>2. /\ log' = Append(log, m) /\ offset' = offset + 1 /\ wchunk' = wchunk
    BY <1>1 DEF Allocate
  <2>3. Before(<<wchunk, offset>>, <<wchunk, offset + 1>>)
    BY <1>0 DEF Before
  <2> HIDE DEF m
  <2>4. WellFormed(Append(log, m), wchunk, offset + 1)
    BY <1>0, <2>1, <2>3, AppendWellFormed DEF Layout
  <2>5. Len(log') = n + 1 /\ log'[n + 1] = m /\ \A i \in 1 .. n : log'[i] = log[i]
    BY <1>0, <2>1, <2>2
  <2> QED BY <1>0, <2>1, <2>2, <2>4, <2>5 DEF Layout
<1>2. CASE ~Fits
  <2> DEFINE h == Msg("Dummy", wchunk + 1, 0)
             m == Msg(kind, wchunk + 1, 1)
             s1 == Append(log, SwitchMsg)
             s2 == Append(s1, h)
             s3 == Append(s2, m)
  <2>1. log' = s3 /\ offset' = 2 /\ wchunk' = wchunk + 1
    BY <1>2 DEF Allocate
  <2>2. /\ h \in Message /\ h.at = <<wchunk + 1, 0>> /\ h.next = <<wchunk + 1, 1>> /\ h.kind = "Dummy"
        /\ m \in Message /\ m.at = <<wchunk + 1, 1>> /\ m.next = <<wchunk + 1, 2>> /\ m.kind = kind
    <3>1. "Dummy" \in Kind /\ wchunk + 1 \in Nat
      BY <1>0 DEF Kind
    <3> QED BY <3>1, MsgType DEF Msg
  <2>3. /\ Before(<<wchunk + 1, 0>>, <<wchunk + 1, 1>>)
        /\ Before(<<wchunk + 1, 1>>, <<wchunk + 1, 2>>)
    BY <1>0 DEF Before
  <2>4. SwitchMsg.kind = "Switch"
    BY DEF SwitchMsg
  <2> HIDE DEF h, m
  <2>5. WellFormed(s1, wchunk + 1, 0)
    BY SwitchWellFormed DEF Layout
  <2> HIDE DEF s1
  <2>6. WellFormed(s2, wchunk + 1, 1)
    BY <1>0, <2>2, <2>3, <2>5, AppendWellFormed
  <2> HIDE DEF s2
  <2>7. WellFormed(s3, wchunk + 1, 2)
    BY <1>0, <2>2, <2>3, <2>6, AppendWellFormed
  <2> USE DEF s1, s2
  <2>8. /\ Len(s3) = n + 3 /\ s3[n + 1] = SwitchMsg /\ s3[n + 2] = h /\ s3[n + 3] = m
        /\ \A i \in 1 .. n : s3[i] = log[i]
    BY <1>0, <2>2
  <2> HIDE DEF s1, s2, s3
  <2>9. \A i \in n + 1 .. (n + 3) - 1 : i = n + 1 \/ i = n + 2
    BY <1>0
  <2> QED BY <1>0, <2>1, <2>2, <2>4, <2>7, <2>8, <2>9 DEF Layout
<1> QED BY <1>1, <1>2

LEMMA PlaceDataLayout ==
  ASSUME Layout, PlaceData
  PROVE  /\ Layout'
         /\ \/ wchunk' = wchunk /\ Len(log') = Len(log)
            \/ /\ wchunk' = wchunk + 1 /\ Len(log') = Len(log) + 2
               /\ log'[Len(log) + 1].kind = "Switch"
               /\ log'[Len(log) + 2].kind = "Dummy"
               /\ log'[Len(log) + 2].at[1] = wchunk + 1
         /\ \A i \in 1 .. Len(log) : log'[i].at = log[i].at /\ log'[i].kind = log[i].kind
<1> DEFINE n == Len(log)
<1>0. log \in Seq(Message) /\ wchunk \in Nat /\ offset \in Nat /\ n \in Nat /\ n > 0
  BY DEF Layout, WellFormed
<1>1. CASE Fits
  <2>1. /\ log' = [log EXCEPT ![n].next = <<wchunk, offset + 1>>]
        /\ offset' = offset + 1 /\ wchunk' = wchunk
    BY <1>1 DEF PlaceData, LinkMoved
  <2>2. log[n] \in Message /\ <<wchunk, offset + 1>> \in Address
    BY <1>0 DEF Address
  <2>3. /\ log' \in Seq(Message) /\ Len(log') = n
        /\ \A i \in 1 .. n : i # n => log'[i] = log[i]
        /\ log'[n].at = log[n].at /\ log'[n].kind = log[n].kind
        /\ log'[n].next = <<wchunk, offset + 1>>
    <3> DEFINE r == [log[n] EXCEPT !.next = <<wchunk, offset + 1>>]
    <3>1. r \in Message /\ r.at = log[n].at /\ r.kind = log[n].kind /\ r.next = <<wchunk, offset + 1>>
      BY <2>2 DEF Message
    <3>2. log' = [log EXCEPT ![n] = r]
      BY <2>1
    <3> HIDE DEF r
    <3> QED BY <1>0, <3>1, <3>2
  <2>4. \A i \in 1 .. n : log'[i].at = log[i].at /\ log'[i].kind = log[i].kind
    BY <2>3
  <2>5. ASSUME NEW i \in 1 .. n - 1 PROVE log'[i].next = log'[i + 1].at
    <3>1. i \in 1 .. n /\ i + 1 \in 1 .. n /\ i # n
      BY <1>0
    <3>2. log'[i].next = log[i].next /\ log'[i + 1].at = log[i + 1].at
      BY <3>1, <2>3, <2>4
    <3> QED BY <3>2 DEF Layout, WellFormed
  <2>6. ASSUME NEW i \in 1 .. n PROVE Before(log'[i].at, <<wchunk, offset + 1>>)
    <3>1. log[i].at \in Nat \X Nat
      <4>1. log[i] \in Message
        BY <1>0
      <4> QED BY <4>1 DEF Message, Address
    <3>2. Before(log[i].at, <<wchunk, offset>>)
      BY DEF Layout, WellFormed
    <3> QED BY <3>1, <3>2, <1>0, <2>4 DEF Before
  <2>7. ASSUME NEW i \in 1 .. n, NEW j \in 1 .. n, i < j PROVE Before(log'[i].at, log'[j].at)
    BY <2>4, <2>7 DEF Layout, WellFormed
  <2>8. ASSUME NEW i \in 1 .. n, log'[i].kind = "Switch" PROVE log'[i].at[1] < log'[i].next[1]
    <3>1. i # n
      BY <2>8, <2>3 DEF Layout
    <3> QED BY <3>1, <2>3, <2>8 DEF Layout, WellFormed
  <2>9. log'[n].kind # "Switch"
    BY <2>3 DEF Layout
  <2>10. WellFormed(log', wchunk, offset + 1)
    <3>1. \A i, j \in 1 .. Len(log') : i < j => Before(log'[i].at, log'[j].at)
      BY <2>3, <2>7
    <3>2. \A i \in 1 .. Len(log') - 1 : log'[i].next = log'[i + 1].at
      BY <2>3, <2>5
    <3>3. \A i \in 1 .. Len(log') : Before(log'[i].at, <<wchunk, offset + 1>>)
      BY <2>3, <2>6
    <3>4. \A i \in 1 .. Len(log') : log'[i].kind = "Switch" => log'[i].at[1] < log'[i].next[1]
      BY <2>3, <2>8
    <3>5. /\ log' \in Seq(Message) /\ Len(log') > 0 /\ offset + 1 \in Nat
          /\ log'[Len(log')].next = <<wchunk, offset + 1>>
      BY <1>0, <2>3
    <3> QED BY <1>0, <3>1, <3>2, <3>3, <3>4, <3>5 DEF WellFormed
  <2> QED BY <2>1, <2>3, <2>4, <2>9, <2>10 DEF Layout
<1>2. CASE ~Fits
  <2> DEFINE h == HeadAndData
             s1 == Append(log, SwitchMsg)
             s2 == Append(s1, h)
  <2>1. log' = s2 /\ offset' = 2 /\ wchunk' = wchunk + 1
    BY <1>2 DEF PlaceData
  <2>2. h \in Message /\ h.at = <<wchunk + 1, 0>> /\ h.next = <<wchunk + 1, 2>> /\ h.kind = "Dummy"
    <3>1. "Dummy" \in Kind /\ <<wchunk + 1, 0>> \in Address /\ <<wchunk + 1, 2>> \in Address
      BY <1>0 DEF Kind, Address
    <3> QED BY <3>1 DEF HeadAndData, Msg, Message
  <2>3. Before(<<wchunk + 1, 0>>, <<wchunk + 1, 2>>)
    BY <1>0 DEF Before
  <2>4. SwitchMsg.kind = "Switch"
    BY DEF SwitchMsg
  <2> HIDE DEF h
  <2>5. WellFormed(s1, wchunk + 1, 0)
    BY SwitchWellFormed DEF Layout
  <2> HIDE DEF s1
  <2>6. WellFormed(s2, wchunk + 1, 2)
    <3>1. wchunk + 1 \in Nat /\ 2 \in Nat /\ h.kind # "Switch"
      BY <1>0, <2>2
    <3> QED BY <3>1, <2>2, <2>3, <2>5, AppendWellFormed
  <2> USE DEF s1
  <2>7. /\ Len(s2) = n + 2 /\ s2[n + 1] = SwitchMsg /\ s2[n + 2] = h
        /\ \A i \in 1 .. n : s2[i] = log[i]
    BY <1>0
  <2> HIDE DEF s1, s2
  <2> QED BY <1>0, <2>1, <2>2, <2>4, <2>6, <2>7 DEF Layout
<1> QED BY <1>1, <1>2

-----------------------------------------------------------------------------
(* The invariant *)

LEMMA LayoutUnchanged ==
  ASSUME Layout, UNCHANGED <<log, wchunk, offset>> PROVE Layout'
BY DEF Layout, WellFormed

LEMMA LayoutLinks == ASSUME Layout PROVE LinkedInOrder
BY DEF Layout, WellFormed, LinkedInOrder

\* The only message that lies where the link of the last read one points is the
\* next one.
LEMMA LinkIsNext ==
  ASSUME Layout, NEW p \in 1 .. Len(log), p < Len(log),
         NEW i \in 1 .. Len(log), log[i].at = log[p].next
  PROVE  i = p + 1
<1>1. log \in Seq(Message) /\ Len(log) \in Nat
  BY DEF Layout, WellFormed
<1>2. p + 1 \in 1 .. Len(log) /\ log[p].next = log[p + 1].at
  BY <1>1 DEF Layout, WellFormed
<1>3. log[i] \in Message
  BY <1>1
<1>4. log[i].at \in Nat \X Nat /\ log[i].at = log[p + 1].at
  BY <1>2, <1>3 DEF Message, Address
<1>5. ~Before(log[i].at, log[i].at)
  BY <1>4 DEF Before
<1>6. ~(i < p + 1) /\ ~(p + 1 < i)
  BY <1>2, <1>4, <1>5 DEF Layout, WellFormed
<1> QED BY <1>1, <1>2, <1>6

LEMMA InitIInv == Init => IInv
<1> SUFFICES ASSUME Init PROVE IInv
  OBVIOUS
<1>1. /\ log = <<Msg("Dummy", 1, 0)>> /\ Len(log) = 1 /\ log[1] = Msg("Dummy", 1, 0)
      /\ wchunk = 1 /\ offset = 1
  BY DEF Init
<1>2. Msg("Dummy", 1, 0) \in Message
  <2>1. "Dummy" \in Kind
    BY DEF Kind
  <2> QED BY <2>1, MsgType
<1>3. /\ log[1].kind = "Dummy" /\ log[1].at = <<1, 0>> /\ log[1].next = <<1, 1>>
  BY <1>1 DEF Msg
<1>4. Layout
  <2>1. Before(log[1].at, <<wchunk, offset>>)
    BY <1>1, <1>3 DEF Before
  <2>2. log \in Seq(Message)
    BY <1>1, <1>2
  <2> QED BY <1>1, <1>3, <2>1, <2>2 DEF Layout, WellFormed
<1>5. TypeOK
  <2>1. log \in Seq(Message)
    BY <1>4 DEF Layout, WellFormed
  <2>2. done \in Seq(Nat)
    BY DEF Init
  <2>3. ppc \in ProducerPC /\ cpc \in ConsumerPC
    BY DEF Init, ProducerPC, ConsumerPC
  <2>4. recycled \in SUBSET Nat /\ freed \in SUBSET Nat
    BY DEF Init
  <2>5. pos \in 1 .. Len(log)
    BY <1>1 DEF Init
  <2>6. /\ terminate \in BOOLEAN /\ flushed \in BOOLEAN /\ immediate \in BOOLEAN
        /\ attached \in BOOLEAN /\ locked \in BOOLEAN
    BY DEF Init
  <2>7. /\ wchunk \in Nat /\ offset \in Nat /\ pending \in Nat /\ written \in Nat
        /\ snap \in Nat /\ newCount \in Nat /\ event \in Nat /\ Len(log) > 0
    BY <1>1 DEF Init
  <2> QED BY <2>1, <2>2, <2>3, <2>4, <2>5, <2>6, <2>7 DEF TypeOK
<1>6. Counts /\ Immediate /\ Wakeup /\ ChunksBehind /\ Gone
  BY <1>1 DEF Init, Counts, Immediate, Wakeup, ChunksBehind, Gone
<1>7. History
  BY <1>1 DEF Init, History, ExecutedInOrder
<1>8. Signalling
  BY <1>1, <1>3 DEF Init, Signalling, Signals, Waiting
<1> QED BY <1>4, <1>5, <1>6, <1>7, <1>8 DEF IInv

\* Writing a message: only the producer's place, its counters and the semaphore
\* may change with the log.
LEMMA WriteIInv ==
  ASSUME IInv, ppc = "idle", ~immediate,
         NEW kind \in Kind, kind # "Switch", Allocate(kind),
         UNCHANGED <<rvars, mvars, locked, chunks, cpc, done>>,
         \/ /\ kind \notin Signals /\ ppc' = "idle" /\ event' = event
            /\ written' = written /\ pending' = pending + Added
         \/ /\ kind \notin Signals /\ ppc' = "notify" /\ event' = event
            /\ written' = written + pending + Added /\ pending' = 0
         \/ /\ ppc' \in Notifying \cap Waiting /\ event' = 0
            /\ written' = written + pending + Added /\ pending' = 0
  PROVE  IInv'
<1> DEFINE n == Len(log)
<1>1. /\ Layout' /\ Len(log') \in {n + 1, n + 3}
      /\ \A i \in 1 .. n : log'[i] = log[i]
      /\ \A i \in n + 1 .. Len(log') - 1 : log'[i].kind \in {"Dummy", "Switch"}
  BY AllocateLayout DEF IInv
<1>2. /\ n \in Nat /\ pos \in 1 .. n /\ log'[pos] = log[pos] /\ Len(log') \in Nat
      /\ Len(log') > n /\ n + Added = Len(log') /\ Added \in Nat
  BY <1>1 DEF IInv, TypeOK, Added
<1>3. TypeOK'
  <2>1. log' \in Seq(Message) /\ Len(log') > 0 /\ wchunk' \in Nat /\ offset' \in Nat
    BY <1>1 DEF Layout, WellFormed
  <2>2. pending' \in Nat /\ written' \in Nat /\ pos' \in 1 .. Len(log') /\ event' \in Nat
    BY SMTT(20), <1>2 DEF IInv, TypeOK, rvars
  <2>3. ppc' \in ProducerPC
    BY DEF Notifying, Waiting, ProducerPC
  <2> QED BY <2>1, <2>2, <2>3 DEF IInv, TypeOK, rvars, mvars, chunks
<1>4. Counts'
  <2>1. written' + pending' = written + pending + Added /\ written <= written'
    BY <1>2 DEF IInv, TypeOK
  <2> QED BY <1>2, <2>1 DEF IInv, Counts, rvars, TypeOK
<1>5. History' /\ Gone'
  BY DEF IInv, History, ExecutedInOrder, Gone, rvars, Notifying
<1>6. Immediate'
  BY DEF IInv, Immediate, mvars
<1>7. Wakeup'
  BY DEF IInv, TypeOK, Wakeup, rvars, Notifying
<1>8. Signalling'
  <2>1. ppc \notin Waiting /\ \A i \in 1 .. n : ~(log[i].kind \in Signals /\ i > Len(done))
    BY DEF IInv, Signalling, Waiting
  <2>2. \A i \in 1 .. Len(log') - 1 : ~(log'[i].kind \in Signals /\ i > Len(done'))
    <3>1. \A i \in 1 .. Len(log') - 1 : i \in 1 .. n \/ i \in n + 1 .. Len(log') - 1
      BY <1>2
    <3> QED BY <3>1, <2>1, <1>1 DEF Signals
  <2>3. kind \notin Signals => log'[Len(log')].kind \notin Signals
    <3>1. log'[Len(log')].kind = kind
      BY DEF IInv, Allocate, Msg, Layout, WellFormed
    <3> QED BY <3>1
  <2> QED BY <2>1, <2>2, <2>3, <1>2 DEF Signalling, Waiting, Notifying
<1>9. ChunksBehind'
  BY <1>2 DEF IInv, ChunksBehind, chunks, rvars
<1> QED BY <1>1, <1>3, <1>4, <1>5, <1>6, <1>7, <1>8, <1>9 DEF IInv

LEMMA AllocateDataIInv == ASSUME IInv, AllocateData PROVE IInv'
<1> DEFINE n == Len(log)
<1>1. /\ Layout' /\ Len(log') \in {n, n + 2}
      /\ \A i \in 1 .. n : log'[i].at = log[i].at /\ log'[i].kind = log[i].kind
      /\ Len(log') = n + 2 => log'[n + 1].kind = "Switch" /\ log'[n + 2].kind = "Dummy"
  <2>1. n \in Nat /\ Layout /\ PlaceData
    BY DEF IInv, TypeOK, AllocateData
  <2> QED BY <2>1, PlaceDataLayout
<1>2. /\ n \in Nat /\ pos \in 1 .. n /\ Len(log') \in Nat /\ Len(log') >= n
      /\ log'[pos].at = log[pos].at /\ log'[pos].kind = log[pos].kind
      /\ n + Added = Len(log') /\ Added \in Nat
  BY <1>1 DEF IInv, TypeOK, Added
<1>3. TypeOK'
  <2>1. log' \in Seq(Message) /\ Len(log') > 0 /\ wchunk' \in Nat /\ offset' \in Nat
    BY <1>1 DEF Layout, WellFormed
  <2>2. pending' \in Nat /\ pos' \in 1 .. Len(log')
    BY <1>2 DEF IInv, TypeOK, AllocateData, rvars
  <2> QED BY <2>1, <2>2 DEF IInv, TypeOK, AllocateData, rvars, mvars, chunks
<1>4. Counts'
  <2>1. /\ pending' = pending + Added /\ written' = written
        /\ UNCHANGED <<pos, newCount, snap>>
    BY DEF AllocateData, rvars
  <2>2. /\ pending \in Nat /\ written \in Nat /\ written + pending = n
        /\ pos + newCount = snap /\ snap <= written
    BY DEF IInv, TypeOK, Counts
  <2>3. written' + pending' = Len(log')
    BY <2>1, <2>2, <1>2
  <2> QED BY <2>1, <2>2, <2>3 DEF Counts
<1>5. History' /\ Immediate' /\ Wakeup' /\ Gone'
  BY DEF IInv, History, ExecutedInOrder, Immediate, Wakeup, Gone, AllocateData, CanWrite, rvars, mvars
<1>6. Signalling'
  <2>1. ppc = "idle" /\ \A i \in 1 .. n : ~(log[i].kind \in Signals /\ i > Len(done))
    BY DEF IInv, Signalling, Waiting, AllocateData, CanWrite
  <2>2. \A i \in 1 .. Len(log') : ~(log'[i].kind \in Signals /\ i > Len(done))
    <3>1. \A i \in 1 .. Len(log') : i \in 1 .. n \/ (Len(log') = n + 2 /\ i \in {n + 1, n + 2})
      <4>1. Len(log') \in {n, n + 2}
        BY <1>1
      <4> QED BY <4>1, <1>2
    <3> QED BY <3>1, <2>1, <1>1 DEF Signals
  <2> QED BY <2>1, <2>2 DEF Signalling, Waiting, AllocateData
<1>7. ChunksBehind'
  BY <1>2 DEF IInv, ChunksBehind, AllocateData, chunks, rvars
<1> QED BY <1>1, <1>3, <1>4, <1>5, <1>6, <1>7 DEF IInv

LEMMA AllocateDataImmediateIInv == ASSUME IInv, AllocateDataImmediate PROVE IInv'
<1> DEFINE n == Len(log)
<1>1. /\ Layout'
      /\ \/ wchunk' = wchunk /\ Len(log') = n
         \/ /\ wchunk' = wchunk + 1 /\ Len(log') = n + 2
            /\ log'[n + 1].kind = "Switch" /\ log'[n + 2].kind = "Dummy"
            /\ log'[n + 2].at[1] = wchunk + 1
      /\ \A i \in 1 .. n : log'[i].at = log[i].at /\ log'[i].kind = log[i].kind
  BY PlaceDataLayout DEF IInv, AllocateDataImmediate
<1>2. /\ n \in Nat /\ n > 0 /\ wchunk \in Nat
      /\ immediate /\ cpc = "none" /\ pos = n /\ newCount = 0 /\ pending = 0
      /\ snap = n /\ written = n /\ Len(done) = n /\ done \in Seq(Nat)
  BY DEF IInv, TypeOK, Immediate, Counts, History, AllocateDataImmediate
<1>3. log'[n].at = log[n].at /\ log'[n].kind = log[n].kind /\ log[n].kind # "Switch"
  BY <1>1, <1>2 DEF IInv, Layout
<1>4. log' \in Seq(Message) /\ Len(log') > 0 /\ wchunk' \in Nat /\ offset' \in Nat
  BY <1>1 DEF Layout, WellFormed
<1>5. \A i \in 1 .. n : ~(log[i].kind \in Signals /\ i > Len(done))
  BY <1>2
<1>6. CASE wchunk' = wchunk
  <2>1. Len(log') = n /\ UNCHANGED <<pending, written, pos, snap, newCount, recycled, done>>
    BY <1>1, <1>2, <1>6 DEF AllocateDataImmediate
  <2>2. TypeOK'
    BY <1>2, <1>4, <2>1 DEF IInv, TypeOK, AllocateDataImmediate, mvars
  <2>3. Counts' /\ History' /\ Immediate' /\ Wakeup' /\ Gone'
    BY <2>1 DEF IInv, Counts, History, ExecutedInOrder, Immediate, Wakeup, Gone,
         AllocateDataImmediate, mvars
  <2>4. Signalling'
    BY <2>1, <1>1, <1>2 DEF IInv, Signalling, AllocateDataImmediate, CanWrite, Waiting
  <2>5. ChunksBehind'
    BY <2>1, <1>2, <1>3 DEF IInv, ChunksBehind, AllocateDataImmediate
  <2> QED BY <1>1, <2>2, <2>3, <2>4, <2>5 DEF IInv
<1>7. CASE wchunk' # wchunk
  <2>1. /\ Len(log') = n + 2 /\ written' = n + 2 /\ pending' = 0 /\ newCount' = 0
        /\ snap' = n + 2 /\ pos' = n + 2 /\ recycled' = recycled \cup {wchunk}
        /\ done' = Append(Append(done, n + 1), n + 2)
    <3>1. Len(log') = n + 2
      BY <1>1, <1>7
    <3>2. /\ written' = written + pending + 2 /\ pending' = 0
          /\ newCount' = newCount + (written' - snap) - 2
          /\ snap' = written' /\ pos' = pos + 2
          /\ recycled' = recycled \cup {wchunk}
          /\ done' = Append(Append(done, pos + 1), pos + 2)
      BY <1>7 DEF AllocateDataImmediate
    <3> QED BY <3>1, <3>2, <1>2
  <2>2. /\ done' \in Seq(Nat) /\ Len(done') = n + 2
        /\ done'[n + 1] = n + 1 /\ done'[n + 2] = n + 2
        /\ \A i \in 1 .. n : done'[i] = done[i]
    BY <1>2, <2>1
  <2>3. TypeOK'
    BY <1>2, <1>4, <2>1, <2>2 DEF IInv, TypeOK, AllocateDataImmediate, mvars
  <2>4. Counts' /\ Immediate' /\ Gone'
    <3>1. Counts'
      BY <1>2, <2>1 DEF Counts
    <3>2. cpc' = "none"
      BY <1>2 DEF AllocateDataImmediate
    <3> QED BY <1>2, <2>1, <3>1, <3>2 DEF Immediate, Gone
  <2>5. Wakeup'
    BY <1>2 DEF IInv, Wakeup, AllocateDataImmediate
  <2>6. History'
    <3>1. \A i \in 1 .. n : done[i] = i
      BY <1>2 DEF IInv, History, ExecutedInOrder
    <3>2. \A i \in 1 .. n + 2 : i \in 1 .. n \/ i = n + 1 \/ i = n + 2
      BY <1>2
    <3>3. cpc' = "none"
      BY <1>2 DEF AllocateDataImmediate
    <3> QED BY <3>1, <3>2, <3>3, <2>1, <2>2 DEF History, ExecutedInOrder
  <2>7. Signalling'
    BY <2>1, <2>2, <1>2 DEF Signalling, AllocateDataImmediate, CanWrite, Waiting
  <2>8. ChunksBehind'
    <3>1. log[n].at \in Nat \X Nat /\ Before(log[n].at, <<wchunk, offset>>)
      <4>1. n \in 1 .. Len(log)
        BY <1>2
      <4>2. log[n].at \in Nat \X Nat
        BY <4>1, LogFields DEF IInv
      <4> QED BY <4>1, <4>2 DEF IInv, Layout, WellFormed
    <3>2. log[n].at[1] < wchunk + 1 /\ log[n].at[1] \in Nat
      BY <3>1, <1>2 DEF Before
    <3>3. ppc = "idle" /\ freed' = freed
      BY DEF AllocateDataImmediate, CanWrite
    <3>4. /\ \A c \in freed : c \in Nat /\ c < log[n].at[1]
          /\ \A c \in recycled : c \in Nat /\ c < log[n].at[1]
      BY <1>2, <1>3, <3>3 DEF IInv, ChunksBehind, TypeOK
    <3>5. log'[pos'].at[1] = wchunk + 1
      BY <1>1, <2>1, <1>2
    <3> QED BY <3>2, <3>3, <3>4, <3>5, <2>1, <1>2 DEF ChunksBehind
  <2> QED BY <1>1, <2>3, <2>4, <2>5, <2>6, <2>7, <2>8 DEF IInv
<1> QED BY <1>6, <1>7

\* The steps of the producer that leave the messages in memory alone
LEMMA ProducerIInv ==
  ASSUME IInv,
         FreeImmediate \/ KickAndWaitImmediate \/ DestroyImmediate \/ Push
           \/ RunConsumerThread \/ Notify \/ WaitReturns \/ Join
  PROVE  IInv'
<1> USE DEF IInv
<1>1. UNCHANGED <<log, wchunk, offset, pos, snap, newCount, done>>
  BY DEF FreeImmediate, KickAndWaitImmediate, DestroyImmediate, Push, RunConsumerThread,
         Notify, WaitReturns, Join, wvars, rvars
<1>2. Layout'
  BY <1>1, LayoutUnchanged
<1>3. /\ log \in Seq(Message) /\ Len(log) \in Nat /\ pos \in 1 .. Len(log)
      /\ log[pos].kind \in Kind
  BY LogFields DEF TypeOK, Message
<1>4. CASE FreeImmediate
  <2>1. pos = Len(log) /\ log[pos].kind # "Switch"
    BY <1>4 DEF FreeImmediate, Immediate, Layout
  <2>2. TypeOK'
    BY <1>4 DEF FreeImmediate, TypeOK, wvars, rvars, mvars, ProducerPC
  <2>3. Counts' /\ History' /\ Immediate' /\ Wakeup' /\ Gone'
    BY <1>4 DEF FreeImmediate, Counts, History, ExecutedInOrder, Immediate, Wakeup, Gone,
         wvars, rvars, mvars
  <2>4. Signalling'
    BY <1>4 DEF FreeImmediate, Signalling, Waiting, wvars
  <2>5. ChunksBehind'
    BY <1>1, <1>4, <2>1 DEF FreeImmediate, ChunksBehind
  <2> QED BY <1>2, <2>2, <2>3, <2>4, <2>5
<1>5. CASE KickAndWaitImmediate
  <2>1. TypeOK'
    BY <1>5 DEF KickAndWaitImmediate, TypeOK, wvars, rvars, mvars, chunks, ProducerPC
  <2>2. Counts' /\ History' /\ Immediate' /\ Wakeup' /\ Gone' /\ ChunksBehind'
    BY <1>5 DEF KickAndWaitImmediate, Counts, History, ExecutedInOrder, Immediate, Wakeup,
         Gone, ChunksBehind, wvars, rvars, mvars, chunks
  <2>3. Signalling'
    <3>1. Len(done) = Len(log) /\ pending = 0
      BY <1>5 DEF KickAndWaitImmediate, Immediate, History
    <3>2. \A j \in 1 .. Len(log) : ~(j > Len(done))
      BY <3>1, <1>3
    <3> QED BY <3>1, <3>2, <1>1, <1>5 DEF KickAndWaitImmediate, Signalling, wvars
  <2> QED BY <1>2, <2>1, <2>2, <2>3
<1>6. CASE DestroyImmediate
  <2>1. TypeOK'
    BY <1>6 DEF DestroyImmediate, TypeOK, wvars, rvars, mvars, ProducerPC
  <2>2. Counts' /\ History' /\ Immediate' /\ Wakeup' /\ Gone' /\ ChunksBehind'
    BY <1>6 DEF DestroyImmediate, Counts, History, ExecutedInOrder, Immediate, Wakeup,
         Gone, ChunksBehind, wvars, rvars, mvars
  <2>3. Signalling'
    BY <1>6 DEF DestroyImmediate, Signalling, Waiting, wvars
  <2> QED BY <1>2, <2>1, <2>2, <2>3
<1>7. CASE Push
  <2>1. TypeOK' /\ Counts'
    BY <1>1, <1>3, <1>7 DEF Push, TypeOK, Counts, rvars, mvars, chunks, ProducerPC
  <2>2. History' /\ Immediate' /\ Gone' /\ ChunksBehind'
    BY <1>7 DEF Push, History, ExecutedInOrder, Immediate, Gone, ChunksBehind, rvars, mvars, chunks
  <2>3. Wakeup'
    BY <1>7 DEF Push, Wakeup, Notifying
  <2>4. Signalling'
    BY <1>7 DEF Push, Signalling, Waiting
  <2> QED BY <1>2, <2>1, <2>2, <2>3, <2>4
<1>8. CASE RunConsumerThread
  <2>1. TypeOK'
    BY <1>8 DEF RunConsumerThread, TypeOK, wvars, chunks, ConsumerPC
  <2>2. cpc = "none" /\ ~locked
    BY <1>8 DEF RunConsumerThread, Immediate, Wakeup
  <2>3. Counts' /\ History' /\ Immediate' /\ Gone' /\ ChunksBehind'
    BY <1>8, <2>2 DEF RunConsumerThread, Counts, History, ExecutedInOrder, Immediate, Gone,
         ChunksBehind, wvars, chunks
  <2>4. Wakeup' /\ Signalling'
    BY <1>8, <2>2 DEF RunConsumerThread, Wakeup, Signalling, wvars
  <2> QED BY <1>2, <2>1, <2>3, <2>4
<1>9. CASE Notify
  <2>1. /\ ppc \in Notifying /\ ~locked
        /\ ppc' \in {"idle", "await", "awaitTerm", "awaitDestroy"}
        /\ ppc' \in Waiting <=> ppc \in Waiting
    BY <1>9 DEF Notify, AfterNotify, MutexFree, Notifying, Waiting
  <2>2. /\ cpc' \in ConsumerPC /\ (cpc' = "exec" <=> cpc = "exec")
        /\ (cpc' = "none" <=> cpc = "none") /\ cpc' \notin {"locked", "waiting"}
    BY <1>9, <2>1 DEF Notify, TypeOK, ConsumerPC, Wakeup
  <2>3. TypeOK'
    BY <1>9, <2>1, <2>2 DEF Notify, TypeOK, wvars, rvars, mvars, chunks, ProducerPC
  <2>4. Counts' /\ History' /\ Immediate' /\ ChunksBehind'
    BY <1>9, <2>1, <2>2 DEF Notify, Counts, History, ExecutedInOrder, Immediate, ChunksBehind,
         wvars, rvars, mvars, chunks, Notifying
  <2>5. Wakeup' /\ Signalling' /\ Gone'
    BY <1>9, <2>1, <2>2 DEF Notify, Wakeup, Signalling, Gone, wvars
  <2> QED BY <1>2, <2>3, <2>4, <2>5
<1>10. CASE WaitReturns
  <2>1. TypeOK'
    BY <1>10 DEF WaitReturns, TypeOK, wvars, rvars, mvars, chunks, ProducerPC
  <2>2. Counts' /\ History' /\ Immediate' /\ Gone' /\ ChunksBehind'
    BY <1>10 DEF WaitReturns, Counts, History, ExecutedInOrder, Immediate, Gone, ChunksBehind,
         wvars, rvars, mvars, chunks
  <2>3. Wakeup'
    BY <1>10 DEF WaitReturns, Wakeup, Notifying, wvars, rvars
  <2>4. Signalling'
    <3>1. Len(done) = Len(log)
      BY <1>10 DEF WaitReturns, Signalling, Waiting
    <3> QED BY <3>1, <1>1, <1>3, <1>10 DEF WaitReturns, Signalling, Waiting
  <2> QED BY <1>2, <2>1, <2>2, <2>3, <2>4
<1>11. CASE Join
  <2>1. /\ ppc \in Waiting /\ cpc = "exited" /\ cpc' = "none" /\ event > 0
        /\ ppc' \in {"idle", "gone"} /\ pending = 0 /\ Len(done) = Len(log)
    BY <1>11 DEF Join, Waiting, Signalling
  <2>2. pos = Len(log) /\ newCount = 0
    BY <1>3, <2>1 DEF History, Counts, TypeOK
  <2>3. TypeOK'
    <3>1. immediate' \in BOOLEAN /\ ppc' \in ProducerPC /\ cpc' \in ConsumerPC
      BY <1>11 DEF Join, TypeOK, ProducerPC, ConsumerPC
    <3>2. event \in Nat /\ event > 0 /\ event' = event - 1
      BY <1>11 DEF Join, TypeOK
    <3>3. event' \in Nat
      BY <3>2
    <3>4. recycled' \in SUBSET Nat
      BY <1>11 DEF Join, TypeOK
    <3> QED BY <3>1, <3>3, <3>4, <1>11 DEF Join, TypeOK, wvars, rvars
  <2>4. Counts' /\ History' /\ Immediate' /\ Gone'
    BY <1>11, <2>1, <2>2 DEF Join, Counts, History, ExecutedInOrder, Immediate, Gone, wvars, rvars
  <2>5. Wakeup'
    BY <1>11, <2>1 DEF Join, Wakeup
  <2>6. Signalling'
    BY <1>1, <1>3, <2>1 DEF Signalling, Waiting
  <2>7. ChunksBehind'
    BY <1>1, <1>11 DEF Join, ChunksBehind
  <2> QED BY <1>2, <2>3, <2>4, <2>5, <2>6, <2>7
<1> QED BY <1>4, <1>5, <1>6, <1>7, <1>8, <1>9, <1>10, <1>11

LEMMA ConsumerIInv == ASSUME IInv, Consumer \/ SpuriousWakeup PROVE IInv'
<1> USE DEF IInv
<1>1. /\ UNCHANGED <<log, wchunk, offset, pending, written, ppc, immediate>>
      /\ cpc # "none" /\ cpc' # "none"
  BY DEF Consumer, LockAndPull, Unlock, WaitForKick, PullAfterWakeup, ReadMessage, Execute,
         FlushReturns, SpuriousWakeup, wvars, mvars
<1>2. Layout' /\ Immediate' /\ Gone'
  BY <1>1, LayoutUnchanged DEF Immediate, Gone
<1>3. /\ log \in Seq(Message) /\ Len(log) \in Nat /\ pos \in 1 .. Len(log)
      /\ log[pos].kind \in Kind /\ done \in Seq(Nat)
  BY LogFields DEF TypeOK, Message
<1>4. CASE LockAndPull \/ PullAfterWakeup
  <2>1. /\ newCount' = newCount + (written - snap) /\ snap' = written
        /\ cpc # "exec" /\ cpc' \notin {"exec", "waiting"} /\ (locked' <=> cpc' = "locked")
        /\ UNCHANGED <<pos, terminate, flushed, recycled, freed, event, done>>
    BY <1>4 DEF LockAndPull, PullAfterWakeup, PullMessages, chunks
  <2>2. TypeOK'
    <3>1. newCount \in Nat /\ written \in Nat /\ snap \in Nat /\ snap <= written
      BY DEF TypeOK, Counts
    <3>2. newCount' \in Nat /\ snap' \in Nat
      BY <2>1, <3>1
    <3>3. cpc' \in ConsumerPC /\ locked' \in BOOLEAN /\ attached' = attached
      BY <1>4 DEF LockAndPull, PullAfterWakeup, mvars, ConsumerPC, TypeOK
    <3> QED BY <1>1, <2>1, <3>2, <3>3 DEF TypeOK
  <2>3. Counts' /\ Wakeup'
    BY <1>1, <1>3, <2>1 DEF TypeOK, Counts, Wakeup
  <2>4. History' /\ Signalling' /\ ChunksBehind'
    BY <1>1, <2>1 DEF History, ExecutedInOrder, Signalling, ChunksBehind
  <2> QED BY <1>2, <2>2, <2>3, <2>4
<1>5. CASE Unlock \/ WaitForKick \/ SpuriousWakeup
  <2>1. /\ cpc # "exec" /\ cpc' # "exec" /\ (locked' <=> cpc' = "locked")
        /\ cpc' = "waiting" => cpc = "locked"
        /\ UNCHANGED <<pos, snap, newCount, terminate, flushed, recycled, freed, event, done>>
    BY <1>5 DEF Unlock, WaitForKick, SpuriousWakeup, Wakeup, rvars, chunks
  <2>2. TypeOK'
    BY <1>5, <2>1 DEF Unlock, WaitForKick, SpuriousWakeup, TypeOK, wvars, mvars, ConsumerPC
  <2>3. Wakeup'
    BY <1>1, <1>5, <2>1 DEF Unlock, WaitForKick, SpuriousWakeup, Wakeup
  <2>4. Counts' /\ History' /\ Signalling' /\ ChunksBehind'
    BY <1>1, <2>1 DEF Counts, History, ExecutedInOrder, Signalling, ChunksBehind
  <2> QED BY <1>2, <2>2, <2>3, <2>4
<1>6. CASE ReadMessage
  <2>1. /\ newCount > 0 /\ newCount' = newCount - 1 /\ cpc = "flush" /\ cpc' = "exec"
        /\ UNCHANGED <<snap, terminate, flushed, recycled, freed, event, done, locked, attached>>
    BY <1>6 DEF ReadMessage, HasNewMessage, mvars, chunks
  <2>2. pos < Len(log)
    BY <1>3, <2>1 DEF TypeOK, Counts
  <2>3. pos' = pos + 1
    <3>1. PICK i \in 1 .. Len(log) : log[i].at = log[pos].next /\ pos' = i
      BY <1>6 DEF ReadMessage
    <3> QED BY <3>1, <2>2, <1>3, LinkIsNext
  <2>4. TypeOK'
    BY <1>1, <1>3, <2>1, <2>2, <2>3 DEF TypeOK, ConsumerPC
  <2>5. Counts' /\ History' /\ Wakeup'
    BY <1>1, <1>3, <2>1, <2>3 DEF TypeOK, Counts, History, ExecutedInOrder, Wakeup
  <2>6. Signalling'
    BY <1>1, <2>1 DEF Signalling
  <2>7. ChunksBehind'
    <3>1. pos + 1 \in 1 .. Len(log) /\ pos < pos + 1
      BY <1>3, <2>2
    <3>2. /\ log[pos].at \in Nat \X Nat /\ log[pos + 1].at \in Nat \X Nat
          /\ Before(log[pos].at, log[pos + 1].at) /\ log[pos].next = log[pos + 1].at
          /\ log[pos].kind = "Switch" => log[pos].at[1] < log[pos].next[1]
      <4>1. log[pos].at \in Nat \X Nat /\ log[pos + 1].at \in Nat \X Nat
        BY <3>1, <1>3, LogFields
      <4>2. pos \in 1 .. Len(log) - 1
        BY <1>3, <2>2
      <4> QED BY <4>1, <4>2, <3>1 DEF Layout, WellFormed
    <3>3. /\ log[pos].at[1] <= log[pos + 1].at[1]
          /\ log[pos].kind = "Switch" => log[pos].at[1] < log[pos + 1].at[1]
          /\ log[pos].at[1] \in Nat /\ log[pos + 1].at[1] \in Nat
      BY <3>2 DEF Before
    <3>4. freed \in SUBSET Nat /\ recycled \in SUBSET Nat
      BY DEF TypeOK
    <3> QED BY <1>1, <2>1, <2>3, <3>3, <3>4 DEF ChunksBehind
  <2> QED BY <1>2, <2>4, <2>5, <2>6, <2>7
<1>7. CASE Execute
  <2> DEFINE kind == log[pos].kind
  <2>1. /\ cpc = "exec" /\ cpc' = "flush" /\ done' = Append(done, pos) /\ pos' = pos
        /\ locked' = locked /\ attached' = attached
        /\ terminate' = (terminate \/ kind = "Terminate")
        /\ flushed' = (flushed \/ kind \in {"Finish", "Terminate"})
        /\ event' = IF kind \in Signals THEN event + 1 ELSE event
    BY <1>7 DEF Execute, mvars
  <2>2. /\ \/ newCount' = newCount /\ snap' = snap
           \/ newCount' = newCount + (written - snap) /\ snap' = written
        /\ \/ kind = "Switch" /\ recycled' = recycled \cup {log[pos].at[1]} /\ freed' = freed
           \/ kind = "Free" /\ recycled' = {} /\ freed' = freed \cup recycled
           \/ recycled' = recycled /\ freed' = freed
    BY <1>7 DEF Execute, PullMessages, Recycle, chunks
  <2>3. Len(done) = pos - 1 /\ Len(done') = pos /\ done'[pos] = pos
        /\ done' \in Seq(Nat) /\ \A i \in 1 .. pos - 1 : done'[i] = done[i]
    BY <1>3, <2>1 DEF History
  <2>4. log[pos].at[1] \in Nat
    <3>1. log[pos].at \in Nat \X Nat
      BY <1>3, LogFields
    <3> QED BY <3>1
  <2>5. newCount' \in Nat /\ snap' \in Nat /\ Counts'
    <3>1. /\ newCount \in Nat /\ written \in Nat /\ snap \in Nat /\ pos \in Nat
          /\ pos + newCount = snap /\ snap <= written /\ written + pending = Len(log)
      BY DEF TypeOK, Counts
    <3>2. /\ newCount' \in Nat /\ snap' \in Nat
          /\ pos + newCount' = snap' /\ snap' <= written
      BY <2>2, <3>1
    <3> QED BY <1>1, <2>1, <3>1, <3>2 DEF Counts
  <2>6. TypeOK'
    <3>1. terminate' \in BOOLEAN /\ flushed' \in BOOLEAN
      BY <2>1 DEF TypeOK
    <3>2. event' \in Nat
      BY <2>1 DEF TypeOK
    <3>3. recycled' \in SUBSET Nat /\ freed' \in SUBSET Nat
      BY <2>2, <2>4 DEF TypeOK
    <3>4. cpc' \in ConsumerPC
      BY <2>1 DEF ConsumerPC
    <3> QED BY <1>1, <2>1, <2>3, <2>5, <3>1, <3>2, <3>3, <3>4 DEF TypeOK
  <2>7. History'
    <3>1. \A i \in 1 .. pos : i \in 1 .. pos - 1 \/ i = pos
      BY <1>3
    <3> QED BY <3>1, <2>1, <2>3 DEF History, ExecutedInOrder
  <2>8. Wakeup'
    BY <2>1 DEF Wakeup
  <2>9. Signalling'
    <3>1. event > 0 /\ ppc \in Waiting => FALSE
      BY <1>3, <2>3 DEF Signalling
    <3>2. CASE kind \in Signals
      <4>1. pos = Len(log) /\ ppc \in Waiting
        BY <3>2, <1>3, <2>3 DEF Signalling
      <4>2. \A i \in 1 .. Len(log) : ~(i > Len(done'))
        BY <4>1, <1>3, <2>3
      <4> QED BY <4>1, <4>2, <1>1, <2>3 DEF Signalling
    <3>3. CASE kind \notin Signals
      <4>1. event' = event
        BY <3>3, <2>1
      <4>2. \A i \in 1 .. Len(log) : i > Len(done') => i > Len(done)
        BY <1>3, <2>3
      <4> QED BY <4>1, <4>2, <3>1, <1>1 DEF Signalling
    <3> QED BY <3>2, <3>3
  <2>10. ChunksBehind'
    BY <1>1, <2>1, <2>2, <2>4 DEF ChunksBehind
  <2> QED BY <1>2, <2>5, <2>6, <2>7, <2>8, <2>9, <2>10
<1>8. CASE FlushReturns
  <2>1. /\ UNCHANGED <<pos, snap, newCount, recycled, freed, event, done, locked>>
        /\ cpc = "flush" /\ cpc' \in {"flush", "exited"}
    BY <1>8 DEF FlushReturns, chunks
  <2>2. TypeOK'
    BY <1>1, <1>8, <2>1 DEF FlushReturns, TypeOK, ConsumerPC
  <2>3. Counts' /\ History' /\ Wakeup' /\ Signalling' /\ ChunksBehind'
    BY <1>1, <2>1 DEF Counts, History, ExecutedInOrder, Wakeup, Signalling, ChunksBehind
  <2> QED BY <1>2, <2>2, <2>3
<1> QED BY <1>4, <1>5, <1>6, <1>7, <1>8 DEF Consumer

LEMMA NextIInv == ASSUME IInv, [Next]_vars PROVE IInv'
<1>1. CASE Enqueue
  <2>1. /\ ppc = "idle" /\ ~immediate /\ Allocate("Work")
        /\ UNCHANGED <<rvars, mvars, locked, chunks, cpc, done>>
        /\ "Work" \notin Signals /\ ppc' = "idle" /\ event' = event
        /\ written' = written /\ pending' = pending + Added
        /\ "Work" \in Kind /\ "Work" # "Switch"
    BY <1>1 DEF Enqueue, CanWrite, Signals, Kind
  <2> QED BY <2>1, WriteIInv
<1>2. CASE FinishWriting \/ FreeChunksInFreeQueue \/ KickAndWait \/ TerminateConsumerThread
  <2>1. PICK kind \in Kind \ {"Switch", "Work"}, after \in Notifying :
          /\ WriteAndPush(kind, after)
          /\ \/ kind \notin Signals /\ after = "notify" /\ event' = event
             \/ after \in Waiting /\ event' = 0
    BY <1>2
    DEF FinishWriting, FreeChunksInFreeQueue, KickAndWait, TerminateConsumerThread,
        Notifying, Waiting, Signals, Kind
  <2>2. /\ ppc = "idle" /\ ~immediate /\ Allocate(kind) /\ ppc' = after
        /\ UNCHANGED <<rvars, mvars, locked, chunks, cpc, done>>
        /\ written' = written + pending + Added /\ pending' = 0
    BY <2>1 DEF WriteAndPush, CanWrite
  <2> QED BY <2>1, <2>2, WriteIInv
<1>3. CASE AllocateData
  BY <1>3, AllocateDataIInv
<1>4. CASE AllocateDataImmediate
  BY <1>4, AllocateDataImmediateIInv
<1>5. CASE FreeImmediate \/ KickAndWaitImmediate \/ DestroyImmediate \/ Push
             \/ RunConsumerThread \/ Producer
  BY <1>5, ProducerIInv DEF Producer
<1>6. CASE Consumer \/ SpuriousWakeup
  BY <1>6, ConsumerIInv
<1>7. CASE UNCHANGED vars
  <2>1. Layout'
    BY <1>7, LayoutUnchanged DEF vars, wvars, IInv
  <2> QED
    BY <2>1, <1>7
    DEF vars, wvars, rvars, mvars, chunks, IInv, TypeOK, Counts, History, ExecutedInOrder,
        Immediate, Wakeup, Signalling, ChunksBehind, Gone
<1> QED BY <1>1, <1>2, <1>3, <1>4, <1>5, <1>6, <1>7 DEF Next, Calls

\* The inductive invariant holds in every reachable state of the queue.
THEOREM Invariance == Spec => []IInv
BY InitIInv, NextIInv, PTL DEF Spec

-----------------------------------------------------------------------------
(* The properties the runs check, for every chunk size and every bound *)

\* Every variable of the queue keeps its type; in particular no counter of the
\* writer or the reader goes below zero.
THEOREM TypeCorrect == Spec => []TypeOK
BY Invariance, PTL DEF IInv

\* The reader never counts as new what pushMessages has not published.
THEOREM ReadsPublished == Spec => []OnlyPublishedRead
<1>1. IInv => OnlyPublishedRead
  <2> SUFFICES ASSUME IInv PROVE OnlyPublishedRead
    OBVIOUS
  <2>1. pos \in Nat /\ newCount \in Nat /\ snap \in Nat /\ written \in Nat
    BY DEF IInv, TypeOK
  <2> QED BY <2>1 DEF IInv, Counts, OnlyPublishedRead
<1> QED BY <1>1, Invariance, PTL

\* Links lead from each message to the one allocated after it, across chunks and
\* submitted data.
THEOREM LinksFollowAllocation == Spec => []LinkedInOrder
<1>1. IInv => LinkedInOrder
  BY LayoutLinks DEF IInv
<1> QED BY <1>1, Invariance, PTL

\* executeMessages runs each message once, in the order written.
THEOREM ExecutionOrder == Spec => []ExecutedInOrder
<1>1. IInv => ExecutedInOrder
  BY DEF IInv, History
<1> QED BY <1>1, Invariance, PTL

\* A consumer that sleeps in readMessage while messages are published will be
\* notified by the kick that published them.
THEOREM WakeupKept == Spec => []NoLostWakeup
<1>1. IInv => NoLostWakeup
  BY DEF IInv, Wakeup, NoLostWakeup, Notifying
<1> QED BY <1>1, Invariance, PTL

\* freeByUser never frees a chunk that still holds a message the reader has to
\* follow or execute.
THEOREM FreedIsBehind == Spec => []NoReadAfterFree
<1>1. IInv => NoReadAfterFree
  <2> SUFFICES ASSUME IInv, ppc # "gone", NEW i \in pos .. Len(log),
                      log[i].at[1] \in freed
               PROVE  FALSE
    BY DEF NoReadAfterFree
  <2>1. pos \in 1 .. Len(log) /\ Len(log) \in Nat
    BY LogFields DEF IInv, TypeOK
  <2>2. i \in 1 .. Len(log) /\ (i = pos \/ pos < i)
    BY <2>1
  <2>3. log[i].at \in Nat \X Nat /\ log[pos].at \in Nat \X Nat
    BY <2>1, <2>2, LogFields DEF IInv
  <2>4. i = pos \/ Before(log[pos].at, log[i].at)
    BY <2>1, <2>2 DEF IInv, Layout, WellFormed
  <2>5. log[i].at[1] < log[pos].at[1]
    BY DEF IInv, ChunksBehind
  <2> QED BY <2>3, <2>4, <2>5 DEF Before
<1> QED BY <1>1, Invariance, PTL

\* In immediate mode the reader has executed everything allocated, so an inline
\* chunk switch finds exactly its own two messages (the assertion in allocateImpl).
THEOREM InlineSwitchFindsTwo == Spec => []ImmediateInStep
<1>1. IInv => ImmediateInStep
  <2> SUFFICES ASSUME IInv, immediate PROVE ImmediateInStep
    BY DEF ImmediateInStep
  <2>1. pos \in Nat /\ newCount = 0 /\ snap \in Nat /\ written \in Nat /\ pending = 0 /\ pos = Len(log)
    BY DEF IInv, TypeOK, Immediate
  <2> QED BY <2>1 DEF IInv, Counts, ImmediateInStep
<1> QED BY <1>1, Invariance, PTL

\* kickAndWait and terminateConsumerThread return only with everything executed:
\* a call that waits has published all it wrote, its message is the last one, and
\* the semaphore it waits on goes up only when that message is executed.
THEOREM WaitingCallsDrain == Spec => WaitDrains
<1>1. ASSUME IInv, [Next]_vars,
             ppc \in {"await", "awaitTerm", "awaitDestroy"}, ppc' # ppc
      PROVE  Len(done) = Len(log) /\ pending = 0
  <2>1. ppc \in Waiting
    BY <1>1 DEF Waiting
  <2>2. Producer
    BY <1>1
    DEF Next, Calls, Enqueue, AllocateData, AllocateDataImmediate, CanWrite, FreeImmediate,
        KickAndWaitImmediate, DestroyImmediate, Push, FinishWriting, FreeChunksInFreeQueue,
        KickAndWait, TerminateConsumerThread, WriteAndPush, RunConsumerThread, Consumer,
        LockAndPull, Unlock, WaitForKick, PullAfterWakeup, ReadMessage, Execute, FlushReturns,
        SpuriousWakeup, vars
  <2>3. event > 0
    BY <1>1, <2>2 DEF Producer, Notify, AfterNotify, WaitReturns, Join
  <2> QED BY <1>1, <2>1, <2>3 DEF IInv, Signalling
<1>2. IInv /\ [Next]_vars =>
        [(ppc \in {"await", "awaitTerm", "awaitDestroy"} /\ ppc' # ppc)
           => (Len(done) = Len(log) /\ pending = 0)]_vars
  BY <1>1
<1> QED BY <1>2, Invariance, PTL DEF Spec, WaitDrains

-----------------------------------------------------------------------------
(* What a client sees of the queue.  Members of a finite set of numbers by   *)
(* their rank.                                                               *)

Upto(S, i) == {k \in S : k <= i}

LEMMA UptoSize ==
  ASSUME NEW n \in Nat, NEW S \in SUBSET (1 .. n), NEW i \in Nat
  PROVE  /\ IsFiniteSet(S) /\ IsFiniteSet(Upto(S, i))
         /\ Cardinality(S) \in Nat /\ Cardinality(Upto(S, i)) \in Nat
         /\ Cardinality(Upto(S, i)) <= Cardinality(S)
         /\ i \in S => Cardinality(Upto(S, i)) \in 1 .. Cardinality(S)
<1>1. IsFiniteSet(1 .. n)
  BY FS_Interval
<1>2. IsFiniteSet(S)
  BY <1>1, FS_Subset
<1>3. Upto(S, i) \in SUBSET S
  BY DEF Upto
<1>4. IsFiniteSet(Upto(S, i)) /\ Cardinality(Upto(S, i)) <= Cardinality(S)
  BY <1>2, <1>3, FS_Subset
<1>5. Cardinality(S) \in Nat /\ Cardinality(Upto(S, i)) \in Nat
  BY <1>2, <1>4, FS_CardinalityType
<1>6. ASSUME i \in S PROVE Cardinality(Upto(S, i)) \in 1 .. Cardinality(S)
  <2>1. i \in Upto(S, i)
    BY <1>6 DEF Upto
  <2>2. Cardinality(Upto(S, i)) # 0
    BY <1>4, <2>1, FS_EmptySet
  <2> QED BY <1>4, <1>5, <2>2
<1> QED BY <1>2, <1>4, <1>5, <1>6

\* Two members have two ranks.
LEMMA RankInjective ==
  ASSUME NEW n \in Nat, NEW S \in SUBSET (1 .. n), NEW i \in S, NEW h \in S,
         Cardinality(Upto(S, i)) = Cardinality(Upto(S, h))
  PROVE  i = h
<1>1. ASSUME NEW a \in S, NEW b \in S, a < b
      PROVE  Cardinality(Upto(S, a)) # Cardinality(Upto(S, b))
  <2>1. a \in Nat /\ b \in Nat /\ \A k \in S : k \in Nat
    OBVIOUS
  <2>2. b \in Upto(S, b) /\ b \notin Upto(S, a)
    BY <1>1, <2>1 DEF Upto
  <2>6. Upto(S, a) \in SUBSET Upto(S, b)
    <3> SUFFICES ASSUME NEW k \in Upto(S, a) PROVE k \in Upto(S, b)
      OBVIOUS
    <3>1. k \in S /\ k <= a
      BY DEF Upto
    <3>2. k \in Nat
      BY <2>1, <3>1
    <3>3. k <= b
      BY <1>1, <2>1, <3>1, <3>2
    <3> QED BY <3>1, <3>3 DEF Upto
  <2>3. IsFiniteSet(Upto(S, b))
    BY <2>1, UptoSize
  <2>4. Upto(S, a) # Upto(S, b)
    BY <2>2
  <2>5. Cardinality(Upto(S, b)) = Cardinality(Upto(S, a)) => Upto(S, b) = Upto(S, a)
    BY <2>6, <2>3, FS_Subset
  <2> QED BY <2>4, <2>5
<1>2. i < h \/ h < i \/ i = h
  OBVIOUS
<1> QED BY <1>1, <1>2

\* Each rank up to the size of the set has its member.
LEMMA RankedMember ==
  ASSUME NEW n \in Nat, NEW S \in SUBSET (1 .. n), NEW j \in 1 .. Cardinality(S)
  PROVE  Ranked(S, j) \in S /\ Cardinality(Upto(S, Ranked(S, j))) = j
<1> DEFINE c == Cardinality(S)
           T == 1 .. c
           f == [i \in S |-> Cardinality(Upto(S, i))]
<1>1. c \in Nat /\ IsFiniteSet(S)
  BY UptoSize
<1>2. IsFiniteSet(T) /\ Cardinality(T) = c
  BY <1>1, FS_Interval
<1>3. f \in [S -> T]
  <2>1. \A i \in S : i \in Nat
    OBVIOUS
  <2> QED BY <2>1, UptoSize
<1>4. f \in Injection(S, T)
  BY <1>3, RankInjective DEF Injection, IsInjective
<1>5. f \in Surjection(S, T)
  BY <1>2, <1>4, FS_Injection
<1>6. \E i \in S : f[i] = j
  BY <1>5 DEF Surjection
<1>7. \E i \in S : Cardinality({k \in S : k <= i}) = j
  BY <1>6 DEF Upto
<1> QED BY <1>7 DEF Ranked, Upto

LEMMA RankedIs ==
  ASSUME NEW n \in Nat, NEW S \in SUBSET (1 .. n), NEW i \in S
  PROVE  /\ Cardinality(Upto(S, i)) \in 1 .. Cardinality(S)
         /\ Ranked(S, Cardinality(Upto(S, i))) = i
<1>1. Cardinality(Upto(S, i)) \in 1 .. Cardinality(S)
  <2>1. i \in Nat
    OBVIOUS
  <2> QED BY <2>1, UptoSize
<1> DEFINE r == Ranked(S, Cardinality(Upto(S, i)))
<1>2. r \in S /\ Cardinality(Upto(S, r)) = Cardinality(Upto(S, i))
  BY <1>1, RankedMember
<1>3. r = i
  BY <1>2, RankInjective
<1> QED BY <1>1, <1>3

\* Members above all others do not change the ranks of those.
LEMMA RankedBelow ==
  ASSUME NEW n \in Nat, NEW T \in SUBSET (1 .. n), NEW m \in Nat,
         NEW j \in 1 .. Cardinality(Upto(T, m))
  PROVE  /\ j \in 1 .. Cardinality(T)
         /\ Ranked(T, j) = Ranked(Upto(T, m), j)
<1> DEFINE S == Upto(T, m)
           r == Ranked(S, j)
<1>1. S \in SUBSET (1 .. n) /\ S \subseteq T
  BY DEF Upto
<1>2. r \in S /\ Cardinality(Upto(S, r)) = j
  BY <1>1, RankedMember
<1>3. Upto(S, r) = Upto(T, r)
  <2> HIDE DEF r
  <2>1. r \in T /\ r <= m
    BY <1>2 DEF Upto
  <2>2. r \in Nat /\ \A k \in T : k \in Nat
    BY <2>1
  <2>3. \A k \in T : k <= r => k <= m
    BY <2>1, <2>2
  <2> QED BY <2>3 DEF Upto
<1>4. Cardinality(S) <= Cardinality(T) /\ Cardinality(S) \in Nat /\ Cardinality(T) \in Nat
  BY UptoSize
<1>5. r \in T /\ Cardinality(Upto(T, r)) = j
  BY <1>1, <1>2, <1>3
<1> HIDE DEF r
<1>6. Ranked(T, Cardinality(Upto(T, r))) = r
  BY <1>5, RankedIs
<1>7. Ranked(T, j) = r
  BY <1>5, <1>6
<1>8. j \in 1 .. Cardinality(T)
  BY <1>4
<1> QED BY <1>7, <1>8 DEF r
-----------------------------------------------------------------------------
(* A client's own messages among the first k of l, and their addresses. *)

IsOwn(m) == m.kind \notin {"Dummy", "Switch"}
OwnUpto(l, k) == {i \in 1 .. k : IsOwn(l[i])}
Sent(l, k) ==
  [j \in 1 .. Cardinality(OwnUpto(l, k)) |-> l[Ranked(OwnUpto(l, k), j)].at]

LEMMA MessagesUpto ==
  ASSUME NEW l, NEW k \in Nat, NEW s, s = [i \in 1 .. k |-> i]
  PROVE  /\ Own(l, s) = OwnUpto(l, k)
         /\ Addresses(l, s, Own(l, s)) = Sent(l, k)
<1> DEFINE S == OwnUpto(l, k)
<1>1. Own(l, s) = S
  BY DEF Own, OwnUpto, IsOwn
<1>2. S \in SUBSET (1 .. k)
  BY DEF OwnUpto
<1>3. ASSUME NEW j \in 1 .. Cardinality(S) PROVE s[Ranked(S, j)] = Ranked(S, j)
  <2>1. Ranked(S, j) \in 1 .. k
    BY <1>2, RankedMember
  <2> QED BY <2>1
<1> HIDE DEF S
<1>4. Addresses(l, s, S) = [j \in 1 .. Cardinality(S) |-> l[Ranked(S, j)].at]
  BY <1>3 DEF Addresses
<1> QED BY <1>1, <1>4 DEF Sent, S

LEMMA SentType ==
  ASSUME NEW l \in Seq(Message), NEW k \in 0 .. Len(l)
  PROVE  /\ Sent(l, k) \in Seq(Address)
         /\ Len(Sent(l, k)) = Cardinality(OwnUpto(l, k))
         /\ Cardinality(OwnUpto(l, k)) \in Nat /\ IsFiniteSet(OwnUpto(l, k))
<1> DEFINE S == OwnUpto(l, k)
           c == Cardinality(S)
<1>1. k \in Nat /\ k <= Len(l) /\ Len(l) \in Nat
  OBVIOUS
<1>2. S \in SUBSET (1 .. k)
  BY DEF OwnUpto
<1>3. c \in Nat /\ IsFiniteSet(S)
  BY <1>1, <1>2, UptoSize
<1>4. ASSUME NEW j \in 1 .. c PROVE l[Ranked(S, j)].at \in Address
  <2>1. Ranked(S, j) \in 1 .. k
    BY <1>1, <1>2, RankedMember
  <2>2. Ranked(S, j) \in 1 .. Len(l)
    BY <1>1, <2>1
  <2>3. l[Ranked(S, j)] \in Message
    BY <2>2, ElementOfSeq
  <2> QED BY <2>3 DEF Message
<1> HIDE DEF c, S
<1>5. Sent(l, k) = [j \in 1 .. c |-> l[Ranked(S, j)].at]
  BY DEF Sent, c, S
<1>6. Sent(l, k) \in [1 .. c -> Address]
  BY <1>4, <1>5
<1>7. Sent(l, k) \in Seq(Address) /\ Len(Sent(l, k)) = c
  BY <1>3, <1>6
<1> QED BY <1>3, <1>7 DEF c, S

\* The same messages as far as a client sees them.
LEMMA SentSame ==
  ASSUME NEW l, NEW l2, NEW k \in Nat,
         \A i \in 1 .. k : l2[i].kind = l[i].kind /\ l2[i].at = l[i].at
  PROVE  OwnUpto(l2, k) = OwnUpto(l, k) /\ Sent(l2, k) = Sent(l, k)
<1> DEFINE S == OwnUpto(l, k)
<1>1. OwnUpto(l2, k) = S
  BY DEF OwnUpto, IsOwn
<1>2. S \in SUBSET (1 .. k)
  BY DEF OwnUpto
<1>3. ASSUME NEW j \in 1 .. Cardinality(S)
      PROVE  l2[Ranked(S, j)].at = l[Ranked(S, j)].at
  <2>1. Ranked(S, j) \in 1 .. k
    BY <1>2, RankedMember
  <2> QED BY <2>1
<1> HIDE DEF S
<1>4. Sent(l2, k) = [j \in 1 .. Cardinality(S) |-> l2[Ranked(S, j)].at]
  BY <1>1 DEF Sent
<1>5. Sent(l, k) = [j \in 1 .. Cardinality(S) |-> l[Ranked(S, j)].at]
  BY DEF Sent, S
<1>6. Sent(l2, k) = Sent(l, k)
  BY <1>3, <1>4, <1>5
<1> QED BY <1>1, <1>6 DEF S

\* A message that is not a client's own leaves what the client sees as it was.
LEMMA InternalMessage ==
  ASSUME NEW l, NEW k \in Nat, ~IsOwn(l[k + 1])
  PROVE  OwnUpto(l, k + 1) = OwnUpto(l, k) /\ Sent(l, k + 1) = Sent(l, k)
<1>1. 1 .. k + 1 = (1 .. k) \cup {k + 1}
  OBVIOUS
<1>2. OwnUpto(l, k + 1) = OwnUpto(l, k)
  BY <1>1 DEF OwnUpto
<1> QED BY <1>2 DEF Sent

\* Where a client's own message stands among all of its own.
LEMMA OwnRank ==
  ASSUME NEW l, NEW n \in Nat, NEW k \in Nat, k + 1 <= n, IsOwn(l[k + 1])
  PROVE  LET r == Cardinality(OwnUpto(l, k)) + 1
         IN  /\ r \in 1 .. Cardinality(OwnUpto(l, n))
             /\ Ranked(OwnUpto(l, n), r) = k + 1
             /\ Cardinality(OwnUpto(l, k + 1)) = r
<1> DEFINE S == OwnUpto(l, k)
           T == OwnUpto(l, n)
           p == k + 1
<1>1. S \in SUBSET (1 .. k) /\ T \in SUBSET (1 .. n)
  BY DEF OwnUpto
<1>2. IsFiniteSet(S) /\ Cardinality(S) \in Nat
  BY <1>1, UptoSize
<1>3. p \in T
  BY DEF OwnUpto
<1>4. Upto(T, p) = OwnUpto(l, p)
  <2>1. \A i \in Nat : i \in 1 .. n /\ i <= p <=> i \in 1 .. p
    OBVIOUS
  <2>2. \A i \in (1 .. n) \cup (1 .. p) : i \in Nat
    OBVIOUS
  <2> QED BY <2>1, <2>2 DEF Upto, OwnUpto
<1>5. OwnUpto(l, p) = S \cup {p} /\ p \notin S
  <2>1. 1 .. p = (1 .. k) \cup {p} /\ p \notin 1 .. k
    OBVIOUS
  <2> QED BY <2>1 DEF OwnUpto
<1> HIDE DEF p, S, T
<1>6. Cardinality(S \cup {p}) = Cardinality(S) + 1
  BY <1>2, <1>5, FS_AddElement
<1>7. Cardinality(Upto(T, p)) = Cardinality(S) + 1
  BY <1>4, <1>5, <1>6
<1>8. /\ Cardinality(Upto(T, p)) \in 1 .. Cardinality(T)
      /\ Ranked(T, Cardinality(Upto(T, p))) = p
  BY <1>1, <1>3, RankedIs
<1>9. /\ Cardinality(S) + 1 \in 1 .. Cardinality(T)
      /\ Ranked(T, Cardinality(S) + 1) = p
      /\ Cardinality(OwnUpto(l, p)) = Cardinality(S) + 1
  BY <1>4, <1>7, <1>8
<1> QED BY <1>9 DEF p, S, T

\* The address of a client's own message in what the client sees.
LEMMA SentAt ==
  ASSUME NEW l, NEW n \in Nat, NEW k \in Nat, k + 1 <= n, IsOwn(l[k + 1])
  PROVE  Sent(l, n)[Cardinality(OwnUpto(l, k)) + 1] = l[k + 1].at
<1> DEFINE r == Cardinality(OwnUpto(l, k)) + 1
<1>1. r \in 1 .. Cardinality(OwnUpto(l, n)) /\ Ranked(OwnUpto(l, n), r) = k + 1
  BY OwnRank
<1> HIDE DEF r
<1>2. Sent(l, n)[r] = l[Ranked(OwnUpto(l, n), r)].at
  BY <1>1 DEF Sent
<1> QED BY <1>1, <1>2 DEF r

\* A client's own message comes behind all that the client saw before.
LEMMA OwnMessage ==
  ASSUME NEW l \in Seq(Message), NEW k \in Nat, k + 1 <= Len(l), IsOwn(l[k + 1])
  PROVE  Sent(l, k + 1) = Append(Sent(l, k), l[k + 1].at)
<1> DEFINE p == k + 1
           S == OwnUpto(l, k)
           T == OwnUpto(l, p)
           c == Cardinality(S)
           a == Sent(l, k)
           b == Sent(l, p)
           e == l[p].at
<1>1. Len(l) \in Nat /\ k \in 0 .. Len(l) /\ p \in 0 .. Len(l) /\ p \in 1 .. Len(l)
  OBVIOUS
<1>2. a \in Seq(Address) /\ Len(a) = c /\ c \in Nat
  BY <1>1, SentType
<1>3. b \in Seq(Address) /\ Len(b) = Cardinality(T)
  BY <1>1, SentType
<1>4. Cardinality(T) = c + 1 /\ b[c + 1] = e
  <2>1. k + 1 <= p /\ p \in Nat
    BY <1>1
  <2>2. Cardinality(T) = c + 1
    BY <2>1, OwnRank
  <2>3. b[c + 1] = e
    BY <2>1, SentAt
  <2> QED BY <2>2, <2>3
<1>5. e \in Address
  <2>1. l[p] \in Message
    BY <1>1, ElementOfSeq
  <2> QED BY <2>1 DEF Message
<1>6. ASSUME NEW j \in 1 .. c PROVE b[j] = a[j]
  <2>1. T \in SUBSET (1 .. p) /\ p \in Nat
    BY DEF OwnUpto
  <2>2. S = Upto(T, k)
    <3>1. \A i \in Nat : i \in 1 .. p /\ i <= k <=> i \in 1 .. k
      OBVIOUS
    <3>2. \A i \in (1 .. k) \cup (1 .. p) : i \in Nat
      OBVIOUS
    <3> QED BY <3>1, <3>2 DEF Upto, OwnUpto
  <2> HIDE DEF S, T, p
  <2>3. j \in 1 .. Cardinality(Upto(T, k))
    BY <1>6, <2>2
  <2>4. Ranked(T, j) = Ranked(S, j) /\ j \in 1 .. Cardinality(T)
    BY <2>1, <2>2, <2>3, RankedBelow
  <2>5. a[j] = l[Ranked(S, j)].at
    BY <1>6 DEF Sent, S
  <2>6. b[j] = l[Ranked(T, j)].at
    BY <2>4 DEF Sent, T
  <2> QED BY <2>4, <2>5, <2>6
<1> HIDE DEF a, b, c, e, T, p
<1>7. /\ Append(a, e) \in Seq(Address) /\ Len(Append(a, e)) = c + 1
      /\ \A j \in 1 .. c : Append(a, e)[j] = a[j]
      /\ Append(a, e)[c + 1] = e
  BY <1>2, <1>5, AppendProperties
<1>8. \A j \in 1 .. c + 1 : b[j] = Append(a, e)[j]
  <2> TAKE j \in 1 .. c + 1
  <2>1. j \in 1 .. c \/ j = c + 1
    BY <1>2
  <2> QED BY <2>1, <1>4, <1>6, <1>7
<1>9. b = Append(a, e)
  BY <1>2, <1>3, <1>4, <1>7, <1>8, SeqEqual
<1> QED BY <1>9 DEF a, b, e, p
-----------------------------------------------------------------------------
(* The queue implements OrderedDelivery: every step is one of its steps, or   *)
(* none that a client sees.                                                  *)

\* The state that OrderedDelivery sees, by how far log goes, is published and is
\* executed.
Mapped ==
  /\ ClientMessages([i \in 1 .. Len(log) |-> i]) = Sent(log, Len(log))
  /\ Cardinality(Own(log, [i \in 1 .. written |-> i])) = Cardinality(OwnUpto(log, written))
  /\ ClientMessages(done) = Sent(log, Len(done))

LEMMA MappedHolds == IInv => Mapped
<1> SUFFICES ASSUME IInv PROVE Mapped
  OBVIOUS
<1>1. log \in Seq(Message) /\ written \in Nat /\ done \in Seq(Nat)
  BY DEF IInv, TypeOK
<1>2. Len(log) \in Nat /\ Len(done) \in Nat
  BY <1>1
<1>3. done = [i \in 1 .. Len(done) |-> i]
  <2> DEFINE n == Len(done)
             s == [i \in 1 .. n |-> i]
  <2>1. s \in Seq(Nat) /\ Len(s) = n
    BY <1>2
  <2>2. \A i \in 1 .. Len(done) : done[i] = s[i]
    BY DEF IInv, History, ExecutedInOrder
  <2> HIDE DEF s
  <2>3. done = s
    BY <1>1, <2>1, <2>2, SeqEqual
  <2> QED BY <2>3 DEF s
<1>4. ClientMessages([i \in 1 .. Len(log) |-> i]) = Sent(log, Len(log))
  BY <1>2, MessagesUpto DEF ClientMessages
<1>5. Own(log, [i \in 1 .. written |-> i]) = OwnUpto(log, written)
  BY <1>1, MessagesUpto
<1>6. ClientMessages(done) = Sent(log, Len(done))
  BY <1>2, <1>3, MessagesUpto DEF ClientMessages
<1> QED BY <1>4, <1>5, <1>6 DEF Mapped

Blocked == ~immediate /\ ppc \in Waiting

\* What each step of OrderedDelivery is in terms of the queue.
LEMMA SendStep ==
  ASSUME Mapped, Mapped', ~Blocked, NEW e \in Address,
         Sent(log, Len(log)) \in Seq(Address),
         Sent(log', Len(log')) = Append(Sent(log, Len(log)), e),
         \/ /\ Cardinality(OwnUpto(log', written')) = Cardinality(OwnUpto(log, written))
            /\ ~Blocked'
         \/ /\ Cardinality(OwnUpto(log', written')) = Len(Sent(log', Len(log')))
            /\ Cardinality(OwnUpto(log, written)) # Len(Sent(log', Len(log')))
         \/ /\ Cardinality(OwnUpto(log', written')) = Len(Sent(log', Len(log')))
            /\ ~Blocked',
         Sent(log', Len(done')) = Sent(log, Len(done))
  PROVE  Delivery!Send
<1> DEFINE s == Sent(log, Len(log))
           t == Sent(log', Len(log'))
           p == Cardinality(OwnUpto(log, written))
           q == Cardinality(OwnUpto(log', written'))
<1>1. t = Append(s, e) /\ s \in Seq(Address)
  OBVIOUS
<1> HIDE DEF s, t
<1>2. t # <<>> /\ t[Len(t)] \in Address /\ SubSeq(t, 1, Len(t) - 1) = s
  <2>1. /\ Append(s, e) \in Seq(Address) /\ Len(Append(s, e)) = Len(s) + 1
        /\ \A i \in 1 .. Len(s) : Append(s, e)[i] = s[i]
        /\ Append(s, e)[Len(s) + 1] = e /\ Len(s) \in Nat
    BY <1>1, AppendProperties
  <2>2. t # <<>>
    <3>1. Len(t) # 0
      BY <1>1, <2>1
    <3> QED BY <3>1
  <2>3. Len(t) - 1 = Len(s) /\ t[Len(t)] = e
    BY <1>1, <2>1
  <2>4. SubSeq(t, 1, Len(s)) = s
    <3> DEFINE n == Len(s)
               f == SubSeq(t, 1, n)
    <3>1. n \in Nat /\ \A i \in 1 .. n : t[i] = s[i] /\ t[i] \in Address
      BY <1>1, <2>1, ElementOfSeq
    <3>2. f \in Seq(Address) /\ Len(f) = (IF 1 <= n THEN n - 1 + 1 ELSE 0)
          /\ \A i \in 1 .. n - 1 + 1 : f[i] = t[1 + i - 1]
      BY <3>1, SubSeqProperties
    <3> HIDE DEF f
    <3>3. n - 1 + 1 = n /\ \A i \in 1 .. n : 1 + i - 1 = i
      BY <3>1
    <3>4. Len(f) = n /\ \A i \in 1 .. n : f[i] = t[i]
      BY <3>1, <3>2, <3>3
    <3>5. f = s
      BY <1>1, <3>1, <3>2, <3>4, SeqEqual
    <3> QED BY <3>5 DEF f
  <2> QED BY <2>2, <2>3, <2>4
<1>3. q \in {p, Len(t)} /\ Blocked' \in IF q = p THEN {FALSE} ELSE BOOLEAN
  <2>1. Blocked' \in BOOLEAN
    BY DEF Blocked
  <2> QED BY <2>1 DEF t
<1>4. /\ ClientMessages([i \in 1 .. Len(log) |-> i]) = s
      /\ ClientMessages([i \in 1 .. Len(log) |-> i])' = t
      /\ Cardinality(Own(log, [i \in 1 .. written |-> i])) = p
      /\ Cardinality(Own(log, [i \in 1 .. written |-> i]))' = q
      /\ ClientMessages(done)' = ClientMessages(done)
  BY DEF Mapped, s, t
<1> HIDE DEF p, q
<1> QED BY <1>2, <1>3, <1>4 DEF Delivery!Send, Blocked

\* A step that a client does not see.
LEMMA UnseenStep ==
  ASSUME Mapped, Mapped', Blocked' = Blocked,
         Sent(log', Len(log')) = Sent(log, Len(log)),
         Cardinality(OwnUpto(log', written')) = Cardinality(OwnUpto(log, written)),
         Sent(log', Len(done')) = Sent(log, Len(done))
  PROVE  UNCHANGED Delivery!vars
<1>1. /\ ClientMessages([i \in 1 .. Len(log) |-> i])' = ClientMessages([i \in 1 .. Len(log) |-> i])
      /\ Cardinality(Own(log, [i \in 1 .. written |-> i]))' = Cardinality(Own(log, [i \in 1 .. written |-> i]))
      /\ ClientMessages(done)' = ClientMessages(done)
  BY DEF Mapped
<1> QED BY <1>1 DEF Delivery!vars, Blocked

LEMMA PublishStep ==
  ASSUME Mapped, Mapped', ~Blocked, ~Blocked',
         Sent(log', Len(log')) = Sent(log, Len(log)),
         Cardinality(OwnUpto(log', written')) = Len(Sent(log, Len(log))),
         Sent(log', Len(done')) = Sent(log, Len(done))
  PROVE  Delivery!Publish
<1>1. /\ ClientMessages([i \in 1 .. Len(log) |-> i])' = ClientMessages([i \in 1 .. Len(log) |-> i])
      /\ Cardinality(Own(log, [i \in 1 .. written |-> i]))' = Len(ClientMessages([i \in 1 .. Len(log) |-> i]))
      /\ ClientMessages(done)' = ClientMessages(done)
  BY DEF Mapped
<1>2. Blocked' = Blocked
  BY DEF Blocked
<1> QED BY <1>1, <1>2 DEF Delivery!Publish, Blocked

LEMMA DeliverStep ==
  ASSUME Mapped, Mapped', Blocked' = Blocked,
         Sent(log', Len(log')) = Sent(log, Len(log)),
         Cardinality(OwnUpto(log', written')) = Cardinality(OwnUpto(log, written)),
         Len(Sent(log, Len(done))) < Cardinality(OwnUpto(log, written)),
         Sent(log', Len(done')) =
           Append(Sent(log, Len(done)), Sent(log, Len(log))[Len(Sent(log, Len(done))) + 1])
  PROVE  Delivery!Deliver
<1>1. /\ ClientMessages([i \in 1 .. Len(log) |-> i])' = ClientMessages([i \in 1 .. Len(log) |-> i])
      /\ Cardinality(Own(log, [i \in 1 .. written |-> i]))' = Cardinality(Own(log, [i \in 1 .. written |-> i]))
      /\ Len(ClientMessages(done)) < Cardinality(Own(log, [i \in 1 .. written |-> i]))
      /\ ClientMessages(done)' =
           Append(ClientMessages(done),
                  ClientMessages([i \in 1 .. Len(log) |-> i])[Len(ClientMessages(done)) + 1])
  BY DEF Mapped
<1> QED BY <1>1 DEF Delivery!Deliver, Blocked

LEMMA ReturnStep ==
  ASSUME Mapped, Mapped', Blocked, ~Blocked',
         Sent(log', Len(log')) = Sent(log, Len(log)),
         Cardinality(OwnUpto(log', written')) = Cardinality(OwnUpto(log, written)),
         Sent(log', Len(done')) = Sent(log, Len(done)),
         Len(done) = Len(log)
  PROVE  Delivery!Return
<1>1. /\ ClientMessages([i \in 1 .. Len(log) |-> i])' = ClientMessages([i \in 1 .. Len(log) |-> i])
      /\ Cardinality(Own(log, [i \in 1 .. written |-> i]))' = Cardinality(Own(log, [i \in 1 .. written |-> i]))
      /\ ClientMessages(done)' = ClientMessages(done)
      /\ ClientMessages(done) = ClientMessages([i \in 1 .. Len(log) |-> i])
  BY DEF Mapped
<1>2. (~immediate /\ ppc \in Waiting)' = FALSE
  BY DEF Blocked
<1> QED BY <1>1, <1>2 DEF Delivery!Return, Blocked

\* What a new message of the client does to what the client sees.
LEMMA AllocateSends ==
  ASSUME Layout, NEW kind \in Kind \ {"Dummy", "Switch"}, Allocate(kind)
  PROVE  /\ \A k \in 0 .. Len(log) :
              OwnUpto(log', k) = OwnUpto(log, k) /\ Sent(log', k) = Sent(log, k)
         /\ log' \in Seq(Message) /\ Len(log) < Len(log')
         /\ \E e \in Address : Sent(log', Len(log')) = Append(Sent(log, Len(log)), e)
<1> DEFINE n == Len(log)
           l == log'
<1>1. /\ Layout' /\ Len(l) \in {n + 1, n + 3}
      /\ \A i \in 1 .. n : l[i] = log[i]
      /\ \A i \in n + 1 .. Len(l) - 1 : l[i].kind \in {"Dummy", "Switch"}
  BY AllocateLayout
<1>2. l \in Seq(Message) /\ n \in Nat /\ log \in Seq(Message)
  BY <1>1 DEF Layout, WellFormed
<1>3. IsOwn(l[Len(l)])
  <2>1. ASSUME NEW s, s \in Seq(Message), NEW m \in Message, l = Append(s, m), IsOwn(m)
        PROVE  IsOwn(l[Len(l)])
    BY <2>1
  <2>2. \A c, o \in Nat : Msg(kind, c, o) \in Message /\ IsOwn(Msg(kind, c, o))
    BY MsgType DEF IsOwn, Msg
  <2>3. wchunk \in Nat /\ offset \in Nat /\ wchunk + 1 \in Nat
    BY DEF Layout, WellFormed
  <2>4. CASE Fits
    BY <1>2, <2>1, <2>2, <2>3, <2>4 DEF Allocate
  <2>5. CASE ~Fits
    <3> DEFINE h == Msg("Dummy", wchunk + 1, 0)
               s == Append(Append(log, SwitchMsg), h)
               m == Msg(kind, wchunk + 1, 1)
    <3>1. l = Append(s, m)
      BY <2>5 DEF Allocate
    <3>2. h \in Message
      BY <2>3, MsgType DEF Kind
    <3>3. SwitchMsg \in Message
      BY <2>3 DEF SwitchMsg, Message, Address, Kind
    <3>4. s \in Seq(Message)
      BY <1>2, <3>2, <3>3
    <3>5. m \in Message /\ IsOwn(m)
      BY <2>2, <2>3
    <3> HIDE DEF s, m
    <3> QED BY <2>1, <3>1, <3>4, <3>5
  <2> QED BY <2>4, <2>5
<1> HIDE DEF l
<1>4. ASSUME NEW k \in 0 .. n
      PROVE  OwnUpto(l, k) = OwnUpto(log, k) /\ Sent(l, k) = Sent(log, k)
  <2>1. k \in Nat /\ \A i \in 1 .. k : l[i].kind = log[i].kind /\ l[i].at = log[i].at
    BY <1>1, <1>2
  <2> QED BY <2>1, SentSame
<1>5. Sent(l, n) = Sent(log, n)
  BY <1>2, <1>4
<1>6. \A k \in Nat : k + 1 \in n + 1 .. Len(l) - 1 => Sent(l, k + 1) = Sent(l, k)
  <2> SUFFICES ASSUME NEW k \in Nat, k + 1 \in n + 1 .. Len(l) - 1
               PROVE  Sent(l, k + 1) = Sent(l, k)
    OBVIOUS
  <2>1. ~IsOwn(l[k + 1])
    BY <1>1 DEF IsOwn
  <2> QED BY <2>1, InternalMessage
<1>7. PICK k \in Nat : k + 1 = Len(l) /\ Sent(l, k) = Sent(log, n)
  <2>1. CASE Len(l) = n + 1
    BY <1>2, <1>5, <2>1
  <2>2. CASE Len(l) = n + 3
    <3>1. n + 1 \in n + 1 .. Len(l) - 1 /\ (n + 1) + 1 \in n + 1 .. Len(l) - 1
      BY <1>2, <2>2
    <3>2. Sent(l, n + 1) = Sent(l, n) /\ Sent(l, (n + 1) + 1) = Sent(l, n + 1)
      BY <1>2, <1>6, <3>1
    <3>3. (n + 1) + 1 \in Nat /\ ((n + 1) + 1) + 1 = Len(l)
      BY <1>2, <2>2
    <3> QED BY <1>5, <3>2, <3>3
  <2> QED BY <1>1, <2>1, <2>2
<1>8. Sent(l, Len(l)) = Append(Sent(log, n), l[Len(l)].at)
  <2>1. Sent(l, k + 1) = Append(Sent(l, k), l[k + 1].at)
    BY <1>2, <1>3, <1>7, OwnMessage
  <2> QED BY <1>7, <2>1
<1>9. l[Len(l)].at \in Address
  <2>1. l[Len(l)] \in Message
    BY <1>1, <1>2
  <2> QED BY <2>1 DEF Message
<1>10. n < Len(l)
  BY <1>1, <1>2
<1> QED BY <1>2, <1>4, <1>8, <1>9, <1>10 DEF l

\* How far the queue has come.
LEMMA Progress ==
  ASSUME IInv
  PROVE  /\ log \in Seq(Message) /\ Len(log) \in Nat \ {0}
         /\ written \in 0 .. Len(log) /\ Len(done) \in 0 .. Len(log)
         /\ pending \in Nat /\ written + pending = Len(log)
         /\ done \in Seq(Nat) /\ pos \in 1 .. written
         /\ Len(done) = IF cpc = "exec" THEN pos - 1 ELSE pos
<1>1. /\ log \in Seq(Message) /\ Len(log) > 0 /\ written \in Nat /\ pending \in Nat
      /\ done \in Seq(Nat) /\ pos \in 1 .. Len(log) /\ newCount \in Nat /\ snap \in Nat
  BY DEF IInv, TypeOK
<1>2. Len(log) \in Nat
  BY <1>1
<1>3. pos + newCount = snap /\ snap <= written /\ written + pending = Len(log)
  BY DEF IInv, Counts
<1>4. Len(done) = IF cpc = "exec" THEN pos - 1 ELSE pos
  BY DEF IInv, History
<1>5. pos \in 1 .. written /\ written \in 0 .. Len(log)
  BY <1>1, <1>2, <1>3
<1>6. Len(done) \in 0 .. Len(log)
  BY <1>1, <1>2, <1>4
<1> QED BY <1>1, <1>2, <1>3, <1>4, <1>5, <1>6

\* Steps that neither write, publish nor execute.
LEMMA QuietStep ==
  ASSUME Mapped, Mapped', Blocked' = Blocked, UNCHANGED <<log, written, done>>
  PROVE  UNCHANGED Delivery!vars
BY UnseenStep

LEMMA EnqueueDelivery ==
  ASSUME IInv, Mapped, Mapped', Enqueue PROVE Delivery!Send
<1>1. /\ Layout /\ Allocate("Work") /\ "Work" \in Kind \ {"Dummy", "Switch"}
      /\ written' = written /\ done' = done /\ ~Blocked /\ ~Blocked'
  BY DEF IInv, Enqueue, CanWrite, Blocked, Waiting, Kind
<1>2. /\ log \in Seq(Message) /\ Len(log) \in Nat /\ written \in 0 .. Len(log)
      /\ Len(done) \in 0 .. Len(log)
  BY Progress
<1>3. /\ \A k \in 0 .. Len(log) :
           OwnUpto(log', k) = OwnUpto(log, k) /\ Sent(log', k) = Sent(log, k)
      /\ \E e \in Address : Sent(log', Len(log')) = Append(Sent(log, Len(log)), e)
  BY <1>1, AllocateSends
<1>4. PICK e \in Address : Sent(log', Len(log')) = Append(Sent(log, Len(log)), e)
  BY <1>3
<1>5. OwnUpto(log', written') = OwnUpto(log, written) /\ Sent(log', Len(done')) = Sent(log, Len(done))
  BY <1>1, <1>2, <1>3
<1>6. Sent(log, Len(log)) \in Seq(Address)
  <2>1. Len(log) \in 0 .. Len(log)
    BY <1>2
  <2> QED BY <1>2, <2>1, SentType
<1> QED BY <1>1, <1>4, <1>5, <1>6, SendStep

\* A message that is published with the call that writes it.
LEMMA WriteDelivery ==
  ASSUME IInv, Mapped, Mapped', NEW kind \in Kind \ {"Dummy", "Switch"}, NEW after,
         WriteAndPush(kind, after)
  PROVE  Delivery!Send
<1>1. /\ Layout /\ Allocate(kind) /\ done' = done /\ ~Blocked
      /\ written' = written + pending + Added
  BY DEF IInv, WriteAndPush, CanWrite, Blocked, Waiting
<1>2. /\ log \in Seq(Message) /\ Len(log) \in Nat /\ written \in 0 .. Len(log)
      /\ Len(done) \in 0 .. Len(log) /\ pending \in Nat /\ written + pending = Len(log)
  BY Progress
<1>3. /\ \A k \in 0 .. Len(log) :
           OwnUpto(log', k) = OwnUpto(log, k) /\ Sent(log', k) = Sent(log, k)
      /\ log' \in Seq(Message) /\ Len(log) < Len(log')
      /\ \E e \in Address : Sent(log', Len(log')) = Append(Sent(log, Len(log)), e)
  BY <1>1, AllocateSends
<1>4. PICK e \in Address : Sent(log', Len(log')) = Append(Sent(log, Len(log)), e)
  BY <1>3
<1>5. Sent(log', Len(done')) = Sent(log, Len(done))
  BY <1>1, <1>2, <1>3
<1>6. Len(log') \in Nat /\ written' = Len(log')
  <2>1. Len(log') \in Nat
    BY <1>3
  <2> QED BY <2>1, <1>1, <1>2 DEF Added
<1>7. /\ Sent(log, Len(log)) \in Seq(Address)
      /\ Len(Sent(log, Len(log))) = Cardinality(OwnUpto(log, Len(log)))
      /\ Cardinality(OwnUpto(log, Len(log))) \in Nat
  <2>1. Len(log) \in 0 .. Len(log)
    BY <1>2
  <2> QED BY <1>2, <2>1, SentType
<1>8. Cardinality(OwnUpto(log', written')) = Len(Sent(log', Len(log')))
  <2>1. Len(log') \in 0 .. Len(log')
    BY <1>6
  <2>2. Len(Sent(log', Len(log'))) = Cardinality(OwnUpto(log', Len(log')))
    BY <1>3, <2>1, SentType
  <2> QED BY <1>6, <2>2
<1>9. Cardinality(OwnUpto(log, written)) # Len(Sent(log', Len(log')))
  <2> DEFINE s == Sent(log, Len(log))
  <2>1. Len(Append(s, e)) = Len(s) + 1
    BY <1>7, AppendProperties
  <2>2. Cardinality(OwnUpto(log, written)) <= Cardinality(OwnUpto(log, Len(log)))
    <3>1. OwnUpto(log, written) \in SUBSET OwnUpto(log, Len(log))
      BY <1>2 DEF OwnUpto
    <3>2. IsFiniteSet(OwnUpto(log, Len(log)))
      <4>1. Len(log) \in 0 .. Len(log)
        BY <1>2
      <4> QED BY <1>2, <4>1, SentType
    <3> QED BY <3>1, <3>2, FS_Subset
  <2>3. Cardinality(OwnUpto(log, written)) \in Nat
    BY <1>2, SentType
  <2> QED BY <1>4, <1>7, <2>1, <2>2, <2>3
<1> QED BY <1>1, <1>4, <1>5, <1>7, <1>8, <1>9, SendStep

LEMMA PushDelivery ==
  ASSUME IInv, Mapped, Mapped', Push PROVE Delivery!Publish
<1>1. /\ log' = log /\ done' = done /\ written' = written + pending
      /\ ~Blocked /\ ~Blocked'
  BY DEF Push, Blocked, Waiting
<1>2. log \in Seq(Message) /\ Len(log) \in 0 .. Len(log) /\ written + pending = Len(log)
  BY Progress
<1>3. Cardinality(OwnUpto(log, Len(log))) = Len(Sent(log, Len(log)))
  BY <1>2, SentType
<1> QED BY <1>1, <1>2, <1>3, PublishStep

\* Submitted data adds nothing a client sees, with or without a switch.
LEMMA PlaceDataUnseen ==
  ASSUME Layout, PlaceData
  PROVE  /\ \A k \in 0 .. Len(log) :
              OwnUpto(log', k) = OwnUpto(log, k) /\ Sent(log', k) = Sent(log, k)
         /\ \A k \in Len(log) .. Len(log') :
              OwnUpto(log', k) = OwnUpto(log, Len(log)) /\ Sent(log', k) = Sent(log, Len(log))
         /\ Len(log') = IF wchunk' = wchunk THEN Len(log) ELSE Len(log) + 2
<1> DEFINE n == Len(log)
<1>1. /\ \/ wchunk' = wchunk /\ Len(log') = n
         \/ /\ wchunk' = wchunk + 1 /\ Len(log') = n + 2
            /\ log'[n + 1].kind = "Switch" /\ log'[n + 2].kind = "Dummy"
      /\ \A i \in 1 .. n : log'[i].at = log[i].at /\ log'[i].kind = log[i].kind
  BY PlaceDataLayout
<1>2. n \in Nat /\ wchunk \in Nat
  BY DEF Layout, WellFormed
<1>3. ASSUME NEW k \in 0 .. n
      PROVE  OwnUpto(log', k) = OwnUpto(log, k) /\ Sent(log', k) = Sent(log, k)
  <2>1. k \in Nat /\ \A i \in 1 .. k : log'[i].kind = log[i].kind /\ log'[i].at = log[i].at
    BY <1>1, <1>2
  <2> QED BY <2>1, SentSame
<1>4. OwnUpto(log', n) = OwnUpto(log, n) /\ Sent(log', n) = Sent(log, n)
  BY <1>2, <1>3
<1>5. CASE wchunk' = wchunk
  <2>1. Len(log') = n
    BY <1>1, <1>2, <1>5
  <2>2. \A k \in n .. Len(log') : k = n
    BY <1>2, <2>1
  <2> QED BY <1>3, <1>4, <1>5, <2>1, <2>2
<1>6. CASE wchunk' # wchunk
  <2>1. /\ Len(log') = n + 2
        /\ log'[n + 1].kind = "Switch" /\ log'[n + 2].kind = "Dummy"
    BY <1>1, <1>6
  <2>2. OwnUpto(log', n + 1) = OwnUpto(log', n) /\ Sent(log', n + 1) = Sent(log', n)
    <3>1. ~IsOwn(log'[n + 1])
      BY <2>1 DEF IsOwn
    <3> QED BY <1>2, <3>1, InternalMessage
  <2>3. OwnUpto(log', n + 2) = OwnUpto(log', n + 1) /\ Sent(log', n + 2) = Sent(log', n + 1)
    <3> DEFINE m == n + 1
    <3>1. m \in Nat /\ m + 1 = n + 2
      BY <1>2
    <3>2. ~IsOwn(log'[m + 1])
      BY <2>1, <3>1 DEF IsOwn
    <3> HIDE DEF m
    <3>3. OwnUpto(log', m + 1) = OwnUpto(log', m) /\ Sent(log', m + 1) = Sent(log', m)
      BY <3>1, <3>2, InternalMessage
    <3> QED BY <3>1, <3>3 DEF m
  <2>4. \A k \in n .. Len(log') : k = n \/ k = n + 1 \/ k = n + 2
    BY <1>2, <2>1
  <2> QED BY <1>3, <1>4, <1>6, <2>1, <2>2, <2>3, <2>4
<1> QED BY <1>5, <1>6

LEMMA AllocateDataDelivery ==
  ASSUME IInv, Mapped, Mapped', AllocateData PROVE UNCHANGED Delivery!vars
<1>1. /\ Layout /\ PlaceData /\ written' = written /\ done' = done /\ Blocked' = Blocked
  BY DEF IInv, AllocateData, mvars, Blocked
<1>2. /\ Len(log) \in Nat /\ written \in 0 .. Len(log) /\ Len(done) \in 0 .. Len(log)
  BY Progress
<1>3. OwnUpto(log', written') = OwnUpto(log, written) /\ Sent(log', Len(done')) = Sent(log, Len(done))
  BY <1>1, <1>2, PlaceDataUnseen
<1>4. Sent(log', Len(log')) = Sent(log, Len(log))
  <2>1. Len(log') \in Len(log) .. Len(log')
    BY <1>1, <1>2, PlaceDataUnseen
  <2> QED BY <1>1, <2>1, PlaceDataUnseen
<1> QED BY <1>1, <1>3, <1>4, UnseenStep

LEMMA AllocateDataImmediateDelivery ==
  ASSUME IInv, Mapped, Mapped', AllocateDataImmediate PROVE UNCHANGED Delivery!vars
<1>1. /\ Layout /\ PlaceData /\ Blocked' = Blocked
  BY DEF IInv, AllocateDataImmediate, mvars, Blocked
<1>2. /\ Len(log) \in Nat /\ written \in 0 .. Len(log) /\ Len(done) \in 0 .. Len(log)
      /\ written + pending = Len(log) /\ done \in Seq(Nat) /\ pos \in Nat
  BY Progress
<1>3. /\ pos = Len(log) /\ pending = 0 /\ Len(done) = Len(log) /\ written = Len(log)
  <2>1. pos = Len(log) /\ pending = 0 /\ cpc = "none"
    BY DEF IInv, Immediate, AllocateDataImmediate, CanWrite
  <2>2. Len(done) = IF cpc = "exec" THEN pos - 1 ELSE pos
    BY Progress
  <2> QED BY <1>2, <2>1, <2>2
<1>4. Len(log') \in Len(log) .. Len(log')
  BY <1>1, <1>2, PlaceDataUnseen
<1>5. written' = Len(log') /\ Len(done') = Len(log')
  <2>1. CASE wchunk' = wchunk
    <3>1. written' = written /\ done' = done
      BY <2>1 DEF AllocateDataImmediate
    <3>2. Len(log') = Len(log)
      BY <1>1, <2>1, PlaceDataUnseen
    <3> QED BY <1>3, <3>1, <3>2
  <2>2. CASE wchunk' # wchunk
    <3>1. written' = written + pending + 2 /\ done' = Append(Append(done, pos + 1), pos + 2)
      BY <2>2 DEF AllocateDataImmediate
    <3>2. Len(log') = Len(log) + 2
      BY <1>1, <2>2, PlaceDataUnseen
    <3>3. Len(done') = Len(done) + 2
      BY <1>2, <3>1
    <3> QED BY <1>2, <1>3, <3>1, <3>2, <3>3
  <2> QED BY <2>1, <2>2
<1>6. /\ OwnUpto(log', Len(log')) = OwnUpto(log, Len(log))
      /\ Sent(log', Len(log')) = Sent(log, Len(log))
  BY <1>1, <1>4, PlaceDataUnseen
<1> QED BY <1>1, <1>3, <1>5, <1>6, UnseenStep

LEMMA ExecuteDelivery ==
  ASSUME IInv, Mapped, Mapped', Execute
  PROVE  Delivery!Deliver \/ UNCHANGED Delivery!vars
<1> DEFINE d == Len(done)
<1>1. /\ cpc = "exec" /\ log' = log /\ written' = written /\ done' = Append(done, pos)
      /\ Blocked' = Blocked
  BY DEF Execute, wvars, mvars, Blocked
<1>2. /\ log \in Seq(Message) /\ Len(log) \in Nat /\ written \in 0 .. Len(log)
      /\ d \in 0 .. Len(log) /\ done \in Seq(Nat) /\ pos \in 1 .. written /\ d = pos - 1
  BY <1>1, Progress
<1>3. d \in Nat /\ written \in Nat /\ d + 1 = pos /\ d + 1 <= written /\ d + 1 <= Len(log)
  BY <1>2
<1>4. Len(done') = d + 1
  BY <1>1, <1>2
<1> HIDE DEF d
<1>5. CASE IsOwn(log[d + 1])
  <2>1. Sent(log, d + 1) = Append(Sent(log, d), log[d + 1].at)
    BY <1>2, <1>3, <1>5, OwnMessage
  <2>2. Len(Sent(log, d)) = Cardinality(OwnUpto(log, d))
    BY <1>2, SentType
  <2>3. Sent(log, Len(log))[Cardinality(OwnUpto(log, d)) + 1] = log[d + 1].at
    BY <1>2, <1>3, <1>5, SentAt
  <2>4. Cardinality(OwnUpto(log, d)) < Cardinality(OwnUpto(log, written))
    <3> DEFINE c == Cardinality(OwnUpto(log, d))
               w == Cardinality(OwnUpto(log, written))
    <3>1. c + 1 \in 1 .. w
      BY <1>3, <1>5, OwnRank
    <3>2. c \in Nat /\ w \in Nat
      BY <1>2, SentType
    <3> HIDE DEF c, w
    <3>3. c < w
      BY <3>1, <3>2
    <3> QED BY <3>3 DEF c, w
  <2>5. Sent(log', Len(done')) = Append(Sent(log, Len(done)), Sent(log, Len(log))[Len(Sent(log, Len(done))) + 1])
    BY <1>1, <1>4, <2>1, <2>2, <2>3 DEF d
  <2> QED BY <1>1, <2>2, <2>4, <2>5, DeliverStep DEF d
<1>6. CASE ~IsOwn(log[d + 1])
  <2>1. Sent(log, d + 1) = Sent(log, d)
    BY <1>3, <1>6, InternalMessage
  <2> QED BY <1>1, <1>4, <2>1, UnseenStep DEF d
<1> QED BY <1>5, <1>6

\* The calls that wait come back.
LEMMA WaitDelivery ==
  ASSUME IInv, Mapped, Mapped', WaitReturns \/ Join
  PROVE  Delivery!Return \/ UNCHANGED Delivery!vars
<1>1. /\ log' = log /\ written' = written /\ done' = done
      /\ ppc \in Waiting /\ event > 0 /\ ppc' \notin Waiting
  BY DEF WaitReturns, Join, wvars, Waiting
<1>2. Len(done) = Len(log)
  BY <1>1 DEF IInv, Signalling
<1>3. CASE Blocked
  <2>1. ~Blocked'
    BY <1>1 DEF Blocked
  <2> QED BY <1>1, <1>2, <1>3, <2>1, ReturnStep
<1>4. CASE ~Blocked
  <2>1. Blocked' = Blocked
    BY <1>1, <1>4 DEF Blocked
  <2> QED BY <1>1, <2>1, QuietStep
<1> QED BY <1>3, <1>4

LEMMA OtherCallsDelivery ==
  ASSUME IInv, Mapped, Mapped',
         FreeImmediate \/ KickAndWaitImmediate \/ DestroyImmediate \/ RunConsumerThread \/ Notify
  PROVE  UNCHANGED Delivery!vars
<1>1. UNCHANGED <<log, written, done>>
  BY DEF FreeImmediate, KickAndWaitImmediate, DestroyImmediate, RunConsumerThread, Notify, wvars
<1>2. Blocked' = Blocked
  <2>1. CASE FreeImmediate \/ KickAndWaitImmediate \/ DestroyImmediate
    BY <2>1 DEF FreeImmediate, KickAndWaitImmediate, DestroyImmediate, mvars, Blocked
  <2>2. CASE RunConsumerThread
    BY <2>2 DEF RunConsumerThread, Blocked, Waiting
  <2>3. CASE Notify
    <3>1. immediate' = immediate /\ ppc \in Notifying /\ ppc' = AfterNotify[ppc]
      BY <2>3 DEF Notify, mvars, AfterNotify, Notifying
    <3>2. ppc' \in Waiting <=> ppc \in Waiting
      BY <3>1 DEF AfterNotify, Notifying, Waiting
    <3> QED BY <3>1, <3>2 DEF Blocked
  <2> QED BY <2>1, <2>2, <2>3
<1> QED BY <1>1, <1>2, QuietStep

LEMMA ConsumerDelivery ==
  ASSUME IInv, Mapped, Mapped', Consumer \/ SpuriousWakeup
  PROVE  Delivery!Deliver \/ UNCHANGED Delivery!vars
<1>1. CASE Execute
  BY <1>1, ExecuteDelivery
<1>2. CASE ~Execute
  <2>1. UNCHANGED <<log, written, done, immediate, ppc>>
    BY <1>2 DEF Consumer, SpuriousWakeup, LockAndPull, Unlock, WaitForKick, PullAfterWakeup,
                ReadMessage, FlushReturns, wvars, mvars
  <2>2. Blocked' = Blocked
    BY <2>1 DEF Blocked
  <2> QED BY <2>1, <2>2, QuietStep
<1> QED BY <1>1, <1>2

LEMMA StepDelivery ==
  ASSUME IInv, Mapped, Mapped', [Next]_vars
  PROVE  [Delivery!Next]_(Delivery!vars)
<1>1. CASE Enqueue
  BY <1>1, EnqueueDelivery DEF Delivery!Next
<1>2. CASE AllocateData \/ AllocateDataImmediate
  BY <1>2, AllocateDataDelivery, AllocateDataImmediateDelivery
<1>3. CASE Push
  BY <1>3, PushDelivery DEF Delivery!Next
<1>4. CASE FinishWriting \/ FreeChunksInFreeQueue \/ KickAndWait \/ TerminateConsumerThread
  <2>1. {"Finish", "Free", "Wait", "Terminate"} \subseteq Kind \ {"Dummy", "Switch"}
    BY DEF Kind
  <2>2. \E kind \in {"Finish", "Free", "Wait", "Terminate"}, after \in ProducerPC :
          WriteAndPush(kind, after)
    BY <1>4 DEF FinishWriting, FreeChunksInFreeQueue, KickAndWait, TerminateConsumerThread, ProducerPC
  <2>3. PICK kind \in Kind \ {"Dummy", "Switch"}, after \in ProducerPC : WriteAndPush(kind, after)
    BY <2>1, <2>2
  <2>4. Delivery!Send
    BY <2>3, WriteDelivery
  <2> QED BY <2>4 DEF Delivery!Next
<1>5. CASE FreeImmediate \/ KickAndWaitImmediate \/ DestroyImmediate \/ RunConsumerThread \/ Notify
  BY <1>5, OtherCallsDelivery
<1>6. CASE WaitReturns \/ Join
  BY <1>6, WaitDelivery DEF Delivery!Next
<1>7. CASE Consumer \/ SpuriousWakeup
  BY <1>7, ConsumerDelivery DEF Delivery!Next
<1>8. CASE UNCHANGED vars
  <2>1. UNCHANGED <<log, written, done>> /\ Blocked' = Blocked
    BY <1>8 DEF vars, wvars, mvars, Blocked
  <2> QED BY <2>1, QuietStep
<1> QED BY <1>1, <1>2, <1>3, <1>4, <1>5, <1>6, <1>7, <1>8 DEF Next, Calls, Producer

LEMMA InitDelivery == ASSUME Init, Mapped PROVE Delivery!Init
<1>1. OwnUpto(log, 1) = {}
  BY DEF Init, Msg, OwnUpto, IsOwn
<1>2. Cardinality(OwnUpto(log, 1)) = 0
  BY <1>1, FS_EmptySet
<1>3. Sent(log, 1) = <<>>
  BY <1>2 DEF Sent
<1>4. Len(log) = 1 /\ written = 1 /\ Len(done) = 1
  BY DEF Init
<1>5. ~Blocked
  BY DEF Init, Blocked
<1> QED BY <1>2, <1>3, <1>4, <1>5 DEF Mapped, Delivery!Init, Blocked

\* A client of the queue sees what OrderedDelivery promises: its messages are
\* executed in the order in which it wrote them, each once and only when
\* published, across chunk switches, submitted data, freed chunks and changes of
\* the mode, and a call that waits returns only when all of them were executed.
THEOREM QueueDelivers == Spec => Delivery!Safety
<1>1. Init /\ Mapped => Delivery!Init
  BY InitDelivery
<1>2. IInv /\ Mapped /\ Mapped' /\ [Next]_vars => [Delivery!Next]_(Delivery!vars)
  BY StepDelivery
<1> QED BY <1>1, <1>2, Invariance, MappedHolds, PTL DEF Spec, Delivery!Safety
=============================================================================

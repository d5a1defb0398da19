-------------------------- MODULE FrameLoopProofs ---------------------------
(***************************************************************************)
(* Proofs about FrameLoop, for any number of command buffers, frames ahead   *)
(* and chunks.  The inductive invariant orders the messages of a queue by    *)
(* frame, staging memory and chunk, and says which frames have their flush,  *)
(* finish and present still in a queue.                                     *)
(***************************************************************************)
EXTENDS FrameLoop, TLAPS,
        FunctionTheorems, FiniteSetTheorems, SequenceTheorems,
        WellFoundedInduction

\* Tail, place by place.
LEMMA Tailed ==
  ASSUME NEW S, NEW s \in Seq(S), s # << >>
  PROVE  /\ Tail(s) \in Seq(S) /\ Len(Tail(s)) = Len(s) - 1
         /\ Len(s) \in Nat \ {0} /\ DOMAIN s = 1..Len(s)
         /\ DOMAIN Tail(s) = 1..Len(s) - 1
         /\ \A i \in 1..Len(s) - 1 : Tail(s)[i] = s[i + 1]
         /\ Head(s) = s[1] /\ Head(s) \in S
<1>1. Tail(s) \in Seq(S) /\ Len(Tail(s)) = Len(s) - 1 /\ Head(s) \in S
  BY HeadTailProperties
<1>2. DOMAIN Tail(s) = 1..Len(s) - 1
  BY <1>1, LenProperties
<1>3. DOMAIN s = 1..Len(s) /\ Len(s) \in Nat \ {0}
  BY LenProperties, EmptySeq
<1>4. \A i \in 1..Len(s) - 1 : Tail(s)[i] = s[i + 1]
  BY <1>1, HeadTailProperties
<1> QED
  BY <1>1, <1>2, <1>3, <1>4

\* A function from 1..n is a sequence of length n.
LEMMA SeqFun ==
  ASSUME NEW S, NEW n \in Nat, NEW f \in [1..n -> S]
  PROVE  f \in Seq(S) /\ Len(f) = n
<1>1. f \in Seq(S)
  <2>1. \A i \in 1..n : f[i] \in S
    OBVIOUS
  <2>2. f = [i \in 1..n |-> f[i]]
    OBVIOUS
  <2>3. [i \in 1..n |-> f[i]] \in Seq(S)
    BY <2>1
  <2> QED
    BY <2>2, <2>3
<1>2. Len(f) \in Nat /\ 1..Len(f) = 1..n
  BY <1>1, LenProperties
<1> QED
  BY <1>1, <1>2
-----------------------------------------------------------------------------

\* Frames whose commands, and whose present, have been written.
Given == frame + (IF game = "record" THEN 0 ELSE 1)
Presented == frame + (IF game = "wait" THEN 1 ELSE 0)

\* What a queue has between an earlier message and a later one.
Precedes(m, n) ==
  /\ m.frame <= n.frame /\ m.gen <= n.gen /\ m.chunk <= n.chunk
  /\ m.kind = "finish" => m.frame < n.frame
  /\ m.kind = "flush" /\ n.kind = "flush" => m.frame < n.frame
  /\ m.kind = "present" /\ n.kind # "free" => m.frame < n.frame
  /\ m.kind = "resize" => m.gen < n.gen
  /\ m.kind = "switch" => m.chunk < n.chunk
Ordered ==
  \A q \in Queues : \A i, j \in DOMAIN unread[q] :
    i < j => Precedes(unread[q][i], unread[q][j])

\* A message against what is being written, and against what was read.
Fits(q, m) ==
  /\ m.frame <= frame /\ m.gen <= gen
  /\ stands[q] <= m.chunk /\ m.chunk <= chunk[q]
  /\ m.kind = "finish" => q # Main /\ m.frame < Given
  /\ m.kind = "flush" => q = Main /\ m.frame < Given
  /\ m.kind = "present" => q = Main /\ m.frame < Presented
  /\ m.kind = "resize" => q = Main /\ m.gen < gen
  /\ m.kind = "switch" => m.chunk < chunk[q]
Fitting ==
  \A q \in Queues : /\ stands[q] <= chunk[q]
                    /\ \A i \in DOMAIN unread[q] : Fits(q, unread[q][i])

In(q, kind, f) == \E i \in DOMAIN unread[q] :
                    unread[q][i].kind = kind /\ unread[q][i].frame = f

\* The frames that are still to be presented, flushed and finished.
From(c, r) == IF c \in flushing THEN shown ELSE r
Alternates(r) ==
  /\ r \in {shown, shown + 1} /\ r <= Given /\ (flushing # {} => r = shown + 1)
  /\ \A f \in Nat : In(Main, "flush", f) <=> r <= f /\ f < Given
  /\ \A c \in 1..Cmds :
       /\ \A f \in Nat : In(c, "finish", f) <=> From(c, r) <= f /\ f < Given
       /\ \A i \in DOMAIN unread[c] : unread[c][i].frame >= From(c, r)
Alternating ==
  /\ shown <= Presented /\ sem = Ahead - (frame - shown)
  /\ \A f \in Nat : In(Main, "present", f) <=> shown <= f /\ f < Presented
  /\ \A i \in DOMAIN unread[Main] :
       unread[Main][i].kind = "update" => unread[Main][i].frame >= shown
  /\ \E r \in Nat : Alternates(r)

\* The slot of a message that is some frames old.
SlotOf(d) == IF d <= index THEN index - d ELSE index - d + MaxFrameIndex
Placed ==
  \A q \in Queues : \A i \in DOMAIN unread[q] :
    LET m == unread[q][i] IN
    m.kind = "update" => m.slot = SlotOf(Presented - m.frame)
                         /\ slots[m.slot] = m.frame

\* A chunk in the stash is behind its reader, but for the one in which the only
\* active reader has read a switch.
Active(q) == IF q = Main THEN flushing = {} /\ published > 0 ELSE q \in AtWork
Behind ==
  /\ \A e \in stash \cup freed : e[2] <= stands[e[1]]
  /\ \A q \in Queues :
       <<q, stands[q]>> \in stash \cup freed =>
         /\ <<q, stands[q]>> \notin freed /\ Active(q)
         /\ stands[q] < chunk[q]
         /\ \A i \in DOMAIN unread[q] : stands[q] < unread[q][i].chunk
  /\ \A i \in {published, Len(unread[Main])} : i > 0 => unread[Main][i].kind # "switch"

\* An update outlives no resize that it was recorded before: such a resize
\* comes behind the update's flush.
Covered(c, m, i) ==
  \/ c \in flushing /\ m.frame = shown
  \/ \E j \in 1..i - 1 : unread[Main][j].kind = "flush" /\ unread[Main][j].frame = m.frame
Generations ==
  /\ gone < gen
  /\ \A i \in DOMAIN unread[Main] : unread[Main][i].gen > gone
  /\ ~late => \A c \in 1..Cmds : \A k \in DOMAIN unread[c] :
       LET m == unread[c][k] IN
       m.kind = "update" =>
         /\ m.gen > gone
         /\ \A i \in DOMAIN unread[Main] :
              unread[Main][i].kind = "resize" /\ unread[Main][i].gen >= m.gen
                => Covered(c, m, i)

Parts == Ordered /\ Fitting /\ Alternating /\ Placed /\ Behind /\ Generations
IInv == TypeOK /\ Parts
-----------------------------------------------------------------------------
(* What a step does to the queues                                          *)

LEMMA QueueKinds ==
  /\ Main \in Queues /\ 1..Cmds \subseteq Queues /\ Main \notin 1..Cmds
  /\ \A q \in Queues : q = Main \/ q \in 1..Cmds
BY FrameAssumption DEF Main, Queues

LEMMA Typed ==
  ASSUME TypeOK
  PROVE  /\ Main \in Queues /\ 1..Cmds \subseteq Queues /\ Main \notin 1..Cmds
         /\ \A q \in Queues : q = Main \/ q \in 1..Cmds
         /\ \A q \in Queues :
              /\ unread[q] \in Seq(Messages) /\ Len(unread[q]) \in Nat
              /\ DOMAIN unread[q] = 1..Len(unread[q])
              /\ \A i \in 1..Len(unread[q]) : unread[q][i] \in Messages
              /\ chunk[q] \in 1..MaxChunks /\ stands[q] \in 1..MaxChunks
<1>1. Main \in Queues /\ 1..Cmds \subseteq Queues /\ Main \notin 1..Cmds
      /\ \A q \in Queues : q = Main \/ q \in 1..Cmds
  BY QueueKinds
<1>2. \A q \in Queues : unread[q] \in Seq(Messages)
  BY DEF TypeOK
<1>3. \A q \in Queues : Len(unread[q]) \in Nat /\ DOMAIN unread[q] = 1..Len(unread[q])
  BY <1>2, LenProperties
<1>4. \A q \in Queues : \A i \in 1..Len(unread[q]) : unread[q][i] \in Messages
  BY <1>2, ElementOfSeq
<1>5. \A q \in Queues : chunk[q] \in 1..MaxChunks /\ stands[q] \in 1..MaxChunks
  BY DEF TypeOK
<1> QED
  BY <1>1, <1>2, <1>3, <1>4, <1>5

Kinds == {"update", "resize", "switch", "free", "finish", "flush", "present"}
LEMMA MessageFields ==
  ASSUME NEW m \in Messages
  PROVE  /\ m.kind \in Kinds /\ m.chunk \in 1..MaxChunks /\ m.chunk \in Nat
         /\ m.frame \in Nat /\ m.slot \in 0..Ahead /\ m.gen \in Nat \ {0}
BY FrameAssumption DEF Messages, Kinds

\* A queue grows by messages of these kinds, behind a switch or not.
Added(q, kinds) ==
  \E k \in {0, 1} :
    /\ chunk'[q] = chunk[q] + k /\ (kinds = << >> => k = 0)
    /\ unread'[q] \in Seq(Messages)
    /\ Len(unread'[q]) = Len(unread[q]) + k + Len(kinds)
    /\ \A i \in 1..Len(unread[q]) : unread'[q][i] = unread[q][i]
    /\ k = 1 => unread'[q][Len(unread[q]) + 1] = Msg("switch", chunk[q])
    /\ \A i \in 1..Len(kinds) :
         unread'[q][Len(unread[q]) + k + i] = Msg(kinds[i], chunk[q] + k)

LEMMA Difference ==
  ASSUME NEW i \in Int, NEW l \in Int, NEW k \in Int
  PROVE  i = l + k + (i - (l + k)) /\ i - (l + k) \in Int
OBVIOUS

LEMMA Concatenated ==
  ASSUME NEW S, NEW s \in Seq(S), NEW a \in Seq(S), NEW b \in Seq(S)
  PROVE  /\ s \o a \o b \in Seq(S) /\ Len(s \o a \o b) = Len(s) + Len(a) + Len(b)
         /\ \A i \in 1..Len(s) : (s \o a \o b)[i] = s[i]
         /\ \A i \in 1..Len(a) : (s \o a \o b)[Len(s) + i] = a[i]
         /\ \A i \in 1..Len(b) : (s \o a \o b)[Len(s) + Len(a) + i] = b[i]
<1> DEFINE u == s \o a
           t == u \o b
<1>1. Len(s) \in Nat /\ Len(a) \in Nat /\ Len(b) \in Nat
  BY LenProperties
<1>2. u \in Seq(S) /\ Len(u) = Len(s) + Len(a)
      /\ \A i \in 1..Len(s) + Len(a) : u[i] = IF i <= Len(s) THEN s[i] ELSE a[i - Len(s)]
  BY <1>1, ConcatProperties
<1> HIDE DEF u
<1>3. t \in Seq(S) /\ Len(t) = Len(u) + Len(b)
      /\ \A i \in 1..Len(u) + Len(b) : t[i] = IF i <= Len(u) THEN u[i] ELSE b[i - Len(u)]
  <2>1. u \in Seq(S)
    BY <1>2
  <2> QED
    BY <2>1, ConcatProperties
<1> HIDE DEF t
<1>4. \A i \in 1..Len(s) : t[i] = s[i]
  BY <1>1, <1>2, <1>3
<1>5. ASSUME NEW i \in 1..Len(a) PROVE t[Len(s) + i] = a[i]
  <2>1. (Len(s) + i) - Len(s) = i /\ ~(Len(s) + i <= Len(s))
        /\ Len(s) + i \in 1..Len(s) + Len(a) /\ Len(s) + i \in 1..Len(u) + Len(b)
        /\ Len(s) + i <= Len(u)
    BY <1>1, <1>2
  <2> QED
    BY <1>2, <1>3, <2>1
<1>6. ASSUME NEW i \in 1..Len(b) PROVE t[Len(s) + Len(a) + i] = b[i]
  <2>1. (Len(s) + Len(a) + i) - Len(u) = i /\ ~(Len(s) + Len(a) + i <= Len(u))
        /\ Len(s) + Len(a) + i \in 1..Len(u) + Len(b)
    BY <1>1, <1>2
  <2> QED
    BY <1>3, <2>1
<1>7. t \in Seq(S) /\ Len(t) = Len(s) + Len(a) + Len(b)
  BY <1>1, <1>2, <1>3
<1> QED
  BY <1>4, <1>5, <1>6, <1>7 DEF t, u

LEMMA Written ==
  ASSUME TypeOK, NEW kinds, DOMAIN kinds \subseteq Queues, Write(kinds),
         \A q \in DOMAIN kinds : kinds[q] \in Seq(Kinds) /\ kinds[q] # << >>
  PROVE  /\ chunk' \in [Queues -> 1..MaxChunks] /\ unread' \in [Queues -> Seq(Messages)]
         /\ \A q \in Queues : Added(q, IF q \in DOMAIN kinds THEN kinds[q] ELSE << >>)
<1>1. PICK full \in SUBSET DOMAIN kinds :
        LET c == [q \in Queues |-> IF q \in full THEN chunk[q] + 1 ELSE chunk[q]] IN
        /\ \A q \in full : c[q] <= MaxChunks
        /\ chunk' = c
        /\ unread' = [q \in Queues |-> unread[q]
              \o (IF q \in full THEN <<Msg("switch", chunk[q])>> ELSE << >>)
              \o (IF q \in DOMAIN kinds
                    THEN [i \in DOMAIN kinds[q] |-> Msg(kinds[q][i], c[q])]
                    ELSE << >>)]
  BY DEF Write
<1>2. chunk' \in [Queues -> 1..MaxChunks]
  <2>1. \A q \in Queues : chunk[q] \in 1..MaxChunks
    BY DEF TypeOK
  <2>2. chunk' = [q \in Queues |-> IF q \in full THEN chunk[q] + 1 ELSE chunk[q]]
    BY <1>1
  <2>3. \A q \in full : q \in Queues /\ chunk[q] + 1 <= MaxChunks
    BY <1>1
  <2>4. \A q \in Queues : (IF q \in full THEN chunk[q] + 1 ELSE chunk[q]) \in 1..MaxChunks
    BY <2>1, <2>3, FrameAssumption
  <2> QED
    BY <2>2, <2>4
<1>3. \A c \in 1..MaxChunks : \A kind \in Kinds : Msg(kind, c) \in Messages
  BY DEF Msg, Messages, TypeOK, Kinds
<1>4. ASSUME NEW q \in Queues
      PROVE  /\ unread'[q] \in Seq(Messages)
             /\ Added(q, IF q \in DOMAIN kinds THEN kinds[q] ELSE << >>)
  <2> DEFINE k == IF q \in full THEN 1 ELSE 0
             ks == IF q \in DOMAIN kinds THEN kinds[q] ELSE << >>
             b == [i \in 1..Len(ks) |-> Msg(ks[i], chunk[q] + k)]
             x == Msg("switch", chunk[q])
             s == unread[q]
  <2>1. ks \in Seq(Kinds) /\ (ks = << >> => k = 0) /\ DOMAIN ks = 1..Len(ks) /\ Len(ks) \in Nat
    BY <1>1, LenProperties
  <2>2. chunk[q] \in 1..MaxChunks /\ chunk'[q] = chunk[q] + k /\ chunk'[q] \in 1..MaxChunks
        /\ k \in {0, 1}
    <3>1. chunk[q] \in 1..MaxChunks /\ chunk'[q] \in 1..MaxChunks
      BY <1>2 DEF TypeOK
    <3>2. chunk'[q] = IF q \in full THEN chunk[q] + 1 ELSE chunk[q]
      BY <1>1
    <3> QED
      BY <3>1, <3>2
  <2>3. x \in Messages /\ s \in Seq(Messages)
    BY <1>3, <2>2 DEF TypeOK, Kinds
  <2>4. b \in Seq(Messages) /\ Len(b) = Len(ks)
    <3>1. \A i \in 1..Len(ks) : Msg(ks[i], chunk[q] + k) \in Messages
      BY <1>3, <2>1, <2>2, ElementOfSeq
    <3>2. b \in [1..Len(ks) -> Messages]
      BY <3>1
    <3> QED
      BY <2>1, <3>2, SeqFun
  <2>5. unread'[q] = s \o (IF k = 1 THEN <<x>> ELSE << >>) \o b
    <3>1. unread'[q] = unread[q]
              \o (IF q \in full THEN <<Msg("switch", chunk[q])>> ELSE << >>)
              \o (IF q \in DOMAIN kinds
                    THEN [i \in DOMAIN kinds[q] |-> Msg(kinds[q][i], chunk'[q])]
                    ELSE << >>)
      BY <1>1
    <3>2. b = IF q \in DOMAIN kinds
                    THEN [i \in DOMAIN kinds[q] |-> Msg(kinds[q][i], chunk'[q])]
                    ELSE << >>
      <4>1. CASE q \in DOMAIN kinds
        BY <2>1, <2>2, <4>1
      <4>2. CASE q \notin DOMAIN kinds
        <5>1. ks = << >> /\ Len(b) = 0 /\ b \in Seq(Messages)
          BY <2>4, <4>2
        <5> QED
          BY <4>2, <5>1, EmptySeq
      <4> QED
        BY <4>1, <4>2
    <3>3. (IF q \in full THEN <<Msg("switch", chunk[q])>> ELSE << >>)
            = (IF k = 1 THEN <<x>> ELSE << >>)
      OBVIOUS
    <3> HIDE DEF b, k, x
    <3> QED
      BY <3>1, <3>2, <3>3
  <2> HIDE DEF k, ks, x, s
  <2>6. /\ unread'[q] \in Seq(Messages) /\ Len(unread'[q]) = Len(s) + k + Len(b)
        /\ \A i \in 1..Len(s) : unread'[q][i] = s[i]
        /\ k = 1 => unread'[q][Len(s) + 1] = x
        /\ \A i \in 1..Len(b) : unread'[q][Len(s) + k + i] = b[i]
    <3> DEFINE a == IF k = 1 THEN <<x>> ELSE << >>
    <3> HIDE DEF b
    <3>1. a \in Seq(Messages) /\ Len(a) = k /\ (k = 1 => a[1] = x)
      BY <2>2, <2>3
    <3>2. b \in Seq(Messages) /\ s \in Seq(Messages) /\ unread'[q] = s \o a \o b
      BY <2>3, <2>4, <2>5
    <3> HIDE DEF a
    <3>3. a \in Seq(Messages) /\ b \in Seq(Messages) /\ s \in Seq(Messages)
      BY <3>1, <3>2
    <3>4. s \o a \o b \in Seq(Messages)
      BY ONLY <3>3, Concatenated
    <3>5. Len(s \o a \o b) = Len(s) + Len(a) + Len(b)
      BY ONLY <3>3, Concatenated
    <3>6. \A i \in 1..Len(s) : (s \o a \o b)[i] = s[i]
      BY ONLY <3>3, Concatenated
    <3>7. \A i \in 1..Len(a) : (s \o a \o b)[Len(s) + i] = a[i]
      BY ONLY <3>3, Concatenated
    <3>8. \A i \in 1..Len(b) : (s \o a \o b)[Len(s) + Len(a) + i] = b[i]
      BY ONLY <3>3, Concatenated
    <3>9. k = 1 => 1 \in 1..Len(a)
      BY <3>1
    <3> QED
      BY <2>2, <3>1, <3>2, <3>4, <3>5, <3>6, <3>7, <3>8, <3>9
  <2>7. \A i \in 1..Len(ks) : unread'[q][Len(s) + k + i] = Msg(ks[i], chunk[q] + k)
    BY <2>4, <2>6
  <2>8. Added(q, ks)
    BY <2>1, <2>2, <2>4, <2>6, <2>7 DEF Added, s, x
  <2> QED
    BY <2>6, <2>8 DEF ks
<1>5. unread' \in [Queues -> Seq(Messages)]
  <2>1. unread' = [q \in Queues |-> unread'[q]]
    BY <1>1
  <2> QED
    BY <1>4, <2>1
<1> QED
  BY <1>2, <1>4, <1>5

\* What the game thread writes at once to one queue.
Batches == {<< >>, <<"update">>, <<"resize">>, <<"flush">>, <<"free", "finish">>,
            <<"present", "free">>}

LEMMA BatchKinds ==
  ASSUME NEW b \in Batches
  PROVE  /\ b \in Seq(Kinds) /\ Len(b) \in 0..2 /\ DOMAIN b = 1..Len(b)
         /\ \A j \in 1..Len(b) : b[j] \in Kinds \ {"switch"}
         /\ (b = << >>) <=> (Len(b) = 0)
<1>1. b \in Seq(Kinds) /\ Len(b) \in 0..2
  <2>1. \A x \in Kinds : <<x>> \in Seq(Kinds) /\ Len(<<x>>) = 1
    OBVIOUS
  <2>2. \A x, y \in Kinds : <<x, y>> \in Seq(Kinds) /\ Len(<<x, y>>) = 2
    OBVIOUS
  <2>4. << >> \in Seq(Kinds) /\ Len(<< >>) = 0
    OBVIOUS
  <2>5. {<<"update">>, <<"resize">>, <<"flush">>} \subseteq {<<x>> : x \in Kinds}
    BY DEF Kinds
  <2>6. {<<"free", "finish">>, <<"present", "free">>} \subseteq {<<x, y>> : x, y \in Kinds}
    BY DEF Kinds
  <2>7. CASE b = << >>
    BY <2>4, <2>7
  <2>8. CASE b \in {<<x>> : x \in Kinds}
    BY <2>1, <2>8
  <2>9. CASE b \in {<<x, y>> : x, y \in Kinds}
    <3>1. PICK x \in Kinds, y \in Kinds : b = <<x, y>>
      BY <2>9
    <3> QED
      BY <2>2, <3>1
  <2> QED
    BY <2>5, <2>6, <2>7, <2>8, <2>9 DEF Batches
<1>2. DOMAIN b = 1..Len(b)
  BY <1>1, LenProperties
<1>3. \A j \in 1..Len(b) : b[j] \in Kinds \ {"switch"}
  BY DEF Batches, Kinds
<1>4. (b = << >>) <=> (Len(b) = 0)
  BY <1>1, EmptySeq
<1> QED
  BY <1>1, <1>2, <1>3, <1>4

\* The message that stands at i is an old one, a switch or one of the batch.
New(q, b, i, n) ==
  /\ n.frame = frame /\ n.gen = gen /\ n.slot = index
  /\ \/ /\ n.kind = "switch" /\ n.chunk = chunk[q] /\ chunk'[q] = chunk[q] + 1
        /\ i = Len(unread[q]) + 1 /\ i < Len(unread'[q])
     \/ /\ n.chunk = chunk'[q]
        /\ \E j \in 1..Len(b) : n.kind = b[j] /\ i = Len(unread'[q]) - Len(b) + j

LEMMA Grown ==
  ASSUME TypeOK, NEW q \in Queues, NEW b \in Batches, Added(q, b)
  PROVE  /\ DOMAIN unread'[q] = 1..Len(unread'[q])
         /\ Len(unread[q]) \in Nat /\ Len(unread'[q]) \in Nat
         /\ Len(unread[q]) <= Len(unread'[q]) - Len(b)
         /\ chunk'[q] \in {chunk[q], chunk[q] + 1}
         /\ \A i \in 1..Len(unread[q]) : unread'[q][i] = unread[q][i]
         /\ \A i \in 1..Len(unread'[q]) : unread'[q][i] \in Messages
         /\ \A i \in 1..Len(unread'[q]) : i > Len(unread[q]) => New(q, b, i, unread'[q][i])
         /\ \A j \in 1..Len(b) : LET i == Len(unread'[q]) - Len(b) + j IN
              i \in 1..Len(unread'[q]) /\ i > Len(unread[q])
              /\ unread'[q][i].kind = b[j] /\ unread'[q][i].frame = frame
<1>1. PICK k \in {0, 1} :
        /\ chunk'[q] = chunk[q] + k /\ (b = << >> => k = 0)
        /\ unread'[q] \in Seq(Messages)
        /\ Len(unread'[q]) = Len(unread[q]) + k + Len(b)
        /\ \A i \in 1..Len(unread[q]) : unread'[q][i] = unread[q][i]
        /\ k = 1 => unread'[q][Len(unread[q]) + 1] = Msg("switch", chunk[q])
        /\ \A i \in 1..Len(b) :
             unread'[q][Len(unread[q]) + k + i] = Msg(b[i], chunk[q] + k)
  BY DEF Added
<1>2. Len(unread[q]) \in Nat /\ Len(b) \in Nat /\ (Len(b) = 0 => k = 0)
      /\ chunk[q] \in 1..MaxChunks /\ k \in {0, 1}
  BY <1>1, Typed, BatchKinds
<1>3. DOMAIN unread'[q] = 1..Len(unread'[q]) /\ Len(unread'[q]) \in Nat
  BY <1>1, LenProperties
<1>4. \A i \in 1..Len(unread'[q]) : unread'[q][i] \in Messages
  BY <1>1, ElementOfSeq
<1>5. \A kind, c : LET m == Msg(kind, c) IN
        m.kind = kind /\ m.chunk = c /\ m.frame = frame /\ m.gen = gen /\ m.slot = index
  BY DEF Msg
<1>6. ASSUME NEW i \in 1..Len(unread'[q]), i > Len(unread[q])
      PROVE  New(q, b, i, unread'[q][i])
  <2> DEFINE j == i - (Len(unread[q]) + k)
  <2>1. CASE k = 1 /\ i = Len(unread[q]) + 1
    <3>1. unread'[q][i] = Msg("switch", chunk[q])
      BY <1>1, <2>1
    <3>2. i < Len(unread'[q])
      BY <1>1, <1>2, <2>1
    <3> QED
      BY <1>1, <1>5, <2>1, <3>1, <3>2 DEF New
  <2>2. CASE ~(k = 1 /\ i = Len(unread[q]) + 1)
    <3>0. i \in Int /\ k \in Int /\ Len(unread[q]) \in Int
      BY <1>2, <1>3
    <3>1. i = Len(unread[q]) + k + j /\ j \in Int
      BY <3>0, Difference
    <3>2. Len(unread'[q]) = Len(unread[q]) + k + Len(b)
      BY <1>1
    <3>3. k \in {0, 1} /\ i > Len(unread[q]) + k /\ i <= Len(unread'[q])
      BY <1>2, <1>3, <1>6, <2>2
    <3>4. j \in 1..Len(b) /\ i = Len(unread[q]) + k + j
          /\ i = Len(unread'[q]) - Len(b) + j
      <4> HIDE DEF j
      <4>1. Len(b) \in Nat /\ Len(unread[q]) \in Nat
        BY <1>2
      <4> QED
        BY <4>1, <3>0, <3>1, <3>2, <3>3
    <3>5. unread'[q][i] = Msg(b[j], chunk[q] + k)
      BY <1>1, <3>4
    <3> HIDE DEF j
    <3> QED
      BY <1>1, <1>5, <3>4, <3>5 DEF New
  <2> QED
    BY <2>1, <2>2
<1>7. ASSUME NEW j \in 1..Len(b)
      PROVE  LET i == Len(unread'[q]) - Len(b) + j IN
             i \in 1..Len(unread'[q]) /\ i > Len(unread[q])
             /\ unread'[q][i].kind = b[j] /\ unread'[q][i].frame = frame
  <2> DEFINE i == Len(unread'[q]) - Len(b) + j
  <2>1. i = Len(unread[q]) + k + j /\ i \in 1..Len(unread'[q]) /\ i > Len(unread[q])
    BY SMTT(20), <1>1, <1>2, <1>3
  <2> HIDE DEF i
  <2>2. unread'[q][i] = Msg(b[j], chunk[q] + k)
    BY <1>1, <2>1
  <2> QED
    BY <1>5, <2>1, <2>2 DEF i
<1>8. Len(unread[q]) <= Len(unread'[q]) - Len(b) /\ chunk'[q] \in {chunk[q], chunk[q] + 1}
  BY <1>1, <1>2, <1>3
<1> QED
  BY <1>1, <1>2, <1>3, <1>4, <1>6, <1>7, <1>8

\* Which batches go to which queue, and when.
Suits(q, b) ==
  /\ b \in Batches /\ game \in {"record", "flushed"}
  /\ b \in {<<"resize">>, <<"flush">>, <<"present", "free">>} => q = Main
  /\ b = <<"free", "finish">> => q # Main
  /\ b # << >> /\ (q # Main \/ b = <<"flush">>) => game = "record"
  /\ b = <<"present", "free">> => game = "flushed"

LEMMA Suiting ==
  ASSUME NEW q, NEW b, Suits(q, b), NEW j \in 1..Len(b)
  PROVE  /\ q # Main => game = "record"
         /\ b[j] = "resize" => q = Main /\ b = <<"resize">>
         /\ b[j] = "flush" => q = Main /\ game = "record" /\ b = <<"flush">>
         /\ b[j] = "finish" => q # Main /\ game = "record" /\ b = <<"free", "finish">>
         /\ b[j] = "present" => q = Main /\ game = "flushed" /\ b = <<"present", "free">>
         /\ b[j] = "update" => b = <<"update">>
         /\ \A h \in 1..Len(b) : h < j => b[h] \in {"free", "present"} /\ (b[h] = "present" => b[j] = "free")
<1>1. CASE b = << >>
  BY <1>1, BatchKinds DEF Suits
<1>2. CASE b = <<"update">>
  <2>1. Len(b) = 1 /\ b[1] = "update"
    BY <1>2
  <2>2. j = 1 /\ b[j] = "update" /\ 1..Len(b) = {1}
    BY <2>1
  <2> QED
    BY <1>2, <2>2 DEF Suits
<1>3. CASE b = <<"resize">>
  <2>1. Len(b) = 1 /\ b[1] = "resize"
    BY <1>3
  <2>2. j = 1 /\ b[j] = "resize" /\ 1..Len(b) = {1}
    BY <2>1
  <2> QED
    BY <1>3, <2>2 DEF Suits
<1>4. CASE b = <<"flush">>
  <2>1. Len(b) = 1 /\ b[1] = "flush"
    BY <1>4
  <2>2. j = 1 /\ b[j] = "flush" /\ 1..Len(b) = {1}
    BY <2>1
  <2> QED
    BY <1>4, <2>2 DEF Suits
<1>5. CASE b = <<"free", "finish">>
  <2>1. Len(b) = 2 /\ b[1] = "free" /\ b[2] = "finish"
    BY <1>5
  <2>2. j \in {1, 2} /\ 1..Len(b) = {1, 2}
    BY <2>1
  <2>3. b # << >> /\ b \notin {<<"resize">>, <<"flush">>, <<"present", "free">>} /\ b # <<"update">>
    BY <1>5
  <2> QED
    BY <1>5, <2>1, <2>2, <2>3 DEF Suits
<1>6. CASE b = <<"present", "free">>
  <2>1. Len(b) = 2 /\ b[1] = "present" /\ b[2] = "free"
    BY <1>6
  <2>2. j \in {1, 2} /\ 1..Len(b) = {1, 2}
    BY <2>1
  <2>3. b \notin {<<"resize">>, <<"flush">>, <<"free", "finish">>} /\ b # <<"update">>
    BY <1>6
  <2> QED
    BY <1>6, <2>1, <2>2, <2>3 DEF Suits
<1> QED
  BY <1>1, <1>2, <1>3, <1>4, <1>5, <1>6 DEF Suits, Batches

LEMMA OrderGrows ==
  ASSUME TypeOK, Ordered, Fitting, NEW q \in Queues, NEW b, Suits(q, b), Added(q, b),
         NEW i \in DOMAIN unread'[q], NEW j \in DOMAIN unread'[q], i < j
  PROVE  Precedes(unread'[q][i], unread'[q][j])
<1> DEFINE m == unread'[q][i]
           n == unread'[q][j]
<1>1. b \in Batches
  BY DEF Suits
<1>2. /\ DOMAIN unread'[q] = 1..Len(unread'[q])
      /\ Len(unread[q]) \in Nat /\ Len(unread'[q]) \in Nat
      /\ chunk'[q] \in {chunk[q], chunk[q] + 1}
      /\ \A h \in 1..Len(unread[q]) : unread'[q][h] = unread[q][h]
      /\ m \in Messages /\ n \in Messages
      /\ i > Len(unread[q]) => New(q, b, i, m)
      /\ j > Len(unread[q]) => New(q, b, j, n)
  BY <1>1, Grown
<1>3. /\ m.kind \in Kinds /\ m.chunk \in Nat /\ m.frame \in Nat /\ m.gen \in Nat
      /\ n.kind \in Kinds /\ n.chunk \in Nat /\ n.frame \in Nat /\ n.gen \in Nat
      /\ chunk[q] \in Nat /\ frame \in Nat /\ gen \in Nat
      /\ i \in Nat /\ j \in Nat
  <2>1. chunk[q] \in Nat /\ frame \in Nat /\ gen \in Nat
    BY Typed, FrameAssumption DEF TypeOK
  <2> HIDE DEF m, n
  <2> QED
    BY <1>2, <2>1, MessageFields
<1> HIDE DEF m, n
<1>4. CASE j <= Len(unread[q])
  <2>1. m = unread[q][i] /\ n = unread[q][j] /\ i \in DOMAIN unread[q] /\ j \in DOMAIN unread[q]
    BY <1>2, <1>3, <1>4, Typed DEF m, n
  <2> QED
    BY <2>1 DEF Ordered, m, n
<1>5. CASE i <= Len(unread[q]) /\ j > Len(unread[q])
  <2>1. Fits(q, m)
    <3>1. m = unread[q][i] /\ i \in DOMAIN unread[q]
      BY <1>2, <1>3, <1>5, Typed DEF m
    <3> QED
      BY <3>1 DEF Fitting
  <2>2. /\ n.frame = frame /\ n.gen = gen
        /\ n.chunk \in {chunk[q], chunk[q] + 1} /\ n.chunk >= chunk[q]
        /\ q # Main => game = "record"
        /\ n.kind = "flush" => game = "record"
    <3>1. New(q, b, j, n)
      BY <1>2, <1>5
    <3>2. CASE n.kind = "switch" /\ n.chunk = chunk[q] /\ j = Len(unread[q]) + 1 /\ j < Len(unread'[q])
      <4>1. b # << >>
        BY <1>1, <1>2, <1>3, <3>2 DEF Added
      <4>2. 1 \in 1..Len(b)
        BY <1>1, <4>1, BatchKinds
      <4> QED
        BY <1>3, <3>1, <3>2, <4>2, Suiting DEF New
    <3>3. CASE n.chunk = chunk'[q] /\ \E h \in 1..Len(b) : n.kind = b[h]
      BY SMTT(20), <1>2, <1>3, <3>1, <3>3, Suiting DEF New
    <3> QED
      BY <3>1, <3>2, <3>3 DEF New
  <2>3. game \in {"record", "flushed"}
    BY DEF Suits
  <2> QED
    BY <1>3, <2>1, <2>2, <2>3 DEF Precedes, Fits, Given, Presented, m, n
<1>6. CASE i > Len(unread[q])
  <2>1. New(q, b, i, m) /\ New(q, b, j, n)
    BY <1>2, <1>3, <1>6
  <2>2. ~(n.kind = "switch" /\ j = Len(unread[q]) + 1)
    BY <1>2, <1>3, <1>6
  <2>3. PICK h \in 1..Len(b) : n.kind = b[h] /\ j = Len(unread'[q]) - Len(b) + h
    BY <2>1, <2>2 DEF New
  <2>4. n.chunk = chunk'[q]
    BY <2>1, <2>2 DEF New
  <2>5. CASE m.kind = "switch" /\ m.chunk = chunk[q] /\ chunk'[q] = chunk[q] + 1
    BY SMTT(20), <1>3, <2>1, <2>4, <2>5 DEF New, Precedes, m, n
  <2>6. ASSUME m.chunk = chunk'[q],
               NEW g \in 1..Len(b), m.kind = b[g], i = Len(unread'[q]) - Len(b) + g
        PROVE  Precedes(m, n)
    <3>1. g < h
      BY <1>1, <1>2, <1>3, <2>3, <2>6, BatchKinds
    <3>2. m.kind \in {"free", "present"} /\ (m.kind = "present" => n.kind = "free")
      BY <2>3, <2>6, <3>1, Suiting
    <3> QED
      BY SMTT(20), <1>3, <2>1, <2>4, <2>6, <3>2 DEF New, Precedes
  <2> QED
    BY <2>1, <2>5, <2>6 DEF New, m, n
<1> QED
  BY <1>2, <1>3, <1>4, <1>5, <1>6 DEF m, n
-----------------------------------------------------------------------------
(* Reading                                                                 *)

\* The first message of queue q is read.
Reads(q) ==
  /\ unread[q] # << >> /\ unread' = [unread EXCEPT ![q] = Tail(@)]

LEMMA Shrunk ==
  ASSUME TypeOK, NEW q \in Queues, Reads(q)
  PROVE  /\ unread' \in [Queues -> Seq(Messages)]
         /\ \A p \in Queues : p # q => unread'[p] = unread[p]
         /\ Len(unread[q]) \in Nat \ {0} /\ Len(unread'[q]) = Len(unread[q]) - 1
         /\ DOMAIN unread'[q] = 1..Len(unread[q]) - 1
         /\ \A i \in DOMAIN unread'[q] :
              i + 1 \in DOMAIN unread[q] /\ unread'[q][i] = unread[q][i + 1]
         /\ Head(unread[q]) = unread[q][1] /\ unread[q][1] \in Messages
         /\ 1 \in DOMAIN unread[q] /\ DOMAIN unread[q] = 1..Len(unread[q])
         /\ \A i \in DOMAIN unread[q] :
              i # 1 => i - 1 \in DOMAIN unread'[q] /\ unread'[q][i - 1] = unread[q][i]
<1>1. unread[q] \in Seq(Messages) /\ unread[q] # << >> /\ unread'[q] = Tail(unread[q])
  BY DEF Reads, TypeOK
<1>2. PICK s, t : s \in Seq(Messages) /\ s = unread[q] /\ t = unread'[q] /\ s # << >> /\ t = Tail(s)
  BY <1>1
<1>3. /\ t \in Seq(Messages) /\ Len(t) = Len(s) - 1
      /\ Len(s) \in Nat \ {0} /\ DOMAIN s = 1..Len(s)
      /\ DOMAIN t = 1..Len(s) - 1
      /\ \A i \in 1..Len(s) - 1 : t[i] = s[i + 1]
      /\ Head(s) = s[1] /\ Head(s) \in Messages
  BY <1>2, Tailed
<1>4. \A i \in DOMAIN t : i + 1 \in DOMAIN s /\ t[i] = s[i + 1]
  BY <1>3
<1>5. \A i \in DOMAIN s : i # 1 => i - 1 \in DOMAIN t /\ t[i - 1] = s[i]
  <2>1. SUFFICES ASSUME NEW i \in DOMAIN s, i # 1
                 PROVE  i - 1 \in DOMAIN t /\ t[i - 1] = s[i]
    OBVIOUS
  <2>2. i - 1 \in 1..Len(s) - 1 /\ (i - 1) + 1 = i
    BY <1>3, <2>1
  <2> QED
    BY <1>3, <2>2
<1>6. unread' \in [Queues -> Seq(Messages)] /\ \A p \in Queues : p # q => unread'[p] = unread[p]
  BY <1>2, <1>3 DEF Reads, TypeOK
<1>7. 1 \in DOMAIN s
  BY <1>3
<1> QED
  BY <1>2, <1>3, <1>4, <1>5, <1>6, <1>7

LEMMA Least ==
  ASSUME NEW T \in SUBSET Nat, T # {}
  PROVE  Min(T) \in T /\ \A y \in T : Min(T) <= y
<1> DEFINE R == OpToRel(<, Nat)
<1>1. IsWellFoundedOn(R, Nat)
  BY NatLessThanWellFounded
<1>2. \A x, y \in Nat : <<x, y>> \in R <=> x < y
  BY DEF OpToRel
<1> HIDE DEF R
<1>3. PICK x \in T : \A y \in T : ~ (<<y, x>> \in R)
  BY <1>1, WFMin
<1>4. ASSUME NEW y \in T PROVE x <= y
  <2>1. x \in Nat /\ y \in Nat
    OBVIOUS
  <2>2. ~(y < x)
    BY <1>2, <1>3, <2>1
  <2> QED
    BY <2>1, <2>2
<1> QED
  BY <1>4 DEF Min

\* One command buffer is read at a time, none if none is to be flushed.
LEMMA AtWorkIsOne ==
  ASSUME TypeOK
  PROVE  /\ AtWork \subseteq flushing
         /\ \A c, d \in AtWork : c = d
         /\ \A c \in AtWork : c \in 1..Cmds /\ c \in Queues /\ c # Main /\ flushing # {}
<1>1. flushing \in SUBSET Nat /\ flushing \subseteq 1..Cmds
  BY FrameAssumption DEF TypeOK
<1>2. flushing # {} => Min(flushing) \in flushing
  BY <1>1, Least
<1> QED
  BY <1>1, <1>2, Typed DEF AtWork

\* A command buffer that is flushed has its finish still to be read.
LEMMA Busy ==
  ASSUME TypeOK, Ordered, Alternating, NEW c \in flushing
  PROVE  /\ c \in 1..Cmds /\ c \in Queues /\ c # Main /\ unread[c] # << >>
         /\ Head(unread[c]).frame = shown /\ Head(unread[c]) = unread[c][1]
         /\ In(c, "finish", shown)
<1>1. c \in 1..Cmds /\ c \in Queues /\ c # Main
  BY Typed DEF TypeOK
<1>2. PICK r \in Nat : Alternates(r)
  BY DEF Alternating
<1>3. shown \in Nat /\ Given \in Nat /\ shown < Given
  BY <1>2 DEF Alternates, TypeOK, Given
<1>4. In(c, "finish", shown) /\ \A i \in DOMAIN unread[c] : unread[c][i].frame >= shown
  BY <1>1, <1>2, <1>3 DEF Alternates, From
<1>5. PICK i \in DOMAIN unread[c] : unread[c][i].frame = shown
  BY <1>4 DEF In
<1>6. /\ DOMAIN unread[c] = 1..Len(unread[c]) /\ Len(unread[c]) \in Nat
      /\ unread[c] \in Seq(Messages) /\ \A h \in 1..Len(unread[c]) : unread[c][h] \in Messages
  BY <1>1, Typed
<1>7. unread[c] # << >>
  BY <1>5
<1>8. 1 \in DOMAIN unread[c] /\ Head(unread[c]) = unread[c][1]
  BY <1>5, <1>6
<1>9. unread[c][1].frame <= shown
  <2>1. CASE i = 1
    BY <1>3, <1>5, <2>1
  <2>2. CASE i # 1
    <3>1. Precedes(unread[c][1], unread[c][i])
      BY <1>1, <1>5, <1>6, <1>8, <2>2 DEF Ordered
    <3> QED
      BY <1>5, <3>1 DEF Precedes
  <2> QED
    BY <2>1, <2>2
<1>10. unread[c][1].frame \in Nat
  BY <1>6, <1>8, MessageFields
<1> QED
  BY <1>1, <1>3, <1>4, <1>7, <1>8, <1>9, <1>10
-----------------------------------------------------------------------------
(* The steps by which the game thread writes                               *)

Writing(B) ==
  /\ \A q \in Queues : Suits(q, B[q]) /\ Added(q, B[q])
  /\ chunk' \in [Queues -> 1..MaxChunks] /\ unread' \in [Queues -> Seq(Messages)]
  /\ UNCHANGED <<stands, stash, freed, gone, shown, flushing, sem, frame>>

UpdateOf(p) == [q \in Queues |-> IF q = p THEN <<"update">> ELSE << >>]
ResizeOf == [q \in Queues |-> IF q = Main THEN <<"resize">> ELSE << >>]
FlushOf == [q \in Queues |-> IF q = Main THEN <<"flush">> ELSE Closing]
PresentOf == [q \in Queues |-> IF q = Main THEN <<"present", "free">> ELSE << >>]

LEMMA BatchesWritten ==
  ASSUME TypeOK, NEW p \in Queues, NEW b \in Batches, b # << >>, WriteTo(p, b)
  PROVE  /\ chunk' \in [Queues -> 1..MaxChunks] /\ unread' \in [Queues -> Seq(Messages)]
         /\ \A q \in Queues : Added(q, IF q = p THEN b ELSE << >>)
<1> DEFINE kinds == [q \in {p} |-> b]
<1>1. Write(kinds)
  BY DEF WriteTo
<1>2. DOMAIN kinds \subseteq Queues /\ DOMAIN kinds = {p} /\ kinds[p] = b
  OBVIOUS
<1>3. \A q \in DOMAIN kinds : kinds[q] \in Seq(Kinds) /\ kinds[q] # << >>
  BY BatchKinds
<1> HIDE DEF kinds
<1>4. \A q \in Queues : (IF q \in DOMAIN kinds THEN kinds[q] ELSE << >>) = (IF q = p THEN b ELSE << >>)
  BY <1>2
<1>5. /\ chunk' \in [Queues -> 1..MaxChunks] /\ unread' \in [Queues -> Seq(Messages)]
      /\ \A q \in Queues : Added(q, IF q \in DOMAIN kinds THEN kinds[q] ELSE << >>)
  BY <1>1, <1>2, <1>3, Written
<1> QED
  BY <1>4, <1>5

LEMMA Unlike ==
  /\ << >> # <<"update">> /\ << >> # <<"resize">> /\ << >> # <<"flush">>
  /\ << >> # <<"free", "finish">> /\ << >> # <<"present", "free">>
  /\ <<"update">> # <<"resize">> /\ <<"update">> # <<"flush">> /\ <<"resize">> # <<"flush">>
  /\ \A x, y, z \in Kinds : <<x>> # <<y, z>>
  /\ <<"free", "finish">> # <<"present", "free">>
OBVIOUS

LEMMA UpdateWrites ==
  ASSUME TypeOK, NEW p \in Queues, Update(p)
  PROVE  Writing(UpdateOf(p))
<1>1. <<"update">> \in Batches /\ << >> \in Batches /\ << >> # <<"update">>
  BY Unlike DEF Batches
<1>2. /\ chunk' \in [Queues -> 1..MaxChunks] /\ unread' \in [Queues -> Seq(Messages)]
      /\ \A q \in Queues : Added(q, IF q = p THEN <<"update">> ELSE << >>)
  BY <1>1, BatchesWritten DEF Update
<1>3. \A q \in Queues : UpdateOf(p)[q] = IF q = p THEN <<"update">> ELSE << >>
  BY DEF UpdateOf
<1>4. game \in {"record", "flushed"} /\ (p # Main => game = "record")
  BY DEF Update, Recording, TypeOK
<1>5. Suits(p, <<"update">>)
  <2>1. <<"update">> \notin {<<"resize">>, <<"flush">>, <<"present", "free">>, <<"free", "finish">>}
    BY Unlike DEF Kinds
  <2> QED
    BY <1>1, <1>4, <2>1 DEF Suits
<1>6. \A q : Suits(q, << >>)
  BY <1>1, <1>4, Unlike DEF Suits
<1>7. UNCHANGED <<stands, stash, freed, gone, shown, flushing, sem, frame>>
  BY DEF Update, Device
<1>8. \A q \in Queues : Suits(q, UpdateOf(p)[q]) /\ Added(q, UpdateOf(p)[q])
  BY <1>2, <1>3, <1>5, <1>6
<1> QED
  BY <1>2, <1>7, <1>8 DEF Writing

LEMMA ResizeWrites ==
  ASSUME TypeOK, Resize
  PROVE  Writing(ResizeOf)
<1>1. <<"resize">> \in Batches /\ << >> \in Batches /\ << >> # <<"resize">>
  BY Unlike DEF Batches
<1>2. /\ chunk' \in [Queues -> 1..MaxChunks] /\ unread' \in [Queues -> Seq(Messages)]
      /\ \A q \in Queues : Added(q, IF q = Main THEN <<"resize">> ELSE << >>)
  BY <1>1, Typed, BatchesWritten DEF Resize
<1>3. \A q \in Queues : ResizeOf[q] = IF q = Main THEN <<"resize">> ELSE << >>
  BY DEF ResizeOf
<1>4. game \in {"record", "flushed"}
  BY DEF Resize, TypeOK
<1>5. Suits(Main, <<"resize">>)
  <2>1. <<"resize">> \notin {<<"flush">>, <<"present", "free">>, <<"free", "finish">>}
    BY Unlike DEF Kinds
  <2> QED
    BY <1>1, <1>4, <2>1 DEF Suits
<1>6. \A q : Suits(q, << >>)
  BY <1>1, <1>4, Unlike DEF Suits
<1>7. UNCHANGED <<stands, stash, freed, gone, shown, flushing, sem, frame>>
  BY DEF Resize, Device
<1>8. \A q \in Queues : Suits(q, ResizeOf[q]) /\ Added(q, ResizeOf[q])
  BY <1>2, <1>3, <1>5, <1>6
<1> QED
  BY <1>2, <1>7, <1>8 DEF Writing

LEMMA PresentWrites ==
  ASSUME TypeOK, Present
  PROVE  Writing(PresentOf)
<1>1. <<"present", "free">> \in Batches /\ << >> \in Batches /\ << >> # <<"present", "free">>
  BY Unlike DEF Batches
<1>2. /\ chunk' \in [Queues -> 1..MaxChunks] /\ unread' \in [Queues -> Seq(Messages)]
      /\ \A q \in Queues : Added(q, IF q = Main THEN <<"present", "free">> ELSE << >>)
  BY <1>1, Typed, BatchesWritten DEF Present
<1>3. \A q \in Queues : PresentOf[q] = IF q = Main THEN <<"present", "free">> ELSE << >>
  BY DEF PresentOf
<1>4. game = "flushed"
  BY DEF Present
<1>5. Suits(Main, <<"present", "free">>)
  <2>1. <<"present", "free">> \notin {<<"flush">>, <<"free", "finish">>}
    BY Unlike DEF Kinds
  <2> QED
    BY <1>1, <1>4, <2>1 DEF Suits
<1>6. \A q : Suits(q, << >>)
  BY <1>1, <1>4, Unlike DEF Suits
<1>7. UNCHANGED <<stands, stash, freed, gone, shown, flushing, sem, frame>>
  BY DEF Present
<1>8. \A q \in Queues : Suits(q, PresentOf[q]) /\ Added(q, PresentOf[q])
  BY <1>2, <1>3, <1>5, <1>6
<1> QED
  BY <1>2, <1>7, <1>8 DEF Writing

LEMMA FlushWrites ==
  ASSUME TypeOK, Flush
  PROVE  Writing(FlushOf)
<1>1. <<"flush">> \in Batches /\ Closing \in Batches /\ <<"flush">> # << >> /\ Closing # << >>
  BY Unlike DEF Batches, Closing
<1>2. DOMAIN FlushOf = Queues /\ \A q \in Queues : FlushOf[q] = IF q = Main THEN <<"flush">> ELSE Closing
  BY DEF FlushOf
<1>3. \A q \in DOMAIN FlushOf : FlushOf[q] \in Seq(Kinds) /\ FlushOf[q] # << >>
  BY <1>1, <1>2, BatchKinds
<1>4. Write(FlushOf)
  BY DEF Flush, FlushOf
<1>5. DOMAIN FlushOf \subseteq Queues
  BY <1>2
<1>6. /\ chunk' \in [Queues -> 1..MaxChunks] /\ unread' \in [Queues -> Seq(Messages)]
      /\ \A q \in Queues : Added(q, IF q \in DOMAIN FlushOf THEN FlushOf[q] ELSE << >>)
  BY <1>3, <1>4, <1>5, Written
<1>7. game = "record"
  BY DEF Flush
<1>8. Suits(Main, <<"flush">>)
  <2>1. <<"flush">> \notin {<<"present", "free">>, <<"free", "finish">>}
    BY Unlike DEF Kinds
  <2> QED
    BY <1>1, <1>7, <2>1 DEF Suits
<1>9. \A q : q # Main => Suits(q, Closing)
  <2>1. Closing \notin {<<"resize">>, <<"flush">>, <<"present", "free">>}
    BY Unlike DEF Kinds, Closing
  <2> QED
    BY <1>1, <1>7, <2>1 DEF Suits
<1>10. UNCHANGED <<stands, stash, freed, gone, shown, flushing, sem, frame>>
  BY DEF Flush, Device
<1>11. \A q \in Queues : Suits(q, FlushOf[q]) /\ Added(q, FlushOf[q])
  BY <1>2, <1>6, <1>8, <1>9
<1> QED
  BY <1>6, <1>10, <1>11 DEF Writing

\* What a writing step leaves of the order of the queues.
LEMMA WritingKeepsOrder ==
  ASSUME TypeOK, Ordered, Fitting, NEW B, Writing(B)
  PROVE  Ordered'
<1>1. SUFFICES ASSUME NEW q \in Queues, NEW i \in DOMAIN unread'[q], NEW j \in DOMAIN unread'[q], i < j
               PROVE  Precedes(unread'[q][i], unread'[q][j])
  BY DEF Ordered, Precedes
<1>2. Suits(q, B[q]) /\ Added(q, B[q])
  BY DEF Writing
<1> QED
  BY <1>1, <1>2, OrderGrows

\* Messages of these kinds are written only by a step that counts them.
LEMMA WritingFits ==
  ASSUME TypeOK, Fitting, NEW B, Writing(B),
         Given' \in Nat, Presented' \in Nat, gen' \in Nat,
         Given' >= Given, Presented' >= Presented, gen' >= gen,
         \A q \in Queues : \A j \in 1..Len(B[q]) :
           /\ B[q][j] \in {"finish", "flush"} => frame < Given'
           /\ B[q][j] = "present" => frame < Presented'
           /\ B[q][j] = "resize" => gen < gen'
  PROVE  Fitting'
<1>0. /\ Given \in Nat /\ Presented \in Nat /\ gen \in Nat /\ frame \in Nat /\ frame' = frame
      /\ stands' = stands
  BY DEF TypeOK, Given, Presented, Writing
<1>1. SUFFICES ASSUME NEW q \in Queues
               PROVE  /\ stands'[q] <= chunk'[q]
                      /\ \A i \in DOMAIN unread'[q] : Fits(q, unread[q][i])'
  BY <1>0 DEF Fitting
<1>2. Suits(q, B[q]) /\ Added(q, B[q]) /\ B[q] \in Batches
  BY DEF Writing, Suits
<1>3. /\ DOMAIN unread'[q] = 1..Len(unread'[q])
      /\ Len(unread[q]) \in Nat /\ Len(unread'[q]) \in Nat
      /\ chunk'[q] \in {chunk[q], chunk[q] + 1}
      /\ \A h \in 1..Len(unread[q]) : unread'[q][h] = unread[q][h]
      /\ \A h \in 1..Len(unread'[q]) : unread'[q][h] \in Messages
      /\ \A h \in 1..Len(unread'[q]) : h > Len(unread[q]) => New(q, B[q], h, unread'[q][h])
  BY <1>2, Grown
<1>4. chunk[q] \in Nat /\ stands[q] \in Nat /\ stands[q] <= chunk[q] /\ chunk'[q] >= chunk[q]
      /\ chunk'[q] \in Nat
  BY <1>3, Typed, FrameAssumption DEF Fitting
<1>5. ASSUME NEW i \in DOMAIN unread'[q]
      PROVE  Fits(q, unread[q][i])'
  <2> DEFINE m == unread'[q][i]
  <2>1. m \in Messages /\ i \in Nat
    BY <1>3
  <2>2. m.kind \in Kinds /\ m.chunk \in Nat /\ m.frame \in Nat /\ m.gen \in Nat
    BY <2>1, MessageFields
  <2>3. CASE i <= Len(unread[q])
    <3>1. m = unread[q][i] /\ i \in DOMAIN unread[q]
      BY <1>3, <2>3, Typed
    <3>2. Fits(q, m)
      BY <3>1 DEF Fitting
    <3> HIDE DEF m
    <3>3. /\ m.frame <= frame' /\ m.gen <= gen'
          /\ stands'[q] <= m.chunk /\ m.chunk <= chunk'[q]
          /\ m.kind = "switch" => m.chunk < chunk'[q]
          /\ m.kind = "resize" => q = Main /\ m.gen < gen'
      BY <1>0, <1>4, <2>2, <3>2 DEF Fits
    <3>4. /\ m.kind = "finish" => q # Main /\ m.frame < Given'
          /\ m.kind = "flush" => q = Main /\ m.frame < Given'
          /\ m.kind = "present" => q = Main /\ m.frame < Presented'
      BY <1>0, <2>2, <3>2 DEF Fits
    <3> QED
      BY <3>3, <3>4 DEF Fits, m
  <2>4. CASE i > Len(unread[q])
    <3>1. New(q, B[q], i, m)
      BY <1>3, <2>4
    <3> HIDE DEF m
    <3>2. m.kind = "switch" => m.chunk < chunk'[q]
      <4>1. \A j \in 1..Len(B[q]) : B[q][j] # "switch"
        BY <1>2, BatchKinds
      <4>2. m.kind = "switch" => m.chunk = chunk[q] /\ chunk'[q] = chunk[q] + 1
        BY <3>1, <4>1 DEF New
      <4> QED
        BY <1>4, <4>2
    <3>3. m.chunk \in {chunk[q], chunk'[q]} /\ m.frame = frame /\ m.gen = gen
      BY <3>1 DEF New
    <3>4. m.kind # "switch" => \E j \in 1..Len(B[q]) : m.kind = B[q][j]
      BY <3>1 DEF New
    <3>5. /\ m.kind = "finish" => q # Main /\ frame < Given'
          /\ m.kind = "flush" => q = Main /\ frame < Given'
          /\ m.kind = "present" => q = Main /\ frame < Presented'
          /\ m.kind = "resize" => q = Main /\ gen < gen'
      BY <1>2, <3>4, Suiting
    <3> QED
      BY <1>0, <1>4, <2>2, <3>2, <3>3, <3>5 DEF Fits, m
  <2> QED
    BY <1>3, <2>1, <2>3, <2>4
<1> QED
  BY <1>0, <1>4, <1>5
-----------------------------------------------------------------------------
(* Order                                                                   *)

LEMMA ReadingKeepsOrder ==
  ASSUME TypeOK, Ordered, NEW p \in Queues, Reads(p)
  PROVE  Ordered'
<1>1. SUFFICES ASSUME NEW q \in Queues, NEW i \in DOMAIN unread'[q], NEW j \in DOMAIN unread'[q], i < j
               PROVE  Precedes(unread'[q][i], unread'[q][j])
  BY DEF Ordered, Precedes
<1>2. CASE q = p
  <2>1. i + 1 \in DOMAIN unread[q] /\ j + 1 \in DOMAIN unread[q]
        /\ unread'[q][i] = unread[q][i + 1] /\ unread'[q][j] = unread[q][j + 1]
    BY <1>2, Shrunk
  <2>2. i + 1 < j + 1
    <3>1. DOMAIN unread'[q] = 1..Len(unread[q]) - 1 /\ Len(unread[q]) \in Nat
      BY <1>2, Shrunk
    <3> QED
      BY <1>1, <3>1
  <2> QED
    BY <2>1, <2>2 DEF Ordered
<1>3. CASE q # p
  <2>1. unread'[q] = unread[q]
    BY <1>3, Shrunk
  <2> QED
    BY <1>1, <2>1 DEF Ordered
<1> QED
  BY <1>2, <1>3

LEMMA ReadingFits ==
  ASSUME TypeOK, Ordered, Fitting, NEW p \in Queues, Reads(p),
         stands' = [stands EXCEPT ![p] = Head(unread[p]).chunk],
         UNCHANGED <<chunk, frame, gen, game>>
  PROVE  Fitting'
<1>0. Given' = Given /\ Presented' = Presented
  BY DEF Given, Presented
<1>1. SUFFICES ASSUME NEW q \in Queues
               PROVE  /\ stands'[q] <= chunk'[q]
                      /\ \A i \in DOMAIN unread'[q] : Fits(q, unread[q][i])'
  BY DEF Fitting
<1>2. CASE q = p
  <2>1. /\ Head(unread[q]) = unread[q][1] /\ 1 \in DOMAIN unread[q]
        /\ unread[q][1] \in Messages /\ stands'[q] = unread[q][1].chunk
    <3>1. Head(unread[q]) = unread[q][1] /\ 1 \in DOMAIN unread[q] /\ unread[q][1] \in Messages
      BY <1>2, Shrunk
    <3> QED
      BY <1>2, <3>1 DEF TypeOK
  <2>2. Fits(q, unread[q][1])
    BY <2>1 DEF Fitting
  <2>3. stands'[q] <= chunk'[q]
    BY <2>1, <2>2 DEF Fits
  <2>4. ASSUME NEW i \in DOMAIN unread'[q] PROVE Fits(q, unread[q][i])'
    <3>1. i + 1 \in DOMAIN unread[q] /\ unread'[q][i] = unread[q][i + 1] /\ 1 < i + 1
      <4>1. DOMAIN unread'[q] = 1..Len(unread[q]) - 1 /\ Len(unread[q]) \in Nat
        BY <1>2, Shrunk
      <4>2. i \in Nat /\ i >= 1
        BY <4>1
      <4> QED
        BY <1>2, <4>2, Shrunk
    <3>2. Fits(q, unread[q][i + 1]) /\ Precedes(unread[q][1], unread[q][i + 1])
      BY <2>1, <3>1 DEF Fitting, Ordered
    <3>3. stands'[q] <= unread[q][i + 1].chunk
      BY <2>1, <3>2 DEF Precedes
    <3> QED
      BY <1>0, <3>1, <3>2, <3>3 DEF Fits
  <2> QED
    BY <2>3, <2>4
<1>3. CASE q # p
  <2>1. unread'[q] = unread[q] /\ stands'[q] = stands[q]
    BY <1>3, Shrunk DEF TypeOK
  <2>2. \A i \in DOMAIN unread[q] : Fits(q, unread[q][i])
    BY DEF Fitting
  <2> QED
    BY <1>0, <2>1, <2>2 DEF Fits, Fitting
<1> QED
  BY <1>2, <1>3

\* The two readers.
LEMMA MainIsRead ==
  ASSUME TypeOK, ReadMain
  PROVE  /\ Reads(Main) /\ Main \in Queues /\ Head(unread[Main]) = unread[Main][1]
         /\ stands' = [stands EXCEPT ![Main] = unread[Main][1].chunk]
         /\ UNCHANGED <<chunk, frame, gen, game>>
         /\ Main \in DOMAIN stands
<1>1. Main \in Queues /\ unread[Main] \in Seq(Messages) /\ Len(unread[Main]) \in Nat
  BY Typed
<1>2. unread[Main] # << >>
  <2>1. Len(unread[Main]) > 0
    BY <1>1 DEF ReadMain, TypeOK
  <2> QED
    BY <1>1, <2>1, EmptySeq
<1>3. Reads(Main)
  BY <1>2 DEF Reads, ReadMain
<1>4. Head(unread[Main]) = unread[Main][1]
  BY <1>1, <1>3, Shrunk
<1> QED
  BY <1>1, <1>3, <1>4 DEF ReadMain, Chunks, TypeOK

LEMMA CmdIsRead ==
  ASSUME TypeOK, Ordered, Alternating, NEW c \in 1..Cmds, ReadCmd(c)
  PROVE  /\ Reads(c) /\ c \in Queues /\ c # Main /\ c \in flushing /\ c \in AtWork
         /\ Head(unread[c]) = unread[c][1] /\ unread[c][1].frame = shown
         /\ stands' = [stands EXCEPT ![c] = unread[c][1].chunk]
         /\ UNCHANGED <<chunk, frame, gen, game>>
<1>1. c \in AtWork /\ c \in flushing
  BY AtWorkIsOne DEF ReadCmd
<1>2. c \in Queues /\ c # Main /\ unread[c] # << >> /\ Head(unread[c]).frame = shown
      /\ Head(unread[c]) = unread[c][1]
  BY <1>1, Busy
<1> QED
  BY <1>1, <1>2 DEF Reads, ReadCmd, Chunks

LEMMA OrderStep ==
  ASSUME TypeOK, Ordered, Fitting, Alternating, [Next]_vars
  PROVE  Ordered' /\ Fitting'
<1>0. frame \in Nat /\ gen \in Nat /\ game \in {"record", "flushed", "wait"}
  BY DEF TypeOK
<1>1. ASSUME NEW p \in Queues, Update(p) PROVE Ordered' /\ Fitting'
  <2>1. Writing(UpdateOf(p))
    BY <1>1, UpdateWrites
  <2>2. game' = game /\ gen' = gen /\ frame' = frame
    BY <1>1 DEF Update
  <2>3. Given' = Given /\ Presented' = Presented /\ Given \in Nat /\ Presented \in Nat
    BY <1>0, <2>2 DEF Given, Presented
  <2>4. \A q \in Queues : \A j \in 1..Len(UpdateOf(p)[q]) : UpdateOf(p)[q][j] = "update"
    <3>1. \A q \in Queues : UpdateOf(p)[q] \in {<<"update">>, << >>}
      BY DEF UpdateOf
    <3>2. ASSUME NEW b \in {<<"update">>, << >>}, NEW j \in 1..Len(b) PROVE b[j] = "update"
      BY <3>2
    <3> QED
      BY <3>1, <3>2
  <2> QED
    BY <1>0, <2>1, <2>2, <2>3, <2>4, WritingKeepsOrder, WritingFits
<1>2. CASE Resize
  <2>1. Writing(ResizeOf)
    BY <1>2, ResizeWrites
  <2>2. game' = game /\ gen' = gen + 1 /\ frame' = frame
    BY <1>2 DEF Resize
  <2>3. Given' = Given /\ Presented' = Presented /\ Given \in Nat /\ Presented \in Nat
    BY <1>0, <2>2 DEF Given, Presented
  <2>4. \A q \in Queues : \A j \in 1..Len(ResizeOf[q]) : ResizeOf[q][j] = "resize"
    <3>1. \A q \in Queues : ResizeOf[q] \in {<<"resize">>, << >>}
      BY DEF ResizeOf
    <3>2. ASSUME NEW b \in {<<"resize">>, << >>}, NEW j \in 1..Len(b) PROVE b[j] = "resize"
      BY <3>2
    <3> QED
      BY <3>1, <3>2
  <2>5. gen' \in Nat /\ gen' >= gen /\ gen < gen'
    BY <1>0, <2>2
  <2> QED
    BY <1>0, <2>1, <2>3, <2>4, <2>5, WritingKeepsOrder, WritingFits
<1>3. CASE Flush
  <2>1. Writing(FlushOf)
    BY <1>3, FlushWrites
  <2>2. game = "record" /\ game' = "flushed" /\ gen' = gen /\ frame' = frame
    BY <1>3 DEF Flush
  <2>3. Given' = Given + 1 /\ Presented' = Presented /\ Given = frame /\ Presented \in Nat
    BY <1>0, <2>2 DEF Given, Presented
  <2>4. \A q \in Queues : \A j \in 1..Len(FlushOf[q]) : FlushOf[q][j] \notin {"present", "resize"}
    <3>1. \A q \in Queues : FlushOf[q] \in {<<"flush">>, <<"free", "finish">>}
      BY DEF FlushOf, Closing
    <3>2. ASSUME NEW b \in {<<"flush">>, <<"free", "finish">>}, NEW j \in 1..Len(b)
          PROVE  b[j] \notin {"present", "resize"}
      BY <3>2
    <3> QED
      BY <3>1, <3>2
  <2>5. Given' \in Nat /\ Given' >= Given /\ frame < Given'
    BY <1>0, <2>3
  <2> QED
    BY <1>0, <2>1, <2>2, <2>3, <2>4, <2>5, WritingKeepsOrder, WritingFits
<1>4. CASE Present
  <2>1. Writing(PresentOf)
    BY <1>4, PresentWrites
  <2>2. game = "flushed" /\ game' = "wait" /\ gen' = gen /\ frame' = frame
    BY <1>4, <2>1 DEF Present, Writing
  <2>3. Given' = Given /\ Presented' = Presented + 1 /\ Presented = frame /\ Given = frame + 1
    BY <1>0, <2>2 DEF Given, Presented
  <2>4. \A q \in Queues : \A j \in 1..Len(PresentOf[q]) : PresentOf[q][j] \notin {"finish", "flush", "resize"}
    <3>1. \A q \in Queues : PresentOf[q] \in {<<"present", "free">>, << >>}
      BY DEF PresentOf
    <3>2. ASSUME NEW b \in {<<"present", "free">>, << >>}, NEW j \in 1..Len(b)
          PROVE  b[j] \notin {"finish", "flush", "resize"}
      BY <3>2
    <3> QED
      BY <3>1, <3>2
  <2>5. Given' \in Nat /\ Given' >= Given /\ Presented' \in Nat /\ Presented' >= Presented
        /\ frame < Presented'
    BY <1>0, <2>3
  <2> QED
    BY <1>0, <2>1, <2>2, <2>4, <2>5, WritingKeepsOrder, WritingFits
<1>5. CASE Kick
  <2>1. UNCHANGED <<unread, chunk, stands, frame, gen, game>>
    BY <1>5 DEF Kick
  <2> QED
    BY <2>1 DEF Ordered, Fitting, Fits, Given, Presented
<1>6. CASE NextFrame
  <2>1. UNCHANGED <<unread, chunk, stands, gen>> /\ game = "wait" /\ game' = "record" /\ frame' = frame + 1
    BY <1>6 DEF NextFrame, Device
  <2>2. Given' = Given /\ Presented' = Presented /\ frame' >= frame
    BY <1>0, <2>1 DEF Given, Presented
  <2>3. Ordered'
    BY <2>1 DEF Ordered
  <2>4. ASSUME NEW q \in Queues, NEW i \in DOMAIN unread[q] PROVE Fits(q, unread[q][i])'
    <3>1. Fits(q, unread[q][i]) /\ unread[q][i].frame \in Nat
      BY Typed, MessageFields DEF Fitting
    <3>2. unread[q][i].frame <= frame'
      BY <1>0, <2>1, <3>1 DEF Fits
    <3> QED
      BY <2>1, <2>2, <3>1, <3>2 DEF Fits
  <2> QED
    BY <2>1, <2>3, <2>4 DEF Fitting
<1>7. CASE ReadMain
  BY <1>7, MainIsRead, ReadingKeepsOrder, ReadingFits
<1>8. ASSUME NEW c \in 1..Cmds, ReadCmd(c) PROVE Ordered' /\ Fitting'
  BY <1>8, CmdIsRead, ReadingKeepsOrder, ReadingFits
<1>9. CASE UNCHANGED vars
  BY <1>9 DEF vars, Ordered, Fitting, Fits, Given, Presented
<1> QED
  BY <1>1, <1>2, <1>3, <1>4, <1>5, <1>6, <1>7, <1>8, <1>9 DEF Next
-----------------------------------------------------------------------------
(* The frames that are on their way                                        *)

LEMMA InGrows ==
  ASSUME TypeOK, NEW q \in Queues, NEW b \in Batches, Added(q, b),
         NEW kind \in Kinds \ {"switch"}, NEW f
  PROVE  In(q, kind, f)' <=> In(q, kind, f) \/ (f = frame /\ \E j \in 1..Len(b) : b[j] = kind)
<1>1. /\ DOMAIN unread'[q] = 1..Len(unread'[q]) /\ DOMAIN unread[q] = 1..Len(unread[q])
      /\ Len(unread[q]) \in Nat /\ Len(unread'[q]) \in Nat /\ Len(b) \in Nat
      /\ Len(unread[q]) <= Len(unread'[q]) - Len(b)
      /\ \A h \in 1..Len(unread[q]) : unread'[q][h] = unread[q][h]
      /\ \A h \in 1..Len(unread'[q]) : h > Len(unread[q]) => New(q, b, h, unread'[q][h])
      /\ \A j \in 1..Len(b) : LET i == Len(unread'[q]) - Len(b) + j IN
              i \in 1..Len(unread'[q]) /\ i > Len(unread[q])
              /\ unread'[q][i].kind = b[j] /\ unread'[q][i].frame = frame
  <2>1. Len(b) \in Nat /\ DOMAIN unread[q] = 1..Len(unread[q])
    BY Typed, BatchKinds
  <2> QED
    BY <2>1, Grown
<1>2. ASSUME NEW h \in DOMAIN unread'[q], unread'[q][h].kind = kind, unread'[q][h].frame = f
      PROVE  In(q, kind, f) \/ (f = frame /\ \E j \in 1..Len(b) : b[j] = kind)
  <2>1. CASE h <= Len(unread[q])
    BY <1>1, <1>2, <2>1 DEF In
  <2>2. CASE h > Len(unread[q])
    BY <1>1, <1>2, <2>2 DEF New
  <2> QED
    BY <1>1, <2>1, <2>2
<1>3. ASSUME In(q, kind, f) PROVE In(q, kind, f)'
  <2>1. PICK h \in 1..Len(unread[q]) : unread[q][h].kind = kind /\ unread[q][h].frame = f
    BY <1>1, <1>3 DEF In
  <2>2. h \in DOMAIN unread'[q] /\ unread'[q][h] = unread[q][h]
    BY <1>1
  <2> QED
    BY <2>1, <2>2 DEF In
<1>4. ASSUME f = frame, NEW j \in 1..Len(b), b[j] = kind PROVE In(q, kind, f)'
  BY <1>1, <1>4 DEF In
<1> QED
  BY <1>2, <1>3, <1>4 DEF In

LEMMA InShrinks ==
  ASSUME TypeOK, Ordered, NEW q \in Queues, Reads(q),
         NEW kind \in {"finish", "flush", "present"}, NEW f
  PROVE  In(q, kind, f)' <=>
           In(q, kind, f) /\ ~(unread[q][1].kind = kind /\ unread[q][1].frame = f)
<1>1. /\ DOMAIN unread'[q] = 1..Len(unread[q]) - 1 /\ Len(unread[q]) \in Nat
      /\ \A i \in DOMAIN unread'[q] :
           i + 1 \in DOMAIN unread[q] /\ unread'[q][i] = unread[q][i + 1]
      /\ 1 \in DOMAIN unread[q]
      /\ \A i \in DOMAIN unread[q] :
           i # 1 => i - 1 \in DOMAIN unread'[q] /\ unread'[q][i - 1] = unread[q][i]
  BY Shrunk
<1>2. \A i \in DOMAIN unread[q] : unread[q][i].frame \in Nat
  BY Typed, MessageFields
<1>3. ASSUME NEW i \in DOMAIN unread'[q], unread'[q][i].kind = kind, unread'[q][i].frame = f
      PROVE  In(q, kind, f) /\ ~(unread[q][1].kind = kind /\ unread[q][1].frame = f)
  <2>1. i + 1 \in DOMAIN unread[q] /\ unread'[q][i] = unread[q][i + 1] /\ 1 < i + 1
    BY <1>1
  <2>2. Precedes(unread[q][1], unread[q][i + 1])
    BY <1>1, <2>1 DEF Ordered
  <2>3. unread[q][1].kind = kind => unread[q][1].frame < f
    BY <1>3, <2>1, <2>2 DEF Precedes
  <2>4. f \in Nat
    BY <1>2, <1>3, <2>1
  <2> QED
    BY <1>3, <2>1, <2>3, <2>4 DEF In
<1>4. ASSUME NEW i \in DOMAIN unread[q], unread[q][i].kind = kind, unread[q][i].frame = f,
             ~(unread[q][1].kind = kind /\ unread[q][1].frame = f)
      PROVE  In(q, kind, f)'
  <2>1. i # 1
    BY <1>4
  <2> QED
    BY <1>1, <1>4, <2>1 DEF In
<1> QED
  BY <1>3, <1>4 DEF In

\* The oldest message of these kinds has the earliest frame.
LEMMA InFirst ==
  ASSUME TypeOK, Ordered, NEW q \in Queues, unread[q] # << >>, NEW kind, NEW f \in Nat,
         In(q, kind, f)
  PROVE  /\ unread[q][1].frame <= f /\ unread[q][1].frame \in Nat
         /\ unread[q][1].kind \in Kinds
         /\ unread[q][1].kind = "present" /\ kind = "flush" => unread[q][1].frame < f
<1>1. PICK i \in DOMAIN unread[q] : unread[q][i].kind = kind /\ unread[q][i].frame = f
  BY DEF In
<1>2. 1 \in DOMAIN unread[q] /\ i \in Nat /\ i >= 1
      /\ unread[q][1].frame \in Nat /\ unread[q][1].kind \in Kinds
  <2>1. DOMAIN unread[q] = 1..Len(unread[q]) /\ Len(unread[q]) \in Nat
    BY Typed
  <2>2. 1 \in DOMAIN unread[q] /\ i \in Nat /\ i >= 1
    BY <1>1, <2>1
  <2> QED
    BY <2>1, <2>2, Typed, MessageFields
<1>3. CASE i = 1
  BY <1>1, <1>2, <1>3
<1>4. CASE i # 1
  <2>1. Precedes(unread[q][1], unread[q][i])
    BY <1>1, <1>2, <1>4 DEF Ordered
  <2> QED
    BY <1>1, <1>2, <2>1 DEF Precedes
<1> QED
  BY <1>3, <1>4

\* What every writing step keeps.
LEMMA WritingAlternates ==
  ASSUME TypeOK, Alternating, NEW B, Writing(B), NEW r \in Nat, Alternates(r)
  PROVE  /\ \A q \in Queues : \A kind \in Kinds \ {"switch"} : \A f :
              In(q, kind, f)' <=>
                In(q, kind, f) \/ (f = frame /\ \E j \in 1..Len(B[q]) : B[q][j] = kind)
         /\ \A c : From(c, r)' = From(c, r)
         /\ \A c \in 1..Cmds : From(c, r) <= r /\ From(c, r) \in Nat
         /\ \A c \in 1..Cmds : \A i \in DOMAIN unread'[c] : unread'[c][i].frame >= From(c, r)
         /\ \A i \in DOMAIN unread'[Main] :
              unread'[Main][i].kind = "update" => unread'[Main][i].frame >= shown
         /\ shown \in Nat /\ frame \in Nat /\ shown <= frame /\ shown <= r
         /\ UNCHANGED <<shown, sem, frame, flushing>>
<1>1. \A q \in Queues : Suits(q, B[q]) /\ Added(q, B[q]) /\ B[q] \in Batches
  BY DEF Writing, Suits
<1>2. UNCHANGED <<shown, sem, frame, flushing>>
  BY DEF Writing
<1>3. \A q \in Queues : \A kind \in Kinds \ {"switch"} : \A f :
        In(q, kind, f)' <=>
          In(q, kind, f) \/ (f = frame /\ \E j \in 1..Len(B[q]) : B[q][j] = kind)
  BY <1>1, InGrows
<1>4. shown \in Nat /\ frame \in Nat /\ shown <= r /\ game \in {"record", "flushed"}
  BY SMTT(20), <1>1, Typed DEF TypeOK, Suits, Alternates
<1>5. shown <= frame
  BY <1>4 DEF Alternating, Presented
<1>6. \A c \in 1..Cmds : From(c, r) <= r /\ From(c, r) \in Nat
  BY <1>4 DEF From
<1>7. ASSUME NEW q \in Queues, NEW i \in DOMAIN unread'[q]
      PROVE  \/ i \in DOMAIN unread[q] /\ unread'[q][i] = unread[q][i]
             \/ unread'[q][i].frame = frame /\ (q # Main => game = "record")
  <2>1. /\ DOMAIN unread'[q] = 1..Len(unread'[q]) /\ DOMAIN unread[q] = 1..Len(unread[q])
        /\ Len(unread[q]) \in Nat /\ Len(unread'[q]) \in Nat
        /\ \A h \in 1..Len(unread[q]) : unread'[q][h] = unread[q][h]
        /\ \A h \in 1..Len(unread'[q]) : h > Len(unread[q]) => New(q, B[q], h, unread'[q][h])
    BY <1>1, Grown, Typed
  <2>2. CASE i <= Len(unread[q])
    BY <2>1, <2>2
  <2>3. CASE i > Len(unread[q])
    <3>1. New(q, B[q], i, unread'[q][i])
      BY <2>1, <2>3
    <3>2. B[q] # << >>
      <4>1. SUFFICES ASSUME B[q] = << >> PROVE FALSE
        OBVIOUS
      <4>2. Len(unread'[q]) = Len(unread[q])
        <5>1. Len(B[q]) = 0
          BY <1>1, <4>1, BatchKinds
        <5>2. PICK k \in {0, 1} : (B[q] = << >> => k = 0)
                 /\ Len(unread'[q]) = Len(unread[q]) + k + Len(B[q])
          BY <1>1 DEF Added
        <5> QED
          BY <2>1, <4>1, <5>1, <5>2
      <4> QED
        BY <2>1, <2>3, <4>2
    <3>3. q # Main => game = "record"
      BY <1>1, <3>2 DEF Suits
    <3> QED
      BY <3>1, <3>3 DEF New
  <2> QED
    BY <2>1, <2>2, <2>3
<1>8. ASSUME NEW c \in 1..Cmds, NEW i \in DOMAIN unread'[c]
      PROVE  unread'[c][i].frame >= From(c, r)
  <2>1. c \in Queues /\ c # Main
    BY Typed
  <2>2. CASE i \in DOMAIN unread[c] /\ unread'[c][i] = unread[c][i]
    BY <2>2 DEF Alternates
  <2>3. CASE unread'[c][i].frame = frame /\ game = "record"
    <3>1. r <= frame
      BY <1>4, <2>3 DEF Alternates, Given
    <3> QED
      BY <1>4, <1>6, <2>3, <3>1
  <2> QED
    BY <1>7, <2>1, <2>2, <2>3
<1>9. ASSUME NEW i \in DOMAIN unread'[Main], unread'[Main][i].kind = "update"
      PROVE  unread'[Main][i].frame >= shown
  <2>1. Main \in Queues
    BY Typed
  <2>2. CASE i \in DOMAIN unread[Main] /\ unread'[Main][i] = unread[Main][i]
    BY <1>9, <2>2 DEF Alternating
  <2>3. CASE unread'[Main][i].frame = frame
    BY <1>4, <1>5, <2>3
  <2> QED
    BY <1>7, <2>1, <2>2, <2>3
<1>10. \A c : From(c, r)' = From(c, r)
  BY <1>2 DEF From
<1> QED
  BY <1>2, <1>3, <1>4, <1>5, <1>6, <1>8, <1>9, <1>10

LEMMA KindsWritten ==
  /\ \A p, q \in Queues : \A j \in 1..Len(UpdateOf(p)[q]) : UpdateOf(p)[q][j] = "update"
  /\ \A q \in Queues : \A j \in 1..Len(ResizeOf[q]) : ResizeOf[q][j] = "resize"
  /\ \A q \in Queues : \A j \in 1..Len(FlushOf[q]) : FlushOf[q][j] \in {"flush", "free", "finish"}
  /\ \A q \in Queues : (\E j \in 1..Len(FlushOf[q]) : FlushOf[q][j] = "flush") <=> q = Main
  /\ \A q \in Queues : (\E j \in 1..Len(FlushOf[q]) : FlushOf[q][j] = "finish") <=> q # Main
  /\ \A q \in Queues : \A j \in 1..Len(PresentOf[q]) : PresentOf[q][j] \in {"present", "free"}
  /\ \A q \in Queues : (\E j \in 1..Len(PresentOf[q]) : PresentOf[q][j] = "present") <=> q = Main
<1>1. \A x : 1..Len(<<x>>) = {1} /\ <<x>>[1] = x
  OBVIOUS
<1>2. \A x, y : 1..Len(<<x, y>>) = {1, 2} /\ <<x, y>>[1] = x /\ <<x, y>>[2] = y
  OBVIOUS
<1>3. 1..Len(<< >>) = {}
  OBVIOUS
<1>4. \A p, q \in Queues : UpdateOf(p)[q] = <<"update">> \/ UpdateOf(p)[q] = << >>
  BY DEF UpdateOf
<1>5. \A q \in Queues : ResizeOf[q] = <<"resize">> \/ ResizeOf[q] = << >>
  BY DEF ResizeOf
<1>6. \A q \in Queues : /\ q = Main => FlushOf[q] = <<"flush">>
                        /\ q # Main => FlushOf[q] = <<"free", "finish">>
  BY DEF FlushOf, Closing
<1>7. \A q \in Queues : /\ q = Main => PresentOf[q] = <<"present", "free">>
                        /\ q # Main => PresentOf[q] = << >>
  BY DEF PresentOf
<1>8. \A p, q \in Queues : \A j \in 1..Len(UpdateOf(p)[q]) : UpdateOf(p)[q][j] = "update"
  BY <1>1, <1>3, <1>4
<1>9. \A q \in Queues : \A j \in 1..Len(ResizeOf[q]) : ResizeOf[q][j] = "resize"
  BY <1>1, <1>3, <1>5
<1>10. ASSUME NEW q \in Queues
       PROVE  /\ \A j \in 1..Len(FlushOf[q]) : FlushOf[q][j] \in {"flush", "free", "finish"}
              /\ (\E j \in 1..Len(FlushOf[q]) : FlushOf[q][j] = "flush") <=> q = Main
              /\ (\E j \in 1..Len(FlushOf[q]) : FlushOf[q][j] = "finish") <=> q # Main
  <2>1. CASE q = Main
    BY <1>1, <1>6, <2>1
  <2>2. CASE q # Main
    BY SMTT(20), <1>2, <1>6, <2>2
  <2> QED
    BY <2>1, <2>2
<1>11. ASSUME NEW q \in Queues
       PROVE  /\ \A j \in 1..Len(PresentOf[q]) : PresentOf[q][j] \in {"present", "free"}
              /\ (\E j \in 1..Len(PresentOf[q]) : PresentOf[q][j] = "present") <=> q = Main
  <2>1. CASE q = Main
    BY <1>2, <1>7, <2>1
  <2>2. CASE q # Main
    BY <1>3, <1>7, <2>2
  <2> QED
    BY <2>1, <2>2
<1> QED
  BY <1>8, <1>9, <1>10, <1>11

\* A writing step that counts no frame.
LEMMA WritingInside ==
  ASSUME TypeOK, Alternating, NEW B, Writing(B), Given' = Given, Presented' = Presented,
         \A q \in Queues : \A j \in 1..Len(B[q]) : B[q][j] \in {"update", "resize"}
  PROVE  Alternating'
<1>1. PICK r \in Nat : Alternates(r)
  BY DEF Alternating
<1>2. /\ \A q \in Queues : \A kind \in Kinds \ {"switch"} : \A f :
           In(q, kind, f)' <=>
             In(q, kind, f) \/ (f = frame /\ \E j \in 1..Len(B[q]) : B[q][j] = kind)
      /\ \A c : From(c, r)' = From(c, r)
      /\ \A c \in 1..Cmds : \A i \in DOMAIN unread'[c] : unread'[c][i].frame >= From(c, r)
      /\ \A i \in DOMAIN unread'[Main] :
           unread'[Main][i].kind = "update" => unread'[Main][i].frame >= shown
      /\ UNCHANGED <<shown, sem, frame, flushing>>
  BY <1>1, WritingAlternates
<1>3. \A q \in Queues : \A kind \in {"finish", "flush", "present"} : \A f :
        In(q, kind, f)' <=> In(q, kind, f)
  BY <1>2 DEF Kinds
<1>4. Main \in Queues /\ 1..Cmds \subseteq Queues
  BY Typed
<1>5. Alternates(r)'
  BY <1>1, <1>2, <1>3, <1>4 DEF Alternates
<1> QED
  BY <1>1, <1>2, <1>3, <1>4, <1>5 DEF Alternating

LEMMA FlushAlternates ==
  ASSUME TypeOK, Alternating, Flush
  PROVE  Alternating'
<1>0. frame \in Nat /\ game = "record" /\ game' = "flushed" /\ Writing(FlushOf)
  BY FlushWrites DEF Flush, TypeOK
<1>1. PICK r \in Nat : Alternates(r)
  BY DEF Alternating
<1>2. /\ \A q \in Queues : \A kind \in Kinds \ {"switch"} : \A f :
           In(q, kind, f)' <=>
             In(q, kind, f) \/ (f = frame /\ \E j \in 1..Len(FlushOf[q]) : FlushOf[q][j] = kind)
      /\ \A c : From(c, r)' = From(c, r)
      /\ \A c \in 1..Cmds : From(c, r) <= r /\ From(c, r) \in Nat
      /\ \A c \in 1..Cmds : \A i \in DOMAIN unread'[c] : unread'[c][i].frame >= From(c, r)
      /\ \A i \in DOMAIN unread'[Main] :
           unread'[Main][i].kind = "update" => unread'[Main][i].frame >= shown
      /\ shown \in Nat /\ shown <= frame /\ shown <= r
      /\ UNCHANGED <<shown, sem, frame, flushing>>
  BY <1>0, <1>1, WritingAlternates
<1>3. Given = frame /\ Given' = frame + 1 /\ Presented' = Presented
  BY <1>0, <1>2 DEF Given, Presented
<1>4. Main \in Queues /\ 1..Cmds \subseteq Queues /\ Main \notin 1..Cmds
  BY Typed
<1>5. /\ \A f : In(Main, "present", f)' <=> In(Main, "present", f)
      /\ \A f : In(Main, "flush", f)' <=> In(Main, "flush", f) \/ f = frame
      /\ \A c \in 1..Cmds : \A f : In(c, "finish", f)' <=> In(c, "finish", f) \/ f = frame
  <2>1. {"present", "flush", "finish"} \subseteq Kinds \ {"switch"}
    BY DEF Kinds
  <2>2. \A j \in 1..Len(FlushOf[Main]) : FlushOf[Main][j] # "present"
    BY <1>4, KindsWritten
  <2>3. \A f : In(Main, "present", f)' <=> In(Main, "present", f)
    BY <1>2, <1>4, <2>1, <2>2
  <2>4. \A f : In(Main, "flush", f)' <=> In(Main, "flush", f) \/ f = frame
    BY <1>2, <1>4, <2>1, KindsWritten
  <2>5. \A c \in 1..Cmds : \A f : In(c, "finish", f)' <=> In(c, "finish", f) \/ f = frame
    BY SMTT(20), <1>2, <1>4, <2>1, KindsWritten
  <2> QED
    BY <2>3, <2>4, <2>5
<1>6. r <= frame /\ \A f \in Nat : In(Main, "flush", f) <=> r <= f /\ f < frame
  BY <1>1, <1>3 DEF Alternates
<1>7. \A f \in Nat : In(Main, "flush", f)' <=> r <= f /\ f < frame + 1
  BY <1>0, <1>5, <1>6
<1>8. ASSUME NEW c \in 1..Cmds, NEW f \in Nat
      PROVE  In(c, "finish", f)' <=> From(c, r) <= f /\ f < frame + 1
  <2>1. In(c, "finish", f) <=> From(c, r) <= f /\ f < frame
    BY <1>1, <1>3 DEF Alternates
  <2>2. From(c, r) <= frame /\ From(c, r) \in Nat
    BY <1>0, <1>2, <1>6
  <2>3. In(c, "finish", f)' <=> In(c, "finish", f) \/ f = frame
    BY <1>5
  <2> QED
    BY <1>0, <2>1, <2>2, <2>3
<1>9. Alternates(r)'
  <2>1. r \in {shown', shown' + 1} /\ r <= Given' /\ (flushing' # {} => r = shown' + 1)
    BY <1>0, <1>1, <1>2, <1>3, <1>6 DEF Alternates
  <2>2. \A f \in Nat : In(Main, "flush", f)' <=> r <= f /\ f < Given'
    BY <1>3, <1>7
  <2>3. ASSUME NEW c \in 1..Cmds
        PROVE  /\ \A f \in Nat : In(c, "finish", f)' <=> From(c, r)' <= f /\ f < Given'
               /\ \A i \in DOMAIN unread'[c] : unread'[c][i].frame >= From(c, r)'
    <3>1. From(c, r)' = From(c, r)
      BY <1>2
    <3>2. \A f \in Nat : In(c, "finish", f)' <=> From(c, r)' <= f /\ f < Given'
      BY <1>3, <1>8, <3>1
    <3> QED
      BY <1>2, <3>1, <3>2
  <2> QED
    BY <2>1, <2>2, <2>3 DEF Alternates
<1>10. /\ shown' <= Presented' /\ sem' = Ahead - (frame' - shown')
       /\ \A f \in Nat : In(Main, "present", f)' <=> shown' <= f /\ f < Presented'
  BY <1>2, <1>3, <1>5 DEF Alternating
<1> QED
  BY <1>1, <1>2, <1>9, <1>10 DEF Alternating

LEMMA PresentAlternates ==
  ASSUME TypeOK, Alternating, Present
  PROVE  Alternating'
<1>0. frame \in Nat /\ game = "flushed" /\ game' = "wait" /\ Writing(PresentOf)
  BY PresentWrites DEF Present, TypeOK
<1>1. PICK r \in Nat : Alternates(r)
  BY DEF Alternating
<1>2. /\ \A q \in Queues : \A kind \in Kinds \ {"switch"} : \A f :
           In(q, kind, f)' <=>
             In(q, kind, f) \/ (f = frame /\ \E j \in 1..Len(PresentOf[q]) : PresentOf[q][j] = kind)
      /\ \A c : From(c, r)' = From(c, r)
      /\ \A c \in 1..Cmds : \A i \in DOMAIN unread'[c] : unread'[c][i].frame >= From(c, r)
      /\ \A i \in DOMAIN unread'[Main] :
           unread'[Main][i].kind = "update" => unread'[Main][i].frame >= shown
      /\ shown \in Nat /\ shown <= frame
      /\ UNCHANGED <<shown, sem, frame, flushing>>
  BY <1>0, <1>1, WritingAlternates
<1>3. Given' = Given /\ Presented = frame /\ Presented' = frame + 1
  BY <1>0, <1>2 DEF Given, Presented
<1>4. Main \in Queues /\ 1..Cmds \subseteq Queues /\ Main \notin 1..Cmds
  BY Typed
<1>5. /\ \A f : In(Main, "present", f)' <=> In(Main, "present", f) \/ f = frame
      /\ \A q \in Queues : \A f : In(q, "flush", f)' <=> In(q, "flush", f)
      /\ \A q \in Queues : \A f : In(q, "finish", f)' <=> In(q, "finish", f)
  <2>1. {"present", "flush", "finish"} \subseteq Kinds \ {"switch"}
    BY DEF Kinds
  <2>2. \A q \in Queues : \A j \in 1..Len(PresentOf[q]) : PresentOf[q][j] \notin {"flush", "finish"}
    BY KindsWritten
  <2>3. \A q \in Queues : \A f : In(q, "flush", f)' <=> In(q, "flush", f)
    BY <1>2, <2>1, <2>2
  <2>4. \A q \in Queues : \A f : In(q, "finish", f)' <=> In(q, "finish", f)
    BY <1>2, <2>1, <2>2
  <2>5. \A f : In(Main, "present", f)' <=> In(Main, "present", f) \/ f = frame
    BY <1>2, <1>4, <2>1, KindsWritten
  <2> QED
    BY <2>3, <2>4, <2>5
<1>6. Alternates(r)'
  BY <1>1, <1>2, <1>3, <1>4, <1>5 DEF Alternates
<1>7. \A f \in Nat : In(Main, "present", f) <=> shown <= f /\ f < frame
  BY <1>3 DEF Alternating
<1>8. \A f \in Nat : In(Main, "present", f)' <=> shown <= f /\ f < frame + 1
  BY <1>0, <1>2, <1>5, <1>7
<1>9. shown <= frame + 1 /\ sem' = Ahead - (frame' - shown')
  BY <1>0, <1>2 DEF Alternating
<1> QED
  BY <1>1, <1>2, <1>3, <1>6, <1>8, <1>9 DEF Alternating

\* The first message of the main queue is of the frame that is shown next, if it
\* is a flush or a present, and a present comes after all was flushed.
LEMMA FirstOfMain ==
  ASSUME TypeOK, Ordered, Fitting, Alternating, unread[Main] # << >>, flushing = {},
         NEW r \in Nat, Alternates(r)
  PROVE  LET m == unread[Main][1] IN
         /\ m.kind = "present" => m.frame = shown /\ r = shown + 1 /\ shown < Presented
         /\ m.kind = "flush" => m.frame = shown /\ r = shown /\ shown < Given
<1> DEFINE m == unread[Main][1]
<1>0. /\ Main \in Queues /\ 1 \in DOMAIN unread[Main] /\ m.frame \in Nat
      /\ shown \in Nat /\ Given \in Nat /\ Presented \in Nat
      /\ Presented <= Given /\ Given <= Presented + 1
  <2>1. Main \in Queues /\ unread[Main] \in Seq(Messages) /\ DOMAIN unread[Main] = 1..Len(unread[Main])
        /\ Len(unread[Main]) \in Nat
    BY Typed
  <2>2. 1 \in DOMAIN unread[Main]
    BY <2>1, EmptySeq
  <2>3. m \in Messages
    BY <2>1, <2>2, Typed
  <2>4. m.frame \in Nat
    BY <2>3, MessageFields
  <2> QED
    BY <2>1, <2>2, <2>4 DEF TypeOK, Given, Presented
<1>1. Fits(Main, m)
  BY <1>0 DEF Fitting
<1>2. r \in {shown, shown + 1} /\ r <= Given
      /\ \A f \in Nat : In(Main, "flush", f) <=> r <= f /\ f < Given
  BY DEF Alternates
<1>3. \A f \in Nat : In(Main, "present", f) <=> shown <= f /\ f < Presented
  BY DEF Alternating
<1>4. ASSUME m.kind = "present"
      PROVE  m.frame = shown /\ r = shown + 1 /\ shown < Presented
  <2>1. In(Main, "present", m.frame)
    BY <1>0, <1>4 DEF In
  <2>2. shown <= m.frame /\ m.frame < Presented
    BY <1>0, <1>3, <2>1
  <2>3. In(Main, "present", shown)
    BY <1>0, <1>3, <2>2
  <2>4. m.frame <= shown
    BY <1>0, <2>3, InFirst
  <2>5. r # shown
    <3>1. SUFFICES ASSUME r = shown PROVE FALSE
      OBVIOUS
    <3>2. In(Main, "flush", shown)
      BY <1>0, <1>2, <2>2, <3>1
    <3>3. m.frame < shown
      BY <1>0, <1>4, <3>2, InFirst
    <3> QED
      BY <1>0, <2>2, <3>3
  <2> QED
    BY <1>0, <1>2, <2>2, <2>4, <2>5
<1>5. ASSUME m.kind = "flush"
      PROVE  m.frame = shown /\ r = shown /\ shown < Given
  <2>1. In(Main, "flush", m.frame)
    BY <1>0, <1>5 DEF In
  <2>2. r <= m.frame /\ m.frame < Given
    BY <1>0, <1>2, <2>1
  <2>3. In(Main, "flush", r)
    BY <1>0, <1>2, <2>2
  <2>4. m.frame <= r
    BY <1>0, <2>3, InFirst
  <2>5. r # shown + 1
    <3>1. SUFFICES ASSUME r = shown + 1 PROVE FALSE
      OBVIOUS
    <3>2. shown < Presented
      BY <1>0, <2>2, <3>1
    <3>3. In(Main, "present", shown)
      BY <1>0, <1>3, <3>2
    <3>4. m.frame <= shown
      BY <1>0, <3>3, InFirst
    <3> QED
      BY <1>0, <2>2, <3>1, <3>4
  <2> QED
    BY <1>0, <1>2, <2>2, <2>4, <2>5
<1> QED
  BY <1>4, <1>5

LEMMA MainAlternates ==
  ASSUME TypeOK, Ordered, Fitting, Alternating, ReadMain
  PROVE  Alternating'
<1> DEFINE m == unread[Main][1]
<1>0. Reads(Main) /\ Main \in Queues /\ Head(unread[Main]) = m /\ unread[Main] # << >>
  BY MainIsRead DEF Reads
<1>1. /\ flushing = {}
      /\ flushing' = IF m.kind = "flush" THEN 1..Cmds ELSE {}
      /\ shown' = IF m.kind = "present" THEN shown + 1 ELSE shown
      /\ sem' = IF m.kind = "present" THEN sem + 1 ELSE sem
      /\ frame' = frame /\ game' = game
  BY <1>0 DEF ReadMain, Signalled
<1>2. shown \in Nat /\ frame \in Nat /\ sem \in Nat /\ Given' = Given /\ Presented' = Presented
      /\ Given \in Nat /\ Presented \in Nat /\ Ahead \in Nat
  BY <1>1, FrameAssumption DEF TypeOK, Given, Presented
<1>3. PICK r \in Nat : Alternates(r)
  BY DEF Alternating
<1>4. /\ m.kind = "present" => m.frame = shown /\ r = shown + 1 /\ shown < Presented
      /\ m.kind = "flush" => m.frame = shown /\ r = shown /\ shown < Given
  BY <1>0, <1>1, <1>3, FirstOfMain
<1>5. /\ \A f : In(Main, "present", f)' <=> In(Main, "present", f) /\ ~(m.kind = "present" /\ m.frame = f)
      /\ \A f : In(Main, "flush", f)' <=> In(Main, "flush", f) /\ ~(m.kind = "flush" /\ m.frame = f)
  BY <1>0, InShrinks
<1>6. \A c \in 1..Cmds : unread'[c] = unread[c]
  BY <1>0, Typed, Shrunk
<1>7. \A c \in 1..Cmds : \A f : In(c, "finish", f)' <=> In(c, "finish", f)
  BY <1>6 DEF In
<1>8. /\ r \in {shown, shown + 1} /\ r <= Given
      /\ \A f \in Nat : In(Main, "flush", f) <=> r <= f /\ f < Given
      /\ \A c \in 1..Cmds :
           /\ \A f \in Nat : In(c, "finish", f) <=> r <= f /\ f < Given
           /\ \A i \in DOMAIN unread[c] : unread[c][i].frame >= r
  BY <1>1, <1>3 DEF Alternates, From
<1>9. /\ shown <= Presented /\ sem = Ahead - (frame - shown)
      /\ \A f \in Nat : In(Main, "present", f) <=> shown <= f /\ f < Presented
      /\ \A i \in DOMAIN unread[Main] :
           unread[Main][i].kind = "update" => unread[Main][i].frame >= shown
  BY DEF Alternating
<1>10. ASSUME NEW i \in DOMAIN unread'[Main], unread'[Main][i].kind = "update"
       PROVE  unread'[Main][i].frame >= shown'
  <2>1. i + 1 \in DOMAIN unread[Main] /\ unread'[Main][i] = unread[Main][i + 1] /\ 1 < i + 1
        /\ 1 \in DOMAIN unread[Main]
    <3>1. DOMAIN unread'[Main] = 1..Len(unread[Main]) - 1 /\ Len(unread[Main]) \in Nat
      BY <1>0, Shrunk
    <3>2. i \in Nat /\ i >= 1
      BY <3>1
    <3> QED
      BY <1>0, <3>2, Shrunk
  <2>2. CASE m.kind = "present"
    <3>1. Precedes(m, unread[Main][i + 1])
      BY <1>0, <2>1 DEF Ordered
    <3>2. m.frame < unread[Main][i + 1].frame
      BY <1>10, <2>1, <2>2, <3>1 DEF Precedes
    <3>3. unread[Main][i + 1].frame \in Nat
      BY <1>0, <2>1, Typed, MessageFields
    <3> QED
      BY <1>1, <1>2, <1>4, <2>1, <2>2, <3>2, <3>3
  <2>3. CASE m.kind # "present"
    BY <1>1, <1>9, <1>10, <2>1, <2>3
  <2> QED
    BY <2>2, <2>3
<1> HIDE DEF m
<1>11. CASE m.kind = "present"
  <2>1. shown' = shown + 1 /\ sem' = sem + 1 /\ flushing' = {} /\ r = shown'
        /\ m.kind # "flush" /\ m.frame = shown
    BY <1>1, <1>4, <1>11
  <2>2. \A c \in 1..Cmds : From(c, r)' = r
    BY <2>1 DEF From
  <2>3. Alternates(r)'
    BY <1>2, <1>5, <1>6, <1>7, <1>8, <2>1, <2>2 DEF Alternates
  <2>4. \A f \in Nat : In(Main, "present", f)' <=> shown' <= f /\ f < Presented'
    BY <1>2, <1>5, <1>9, <1>11, <2>1
  <2>5. shown' <= Presented' /\ sem' = Ahead - (frame' - shown')
    BY <1>1, <1>2, <1>4, <1>9, <1>11, <2>1
  <2> QED
    BY <1>3, <1>10, <2>3, <2>4, <2>5 DEF Alternating
<1>12. CASE m.kind = "flush"
  <2>1. shown' = shown /\ sem' = sem /\ flushing' = 1..Cmds /\ r = shown
        /\ m.kind # "present" /\ m.frame = shown /\ shown < Given
    BY <1>1, <1>4, <1>12
  <2>2. \A c \in 1..Cmds : From(c, r + 1)' = r
    BY <2>1 DEF From
  <2>3. \A f \in Nat : In(Main, "flush", f)' <=> r + 1 <= f /\ f < Given'
    BY <1>2, <1>5, <1>8, <1>12, <2>1
  <2>4. r + 1 \in {shown', shown' + 1} /\ r + 1 <= Given' /\ r + 1 = shown' + 1 /\ r + 1 \in Nat
    BY <1>2, <2>1
  <2>5. Alternates(r + 1)'
    BY <1>2, <1>6, <1>7, <1>8, <2>2, <2>3, <2>4 DEF Alternates
  <2>6. \A f \in Nat : In(Main, "present", f)' <=> shown' <= f /\ f < Presented'
    BY <1>2, <1>5, <1>9, <2>1
  <2> QED
    BY <1>1, <1>2, <1>9, <1>10, <2>1, <2>4, <2>5, <2>6 DEF Alternating
<1>13. CASE m.kind \notin {"present", "flush"}
  <2>1. shown' = shown /\ sem' = sem /\ flushing' = {}
    BY <1>1, <1>13
  <2>2. \A c \in 1..Cmds : From(c, r)' = r
    BY <2>1 DEF From
  <2>3. Alternates(r)'
    BY <1>2, <1>5, <1>6, <1>7, <1>8, <1>13, <2>1, <2>2 DEF Alternates
  <2>4. \A f \in Nat : In(Main, "present", f)' <=> shown' <= f /\ f < Presented'
    BY <1>2, <1>5, <1>9, <1>13, <2>1
  <2> QED
    BY <1>1, <1>2, <1>3, <1>9, <1>10, <2>1, <2>3, <2>4 DEF Alternating
<1> QED
  BY <1>11, <1>12, <1>13

LEMMA CmdAlternates ==
  ASSUME TypeOK, Ordered, Alternating, NEW c \in 1..Cmds, ReadCmd(c)
  PROVE  Alternating'
<1> DEFINE m == unread[c][1]
<1>0. /\ Reads(c) /\ c \in Queues /\ c # Main /\ c \in flushing /\ Main \in Queues
      /\ Head(unread[c]) = m /\ m.frame = shown
  BY CmdIsRead, Typed
<1>1. /\ flushing' = IF m.kind = "finish" THEN flushing \ {c} ELSE flushing
      /\ UNCHANGED <<shown, sem, frame, game>>
  BY <1>0 DEF ReadCmd
<1>2. shown \in Nat /\ Given' = Given /\ Presented' = Presented
  BY <1>1 DEF TypeOK, Given, Presented
<1>3. PICK r \in Nat : Alternates(r)
  BY DEF Alternating
<1>4. r = shown + 1
  BY <1>0, <1>3 DEF Alternates
<1>5. \A p \in Queues : p # c => unread'[p] = unread[p]
  BY <1>0, Shrunk
<1>6. \A f : In(c, "finish", f)' <=> In(c, "finish", f) /\ ~(m.kind = "finish" /\ m.frame = f)
  BY <1>0, InShrinks
<1>7. \A i \in DOMAIN unread'[c] :
        /\ i + 1 \in DOMAIN unread[c] /\ unread'[c][i] = unread[c][i + 1]
        /\ unread[c][i + 1].frame \in Nat
        /\ m.kind = "finish" => unread[c][i + 1].frame > shown
  <2>1. SUFFICES ASSUME NEW i \in DOMAIN unread'[c]
        PROVE  /\ i + 1 \in DOMAIN unread[c] /\ unread'[c][i] = unread[c][i + 1]
               /\ unread[c][i + 1].frame \in Nat
               /\ m.kind = "finish" => unread[c][i + 1].frame > shown
    OBVIOUS
  <2>2. i + 1 \in DOMAIN unread[c] /\ unread'[c][i] = unread[c][i + 1] /\ 1 < i + 1
        /\ 1 \in DOMAIN unread[c]
    <3>1. DOMAIN unread'[c] = 1..Len(unread[c]) - 1 /\ Len(unread[c]) \in Nat
      BY <1>0, Shrunk
    <3>2. i \in Nat /\ i >= 1
      BY <3>1
    <3> QED
      BY <1>0, <3>2, Shrunk
  <2>3. Precedes(m, unread[c][i + 1])
    BY <1>0, <2>2 DEF Ordered
  <2>4. unread[c][i + 1].frame \in Nat
    BY <1>0, <2>2, Typed, MessageFields
  <2> QED
    BY <1>0, <1>2, <2>2, <2>3, <2>4 DEF Precedes
<1> HIDE DEF m
<1>8. ASSUME NEW d \in 1..Cmds
      PROVE  /\ \A f \in Nat : In(d, "finish", f)' <=> From(d, r)' <= f /\ f < Given'
             /\ \A i \in DOMAIN unread'[d] : unread'[d][i].frame >= From(d, r)'
  <2>0. /\ \A f \in Nat : In(d, "finish", f) <=> From(d, r) <= f /\ f < Given
        /\ \A i \in DOMAIN unread[d] : unread[d][i].frame >= From(d, r)
    BY <1>3 DEF Alternates
  <2>1. CASE d # c
    <3>1. unread'[d] = unread[d]
      BY <1>5, <2>1, Typed
    <3>2. From(d, r)' = From(d, r)
      BY <1>1, <2>1 DEF From
    <3>3. \A f : In(d, "finish", f)' <=> In(d, "finish", f)
      BY <3>1 DEF In
    <3> QED
      BY <1>2, <2>0, <3>1, <3>2, <3>3
  <2>2. CASE d = c /\ m.kind = "finish"
    <3>1. From(d, r) = shown
      BY <1>0, <2>2 DEF From
    <3>2. From(d, r)' = shown + 1
      BY <1>1, <1>4, <2>2 DEF From
    <3>3. \A f \in Nat : In(d, "finish", f)' <=> shown + 1 <= f /\ f < Given
      BY <1>0, <1>2, <1>6, <2>0, <2>2, <3>1
    <3>4. \A i \in DOMAIN unread'[d] : unread'[d][i].frame >= shown + 1
      BY <1>2, <1>7, <2>2
    <3> QED
      BY <1>2, <3>2, <3>3, <3>4
  <2>3. CASE d = c /\ m.kind # "finish"
    <3>1. From(d, r)' = From(d, r)
      BY <1>1, <2>3 DEF From
    <3> QED
      BY <1>2, <1>6, <1>7, <2>0, <2>3, <3>1
  <2> QED
    BY <2>1, <2>2, <2>3
<1>9. unread'[Main] = unread[Main]
  BY <1>0, <1>5
<1>10. \A kind, f : In(Main, kind, f)' <=> In(Main, kind, f)
  BY <1>9 DEF In
<1>11. Alternates(r)'
  <2>1. r \in {shown', shown' + 1} /\ r <= Given' /\ (flushing' # {} => r = shown' + 1)
    BY <1>1, <1>2, <1>3, <1>4 DEF Alternates
  <2>2. \A f \in Nat : In(Main, "flush", f)' <=> r <= f /\ f < Given'
    BY <1>2, <1>3, <1>10 DEF Alternates
  <2> QED
    BY <1>8, <2>1, <2>2 DEF Alternates
<1> QED
  BY <1>1, <1>2, <1>3, <1>9, <1>10, <1>11 DEF Alternating

LEMMA AlternatingStep ==
  ASSUME TypeOK, Ordered, Fitting, Alternating, [Next]_vars
  PROVE  Alternating'
<1>0. frame \in Nat /\ shown \in Nat /\ sem \in Nat /\ Ahead \in Nat
  BY FrameAssumption DEF TypeOK
<1>1. ASSUME NEW p \in Queues, Update(p) PROVE Alternating'
  <2>1. game' = game /\ frame' = frame
    BY <1>1 DEF Update
  <2>2. Given' = Given /\ Presented' = Presented
    BY <2>1 DEF Given, Presented
  <2> QED
    BY <1>1, <2>2, UpdateWrites, KindsWritten, WritingInside
<1>2. CASE Resize
  <2>1. game' = game /\ frame' = frame
    BY <1>2 DEF Resize
  <2>2. Given' = Given /\ Presented' = Presented
    BY <2>1 DEF Given, Presented
  <2> QED
    BY <1>2, <2>2, ResizeWrites, KindsWritten, WritingInside
<1>3. CASE Flush
  BY <1>3, FlushAlternates
<1>4. CASE Present
  BY <1>4, PresentAlternates
<1>5. CASE Kick
  <2>1. UNCHANGED <<unread, flushing, shown, sem, frame, game>>
    BY <1>5 DEF Kick
  <2>2. Given' = Given /\ Presented' = Presented
    BY <2>1 DEF Given, Presented
  <2>3. \A r : Alternates(r)' <=> Alternates(r)
    BY <2>1, <2>2 DEF Alternates, From, In
  <2>4. \A kind, f : In(Main, kind, f)' <=> In(Main, kind, f)
    BY <2>1 DEF In
  <2> QED
    BY <2>1, <2>2, <2>3, <2>4 DEF Alternating
<1>6. CASE NextFrame
  <2>1. UNCHANGED <<unread, flushing, shown>> /\ game = "wait" /\ game' = "record"
        /\ frame' = frame + 1 /\ sem' = sem - 1
    BY <1>6 DEF NextFrame, Device, Pass
  <2>2. Given' = Given /\ Presented' = Presented
    BY <1>0, <2>1 DEF Given, Presented
  <2>3. sem' = Ahead - (frame' - shown')
    BY <1>0, <2>1 DEF Alternating
  <2>4. \A r : Alternates(r)' <=> Alternates(r)
    BY <2>1, <2>2 DEF Alternates, From, In
  <2>5. \A kind, f : In(Main, kind, f)' <=> In(Main, kind, f)
    BY <2>1 DEF In
  <2> QED
    BY <2>1, <2>2, <2>3, <2>4, <2>5 DEF Alternating
<1>7. CASE ReadMain
  BY <1>7, MainAlternates
<1>8. ASSUME NEW c \in 1..Cmds, ReadCmd(c) PROVE Alternating'
  BY <1>8, CmdAlternates
<1>9. CASE UNCHANGED vars
  BY <1>9 DEF vars, Alternating, Alternates, From, In, Given, Presented
<1> QED
  BY <1>1, <1>2, <1>3, <1>4, <1>5, <1>6, <1>7, <1>8, <1>9 DEF Next
-----------------------------------------------------------------------------
(* Types                                                                   *)

LEMMA Smaller ==
  ASSUME NEW a \in Nat, NEW b \in Nat, NEW k \in Nat, a <= b - k
  PROVE  a <= b /\ \A x \in 0..a : x \in 0..b
OBVIOUS

LEMMA WrittenLength ==
  ASSUME TypeOK, NEW B, Writing(B)
  PROVE  /\ Len(unread[Main]) \in Nat /\ Len(unread'[Main]) \in Nat
         /\ published \in 0..Len(unread'[Main])
<1>1. Main \in Queues
  BY Typed
<1>2. B[Main] \in Batches /\ Added(Main, B[Main])
  BY <1>1 DEF Writing, Suits
<1>3. Len(B[Main]) \in 0..2
  BY <1>2, BatchKinds
<1>4. Len(unread[Main]) \in Nat /\ Len(unread'[Main]) \in Nat
      /\ Len(unread[Main]) <= Len(unread'[Main]) - Len(B[Main])
  BY <1>1, <1>2, Grown
<1>5. published \in 0..Len(unread[Main]) /\ Len(B[Main]) \in Nat
  BY <1>3 DEF TypeOK
<1> QED
  BY <1>4, <1>5, Smaller

LEMMA ChunksTyped ==
  ASSUME TypeOK, NEW q \in Queues, NEW m \in Messages, Chunks(q, m)
  PROVE  /\ stands' \in [Queues -> 1..MaxChunks]
         /\ stash' \subseteq Queues \X (1..MaxChunks)
         /\ freed' \subseteq Queues \X (1..MaxChunks)
<1>1. m.chunk \in 1..MaxChunks
  BY MessageFields
<1>2. stands' \in [Queues -> 1..MaxChunks]
  BY <1>1 DEF Chunks, TypeOK
<1>3. stash \subseteq Queues \X (1..MaxChunks) /\ freed \subseteq Queues \X (1..MaxChunks)
      /\ <<q, m.chunk>> \in Queues \X (1..MaxChunks)
  BY <1>1 DEF TypeOK
<1>4. stash' \in {stash \cup {<<q, m.chunk>>}, {}, stash} /\ freed' \in {freed \cup stash, freed}
  BY DEF Chunks
<1> QED
  BY <1>2, <1>3, <1>4

LEMMA TypeStep ==
  ASSUME TypeOK, Ordered, Alternating, [Next]_vars
  PROVE  TypeOK'
<1>1. ASSUME NEW p \in Queues, Update(p) PROVE TypeOK'
  <2>1. Writing(UpdateOf(p))
    BY <1>1, UpdateWrites
  <2>2. published \in 0..Len(unread'[Main])
    BY <2>1, WrittenLength DEF TypeOK
  <2>3. slots' \in [0..Ahead -> Nat] /\ ops' \in 0..MaxOps
    BY <1>1, FrameAssumption DEF Update, Counted, TypeOK
  <2> QED
    BY <1>1, <2>1, <2>2, <2>3 DEF Update, Device, Writing, TypeOK
<1>2. CASE Resize
  <2>1. Writing(ResizeOf)
    BY <1>2, ResizeWrites
  <2>2. published \in 0..Len(unread'[Main])
    BY <2>1, WrittenLength DEF TypeOK
  <2>3. gen' \in Nat \ {0} /\ ops' \in 0..MaxOps
    BY <1>2, FrameAssumption DEF Resize, Counted, TypeOK
  <2>4. late' \in BOOLEAN
    BY <1>2, Zenon DEF Resize, TypeOK
  <2> QED
    BY <1>2, <2>1, <2>2, <2>3, <2>4 DEF Resize, Device, Writing, TypeOK
<1>3. CASE Flush
  <2>1. Writing(FlushOf)
    BY <1>3, FlushWrites
  <2>2. published \in 0..Len(unread'[Main])
    BY <2>1, WrittenLength DEF TypeOK
  <2> QED
    BY <1>3, <2>1, <2>2 DEF Flush, Device, Writing, TypeOK
<1>4. CASE Present
  <2>1. Writing(PresentOf)
    BY <1>4, PresentWrites
  <2>2. published' \in 0..Len(unread'[Main])
    BY <1>4, <2>1, WrittenLength DEF Present
  <2>3. index' \in 0..Ahead
    BY <1>4, FrameAssumption DEF Present, NextIndex, MaxFrameIndex, TypeOK
  <2> QED
    BY <1>4, <2>1, <2>2, <2>3 DEF Present, Writing, TypeOK
<1>5. CASE Kick
  <2>1. published' \in 0..Len(unread'[Main])
    BY <1>5, Typed DEF Kick
  <2> QED
    BY <1>5, <2>1 DEF Kick, TypeOK
<1>6. CASE NextFrame
  <2>1. sem' \in Nat /\ frame' \in Nat /\ game' = "record"
    BY <1>6 DEF NextFrame, Pass, TypeOK
  <2> QED
    BY <1>6, <2>1 DEF NextFrame, Device, TypeOK
<1>7. CASE ReadMain
  <2> DEFINE m == Head(unread[Main])
  <2>1. Reads(Main) /\ Main \in Queues /\ m \in Messages
    <3>1. Reads(Main) /\ Main \in Queues
      BY <1>7, MainIsRead
    <3> QED
      BY <3>1, Shrunk
  <2>2. Chunks(Main, m)
    BY <1>7 DEF ReadMain
  <2>3. /\ stands' \in [Queues -> 1..MaxChunks]
        /\ stash' \subseteq Queues \X (1..MaxChunks)
        /\ freed' \subseteq Queues \X (1..MaxChunks)
    BY <2>1, <2>2, ChunksTyped
  <2>4. gone' \in Nat /\ shown' \in Nat /\ sem' \in Nat /\ flushing' \subseteq 1..Cmds
    <3>1. m.gen \in Nat
      BY <2>1, MessageFields
    <3> QED
      BY <1>7, <3>1 DEF ReadMain, Signalled, TypeOK
  <2>5. unread' \in [Queues -> Seq(Messages)] /\ Len(unread'[Main]) = Len(unread[Main]) - 1
        /\ Len(unread[Main]) \in Nat
    BY <2>1, Shrunk
  <2>6. published' \in 0..Len(unread'[Main])
    BY <1>7, <2>5 DEF ReadMain, TypeOK
  <2> HIDE DEF m
  <2> QED
    BY <1>7, <2>3, <2>4, <2>5, <2>6 DEF ReadMain, TypeOK
<1>8. ASSUME NEW c \in 1..Cmds, ReadCmd(c) PROVE TypeOK'
  <2> DEFINE m == Head(unread[c])
  <2>1. Reads(c) /\ c \in Queues /\ c # Main /\ m \in Messages /\ Main \in Queues
    <3>1. Reads(c) /\ c \in Queues /\ c # Main
      BY <1>8, CmdIsRead
    <3> QED
      BY <3>1, Shrunk, Typed
  <2>2. Chunks(c, m)
    BY <1>8 DEF ReadCmd
  <2>3. /\ stands' \in [Queues -> 1..MaxChunks]
        /\ stash' \subseteq Queues \X (1..MaxChunks)
        /\ freed' \subseteq Queues \X (1..MaxChunks)
    BY <2>1, <2>2, ChunksTyped
  <2>4. flushing' \subseteq 1..Cmds
    BY <1>8 DEF ReadCmd, TypeOK
  <2>5. unread' \in [Queues -> Seq(Messages)] /\ unread'[Main] = unread[Main]
    BY <2>1, Shrunk
  <2> HIDE DEF m
  <2> QED
    BY <1>8, <2>3, <2>4, <2>5 DEF ReadCmd, TypeOK
<1>9. CASE UNCHANGED vars
  BY <1>9 DEF vars, TypeOK
<1> QED
  BY <1>1, <1>2, <1>3, <1>4, <1>5, <1>6, <1>7, <1>8, <1>9 DEF Next
-----------------------------------------------------------------------------
(* Staging slots                                                           *)

\* A slot comes up again only after Ahead + 1 frames.
LEMMA SlotAge ==
  ASSUME NEW a \in Nat, NEW i \in 0..a, NEW d \in 0..a,
         i = IF d <= i THEN i - d ELSE i - d + (a + 1)
  PROVE  d = 0
OBVIOUS

LEMMA Turn ==
  ASSUME NEW a \in Nat, NEW i \in 0..a
  PROVE  (i + 1) % (a + 1) = IF i = a THEN 0 ELSE i + 1
<1>1. CASE i = a
  <2>1. i + 1 = a + 1 /\ a + 1 \in Nat /\ a + 1 > 0
    BY <1>1
  <2>2. ASSUME NEW n \in Nat, n > 0 PROVE n % n = 0
    BY <2>2
  <2> QED
    BY <1>1, <2>1, <2>2
<1>2. CASE i # a
  <2>1. i + 1 \in Nat /\ a + 1 \in Nat /\ i + 1 < a + 1
    BY <1>2
  <2>2. ASSUME NEW n \in Nat, NEW k \in Nat, k < n PROVE k % n = k
    BY <2>2
  <2> QED
    BY <1>2, <2>1, <2>2
<1> QED
  BY <1>1, <1>2

LEMMA SlotTurns ==
  ASSUME NEW a \in Nat, NEW i \in 0..a, NEW d \in 0..a, NEW j,
         j = IF i = a THEN 0 ELSE i + 1
  PROVE  (IF d <= i THEN i - d ELSE i - d + (a + 1))
           = (IF d + 1 <= j THEN j - (d + 1) ELSE j - (d + 1) + (a + 1))
OBVIOUS

\* An update that is not read yet is of one of the last Ahead + 1 frames.
LEMMA UpdateAge ==
  ASSUME TypeOK, Fitting, Alternating, NEW q \in Queues, NEW i \in DOMAIN unread[q],
         unread[q][i].kind = "update"
  PROVE  /\ unread[q][i].frame \in Nat /\ shown <= unread[q][i].frame
         /\ unread[q][i].frame <= frame /\ frame - unread[q][i].frame \in 0..Ahead
         /\ unread[q][i].slot \in 0..Ahead
<1>1. unread[q][i].frame \in Nat /\ unread[q][i].frame <= frame /\ unread[q][i].slot \in 0..Ahead
  BY Typed, MessageFields DEF Fitting, Fits
<1>2. shown \in Nat /\ frame \in Nat /\ sem \in Nat /\ sem = Ahead - (frame - shown) /\ Ahead \in Nat
  BY FrameAssumption DEF TypeOK, Alternating
<1>3. shown <= unread[q][i].frame
  <2>1. CASE q = Main
    BY <2>1 DEF Alternating
  <2>2. CASE q \in 1..Cmds
    <3>1. PICK r \in Nat : Alternates(r)
      BY DEF Alternating
    <3>2. unread[q][i].frame >= From(q, r) /\ From(q, r) \in Nat /\ shown <= From(q, r)
      BY <1>2, <2>2, <3>1 DEF Alternates, From
    <3> QED
      BY <1>1, <1>2, <3>2
  <2> QED
    BY <2>1, <2>2, Typed
<1> QED
  BY <1>1, <1>2, <1>3

\* Steps that take messages away, or write none of updates, without a change to the slots.
LEMMA PlacedStays ==
  ASSUME Placed, UNCHANGED <<slots, index>>, Presented' = Presented,
         \A q \in Queues : \A i \in DOMAIN unread'[q] :
           unread'[q][i].kind = "update" =>
             \E j \in DOMAIN unread[q] : unread'[q][i] = unread[q][j]
  PROVE  Placed'
BY DEF Placed, SlotOf

LEMMA OldUpdates ==
  ASSUME TypeOK, NEW B, Writing(B), NEW q \in Queues,
         \A j \in 1..Len(B[q]) : B[q][j] # "update",
         NEW i \in DOMAIN unread'[q], unread'[q][i].kind = "update"
  PROVE  i \in DOMAIN unread[q] /\ unread'[q][i] = unread[q][i]
<1>1. B[q] \in Batches /\ Added(q, B[q])
  BY DEF Writing, Suits
<1>2. /\ DOMAIN unread'[q] = 1..Len(unread'[q]) /\ DOMAIN unread[q] = 1..Len(unread[q])
      /\ Len(unread[q]) \in Nat /\ Len(unread'[q]) \in Nat
      /\ \A h \in 1..Len(unread[q]) : unread'[q][h] = unread[q][h]
      /\ \A h \in 1..Len(unread'[q]) : h > Len(unread[q]) => New(q, B[q], h, unread'[q][h])
  BY <1>1, Grown, Typed
<1>3. ~(i > Len(unread[q]))
  <2>1. SUFFICES ASSUME i > Len(unread[q]) PROVE FALSE
    OBVIOUS
  <2>2. New(q, B[q], i, unread'[q][i])
    BY <1>2, <2>1
  <2> QED
    BY <2>2 DEF New
<1> QED
  BY <1>2, <1>3

LEMMA ReadUpdates ==
  ASSUME TypeOK, NEW p \in Queues, Reads(p), NEW q \in Queues, NEW i \in DOMAIN unread'[q]
  PROVE  \E j \in DOMAIN unread[q] : unread'[q][i] = unread[q][j]
<1>1. CASE q = p
  BY <1>1, Shrunk
<1>2. CASE q # p
  <2>1. unread'[q] = unread[q]
    BY <1>2, Shrunk
  <2> QED
    BY <2>1
<1> QED
  BY <1>1, <1>2

LEMMA PlacedStep ==
  ASSUME TypeOK, Ordered, Fitting, Alternating, Placed, [Next]_vars
  PROVE  Placed'
<1>0. frame \in Nat /\ index \in 0..Ahead /\ Ahead \in Nat /\ slots \in [0..Ahead -> Nat]
      /\ shown \in Nat
  BY FrameAssumption DEF TypeOK
<1>1. ASSUME NEW p \in Queues, Update(p) PROVE Placed'
  <2>1. Writing(UpdateOf(p))
    BY <1>1, UpdateWrites
  <2>2. /\ game' = game /\ frame' = frame /\ index' = index /\ game # "wait"
        /\ slots' = [slots EXCEPT ![index] = frame]
    BY <1>1 DEF Update
  <2>3. Presented = frame /\ Presented' = frame
    BY <1>0, <2>2 DEF Presented
  <2>4. ASSUME NEW q \in Queues, NEW i \in DOMAIN unread'[q], unread'[q][i].kind = "update"
        PROVE  /\ unread'[q][i].slot = SlotOf(frame - unread'[q][i].frame)
               /\ slots'[unread'[q][i].slot] = unread'[q][i].frame
    <3> DEFINE m == unread'[q][i]
    <3>1. Suits(q, UpdateOf(p)[q]) /\ Added(q, UpdateOf(p)[q]) /\ UpdateOf(p)[q] \in Batches
      BY <2>1 DEF Writing, Suits
    <3>2. /\ DOMAIN unread'[q] = 1..Len(unread'[q]) /\ DOMAIN unread[q] = 1..Len(unread[q])
          /\ Len(unread[q]) \in Nat /\ Len(unread'[q]) \in Nat
          /\ \A h \in 1..Len(unread[q]) : unread'[q][h] = unread[q][h]
          /\ \A h \in 1..Len(unread'[q]) : h > Len(unread[q]) => New(q, UpdateOf(p)[q], h, unread'[q][h])
      BY <3>1, Grown, Typed
    <3>3. CASE i <= Len(unread[q])
      <4>1. m = unread[q][i] /\ i \in DOMAIN unread[q]
        BY <3>2, <3>3
      <4> HIDE DEF m
      <4>2. m.frame \in Nat /\ frame - m.frame \in 0..Ahead /\ m.slot \in 0..Ahead
            /\ m.frame <= frame
        BY <2>4, <4>1, UpdateAge DEF m
      <4>3. m.slot = SlotOf(frame - m.frame) /\ slots[m.slot] = m.frame
        BY <2>3, <2>4, <4>1 DEF Placed, m
      <4>4. m.slot = index => frame - m.frame = 0
        BY <1>0, <4>2, <4>3, SlotAge DEF SlotOf, MaxFrameIndex
      <4>5. m.slot = index => m.frame = frame
        BY <1>0, <4>2, <4>4
      <4>6. slots'[m.slot] = m.frame
        BY <1>0, <2>2, <4>2, <4>3, <4>5
      <4> QED
        BY <4>3, <4>6 DEF m
    <3>4. CASE i > Len(unread[q])
      <4>1. m.frame = frame /\ m.slot = index
        BY <3>2, <3>4 DEF New
      <4> HIDE DEF m
      <4>2. frame - m.frame = 0
        BY <1>0, <4>1
      <4>3. SlotOf(0) = index
        BY <1>0 DEF SlotOf
      <4>4. slots'[index] = frame
        BY <1>0, <2>2
      <4> QED
        BY <4>1, <4>2, <4>3, <4>4 DEF m
    <3> QED
      BY <3>2, <3>3, <3>4
  <2>5. \A d : SlotOf(d)' = SlotOf(d)
    BY <2>2 DEF SlotOf
  <2> QED
    BY <2>3, <2>4, <2>5 DEF Placed
<1>2. CASE Resize
  <2>1. Writing(ResizeOf)
    BY <1>2, ResizeWrites
  <2>2. UNCHANGED <<slots, index, game, frame>>
    BY <1>2 DEF Resize
  <2>3. Presented' = Presented
    BY <2>2 DEF Presented
  <2>4. \A q \in Queues : \A j \in 1..Len(ResizeOf[q]) : ResizeOf[q][j] # "update"
    BY KindsWritten
  <2>5. \A q \in Queues : \A i \in DOMAIN unread'[q] : unread'[q][i].kind = "update" =>
             \E j \in DOMAIN unread[q] : unread'[q][i] = unread[q][j]
    BY <2>1, <2>4, OldUpdates
  <2> QED
    BY <2>2, <2>3, <2>5, PlacedStays
<1>3. CASE Flush
  <2>1. Writing(FlushOf)
    BY <1>3, FlushWrites
  <2>2. UNCHANGED <<slots, index, frame>> /\ game = "record" /\ game' = "flushed"
    BY <1>3 DEF Flush
  <2>3. Presented' = Presented
    BY <2>2 DEF Presented
  <2>4. \A q \in Queues : \A j \in 1..Len(FlushOf[q]) : FlushOf[q][j] # "update"
    BY KindsWritten
  <2>5. \A q \in Queues : \A i \in DOMAIN unread'[q] : unread'[q][i].kind = "update" =>
             \E j \in DOMAIN unread[q] : unread'[q][i] = unread[q][j]
    BY <2>1, <2>4, OldUpdates
  <2> QED
    BY <2>2, <2>3, <2>5, PlacedStays
<1>4. CASE Present
  <2>1. Writing(PresentOf)
    BY <1>4, PresentWrites
  <2>2. /\ UNCHANGED <<slots, frame>> /\ game = "flushed" /\ game' = "wait"
        /\ index' = (index + 1) % (Ahead + 1)
    BY <1>4 DEF Present, NextIndex, MaxFrameIndex
  <2>3. Presented = frame /\ Presented' = frame + 1
    BY <1>0, <2>2 DEF Presented
  <2>4. index' = IF index = Ahead THEN 0 ELSE index + 1
    BY <1>0, <2>2, Turn
  <2>5. ASSUME NEW d \in 0..Ahead PROVE SlotOf(d) = SlotOf(d + 1)'
    <3>1. PICK j : j = index'
      OBVIOUS
    <3>2. (IF d <= index THEN index - d ELSE index - d + (Ahead + 1))
           = (IF d + 1 <= j THEN j - (d + 1) ELSE j - (d + 1) + (Ahead + 1))
      BY <1>0, <2>4, <3>1, SlotTurns
    <3> QED
      BY <3>1, <3>2 DEF SlotOf, MaxFrameIndex
  <2>6. ASSUME NEW q \in Queues, NEW i \in DOMAIN unread'[q], unread'[q][i].kind = "update"
        PROVE  /\ unread'[q][i].slot = SlotOf(Presented - unread[q][i].frame)'
               /\ slots'[unread'[q][i].slot] = unread'[q][i].frame
    <3>1. \A j \in 1..Len(PresentOf[q]) : PresentOf[q][j] # "update"
      BY KindsWritten
    <3>2. i \in DOMAIN unread[q] /\ unread'[q][i] = unread[q][i]
      BY <2>1, <2>6, <3>1, OldUpdates
    <3>3. PICK m : m = unread[q][i]
      OBVIOUS
    <3>4. m.frame \in Nat /\ frame - m.frame \in 0..Ahead
      BY <2>6, <3>2, <3>3, UpdateAge
    <3>5. m.slot = SlotOf(frame - m.frame) /\ slots[m.slot] = m.frame
      BY <2>3, <2>6, <3>2, <3>3 DEF Placed
    <3>6. SlotOf(frame - m.frame) = SlotOf((frame - m.frame) + 1)'
      <4>1. PICK d \in 0..Ahead : d = frame - m.frame
        BY <3>4
      <4>2. SlotOf(d) = SlotOf(d + 1)'
        BY <2>5
      <4> QED
        BY <2>2, <4>1, <4>2
    <3>7. (frame - m.frame) + 1 = (frame + 1) - m.frame
      BY SMTT(20), <1>0, <3>4
    <3>8. SlotOf(Presented - unread[q][i].frame)' = SlotOf((frame - m.frame) + 1)'
      BY <2>2, <2>3, <3>2, <3>3, <3>7 DEF SlotOf
    <3> QED
      BY <2>2, <3>2, <3>3, <3>5, <3>6, <3>8
  <2> QED
    BY <2>6 DEF Placed
<1>5. CASE Kick
  BY <1>5 DEF Kick, Placed, SlotOf, Presented
<1>6. CASE NextFrame
  <2>1. UNCHANGED <<unread, slots, index>> /\ game = "wait" /\ game' = "record" /\ frame' = frame + 1
    BY <1>6 DEF NextFrame, Device
  <2>2. Presented' = Presented
    BY <1>0, <2>1 DEF Presented
  <2> QED
    BY <2>1, <2>2, PlacedStays
<1>7. CASE ReadMain
  <2>1. Reads(Main) /\ Main \in Queues
    BY <1>7, MainIsRead
  <2>2. UNCHANGED <<slots, index, game, frame>>
    BY <1>7 DEF ReadMain
  <2>3. Presented' = Presented
    BY <2>2 DEF Presented
  <2> QED
    BY <2>1, <2>2, <2>3, ReadUpdates, PlacedStays
<1>8. ASSUME NEW c \in 1..Cmds, ReadCmd(c) PROVE Placed'
  <2>1. Reads(c) /\ c \in Queues
    BY <1>8, CmdIsRead
  <2>2. UNCHANGED <<slots, index, game, frame>>
    BY <1>8 DEF ReadCmd
  <2>3. Presented' = Presented
    BY <2>2 DEF Presented
  <2> QED
    BY <2>1, <2>2, <2>3, ReadUpdates, PlacedStays
<1>9. CASE UNCHANGED vars
  BY <1>9 DEF vars, Placed, SlotOf, Presented
<1> QED
  BY <1>1, <1>2, <1>3, <1>4, <1>5, <1>6, <1>7, <1>8, <1>9 DEF Next
-----------------------------------------------------------------------------
(* Chunks                                                                  *)

LEMMA OneIsActive ==
  ASSUME TypeOK, NEW p, NEW q, Active(p), Active(q)
  PROVE  p = q
BY AtWorkIsOne DEF Active

LEMMA WritingBehind ==
  ASSUME TypeOK, Behind, NEW B, Writing(B), published' = published \/ published' = Len(unread'[Main])
  PROVE  Behind'
<1>1. /\ Main \in Queues /\ UNCHANGED <<stands, stash, freed, flushing>>
      /\ published \in 0..Len(unread[Main]) /\ published \in 0..Len(unread'[Main])
      /\ Len(unread'[Main]) \in Nat
  BY Typed, WrittenLength DEF Writing, TypeOK
<1>2. ASSUME NEW q \in Queues
      PROVE  /\ DOMAIN unread'[q] = 1..Len(unread'[q]) /\ DOMAIN unread[q] = 1..Len(unread[q])
             /\ Len(unread[q]) \in Nat /\ Len(unread'[q]) \in Nat
             /\ chunk'[q] \in {chunk[q], chunk[q] + 1} /\ chunk[q] \in Nat /\ stands[q] \in Nat
             /\ \A h \in 1..Len(unread[q]) : unread'[q][h] = unread[q][h]
             /\ \A h \in 1..Len(unread'[q]) : h > Len(unread[q]) => New(q, B[q], h, unread'[q][h])
             /\ Len(unread[q]) <= Len(unread'[q])
  <2>1. Added(q, B[q]) /\ B[q] \in Batches
    BY DEF Writing, Suits
  <2>2. Len(B[q]) \in Nat /\ chunk[q] \in Nat /\ stands[q] \in Nat
    BY <2>1, BatchKinds, Typed, FrameAssumption
  <2>3. /\ Len(unread[q]) \in Nat /\ Len(unread'[q]) \in Nat
        /\ Len(unread[q]) <= Len(unread'[q]) - Len(B[q])
    BY <2>1, Grown
  <2>4. Len(unread[q]) <= Len(unread'[q])
    BY <2>2, <2>3, Smaller
  <2> QED
    BY <2>1, <2>2, <2>4, Grown, Typed
<1>3. ASSUME NEW i \in {published', Len(unread'[Main])}, i > 0
      PROVE  unread'[Main][i].kind # "switch"
  <2>1. CASE i <= Len(unread[Main])
    <3>1. unread'[Main][i] = unread[Main][i]
      BY <1>1, <1>2, <1>3, <2>1
    <3>2. i \in {published, Len(unread[Main])}
      BY <1>1, <1>2, <2>1
    <3> QED
      BY <1>3, <3>1, <3>2 DEF Behind
  <2>2. CASE i > Len(unread[Main])
    <3>1. i = Len(unread'[Main])
      BY <1>1, <2>2
    <3>2. New(Main, B[Main], i, unread'[Main][i])
      BY <1>1, <1>2, <2>2, <3>1
    <3>3. \A j \in 1..Len(B[Main]) : B[Main][j] # "switch"
      BY <1>1, BatchKinds DEF Writing, Suits
    <3>4. unread'[Main][i].kind = "switch" => i < Len(unread'[Main])
      BY <3>2, <3>3 DEF New
    <3>5. ~(Len(unread'[Main]) < Len(unread'[Main]))
      BY <1>1
    <3> QED
      BY <3>1, <3>4, <3>5
  <2> QED
    BY <1>1, <1>2, <2>1, <2>2
<1>4. AtWork' = AtWork
  BY <1>1 DEF AtWork
<1>5. published' >= published
  BY <1>1
<1>6. \A q : Active(q) => Active(q)'
  BY <1>1, <1>4, <1>5 DEF Active
<1>7. ASSUME NEW q \in Queues, stands[q] < chunk[q],
             \A i \in DOMAIN unread[q] : stands[q] < unread[q][i].chunk
      PROVE  stands[q] < chunk'[q] /\ \A i \in DOMAIN unread'[q] : stands[q] < unread'[q][i].chunk
  <2>1. stands[q] < chunk'[q]
    BY <1>2, <1>7
  <2>2. ASSUME NEW i \in DOMAIN unread'[q] PROVE stands[q] < unread'[q][i].chunk
    <3>1. CASE i <= Len(unread[q])
      BY <1>2, <1>7, <3>1
    <3>2. CASE i > Len(unread[q])
      <4>1. unread'[q][i].chunk \in {chunk[q], chunk'[q]}
        BY <1>2, <3>2 DEF New
      <4> QED
        BY <1>7, <2>1, <4>1
    <3> QED
      BY <1>2, <3>1, <3>2
  <2> QED
    BY <2>1, <2>2
<1> QED
  BY <1>1, <1>3, <1>6, <1>7 DEF Behind

LEMMA ReadingBehind ==
  ASSUME TypeOK, Ordered, Fitting, Behind, NEW q \in Queues, Reads(q), Active(q),
         Chunks(q, unread[q][1]), chunk' = chunk,
         unread[q][1].kind = "switch" => Active(q)',
         published' = (IF q = Main THEN published - 1 ELSE published)
  PROVE  Behind'
<1> DEFINE m == unread[q][1]
<1>0. /\ m \in Messages /\ 1 \in DOMAIN unread[q] /\ Fits(q, m)
      /\ m.chunk \in Nat /\ stands[q] \in Nat /\ stands[q] <= m.chunk
  <2>1. m \in Messages /\ 1 \in DOMAIN unread[q]
    BY Shrunk
  <2>2. Fits(q, m)
    BY <2>1 DEF Fitting
  <2> QED
    BY <2>1, <2>2, Typed, MessageFields, FrameAssumption DEF Fits
<1>1. stands' = [stands EXCEPT ![q] = m.chunk] /\ stands \in [Queues -> 1..MaxChunks]
  BY DEF Chunks, TypeOK
<1>2. stands'[q] = m.chunk /\ \A p \in Queues : p # q => stands'[p] = stands[p]
  BY <1>1
<1>3. stash \subseteq Queues \X (1..MaxChunks) /\ freed \subseteq Queues \X (1..MaxChunks)
  BY DEF TypeOK
<1>4. stash' \cup freed' \subseteq stash \cup freed \cup {<<q, m.chunk>>}
  BY DEF Chunks
<1>5. m.kind # "switch" => stash' \cup freed' \subseteq stash \cup freed
  BY DEF Chunks
<1>6. m.kind = "switch" => freed' = freed
  BY DEF Chunks
<1> HIDE DEF m
<1>7. ASSUME NEW e \in stash' \cup freed' PROVE e[2] <= stands'[e[1]]
  <2>1. CASE e = <<q, m.chunk>>
    BY <1>0, <1>2, <2>1
  <2>2. CASE e \in stash \cup freed
    <3>1. e[2] <= stands[e[1]] /\ e[1] \in Queues /\ e[2] \in 1..MaxChunks
      BY <1>3, <2>2 DEF Behind
    <3>2. CASE e[1] = q
      BY <1>0, <1>2, <3>1, <3>2, FrameAssumption
    <3>3. CASE e[1] # q
      BY <1>2, <3>1, <3>3
    <3> QED
      BY <3>2, <3>3
  <2> QED
    BY <1>4, <2>1, <2>2
<1>8. ASSUME <<q, m.chunk>> \in stash \cup freed
      PROVE  m.chunk = stands[q] /\ FALSE
  <2>1. m.chunk <= stands[q]
    <3>1. \A e \in stash \cup freed : e[2] <= stands[e[1]]
      BY DEF Behind
    <3> QED
      BY <1>8, <3>1
  <2>2. m.chunk = stands[q]
    BY <1>0, <2>1
  <2>3. stands[q] < m.chunk
    BY <1>0, <1>8, <2>2 DEF Behind, m
  <2> QED
    BY <1>0, <2>2, <2>3
<1>9. ASSUME NEW p \in Queues, <<p, stands'[p]>> \in stash' \cup freed'
      PROVE  /\ <<p, stands'[p]>> \notin freed' /\ Active(p)'
             /\ stands'[p] < chunk'[p]
             /\ \A i \in DOMAIN unread'[p] : stands'[p] < unread'[p][i].chunk
  <2>1. p = q
    <3>1. SUFFICES ASSUME p # q PROVE FALSE
      OBVIOUS
    <3>2. <<p, stands[p]>> \in stash \cup freed
      BY <1>2, <1>4, <1>9, <3>1
    <3>3. Active(p)
      BY <3>2 DEF Behind
    <3> QED
      BY <3>1, <3>3, OneIsActive
  <2>2. m.kind = "switch"
    BY <1>2, <1>5, <1>8, <1>9, <2>1
  <2>3. <<q, m.chunk>> \notin freed'
    BY <1>6, <1>8, <2>2
  <2>4. m.chunk < chunk[q]
    BY <1>0, <2>2 DEF Fits
  <2>5. ASSUME NEW i \in DOMAIN unread'[q] PROVE m.chunk < unread'[q][i].chunk
    <3>1. i + 1 \in DOMAIN unread[q] /\ unread'[q][i] = unread[q][i + 1] /\ 1 < i + 1
      <4>1. DOMAIN unread'[q] = 1..Len(unread[q]) - 1 /\ Len(unread[q]) \in Nat
        BY Shrunk
      <4>2. i \in Nat /\ i >= 1
        BY <4>1
      <4> QED
        BY <4>2, Shrunk
    <3>2. Precedes(m, unread[q][i + 1])
      BY <1>0, <3>1 DEF Ordered, m
    <3> QED
      BY <2>2, <3>1, <3>2 DEF Precedes
  <2> QED
    BY <1>2, <2>1, <2>2, <2>3, <2>4, <2>5 DEF m
<1>10. ASSUME NEW i \in {published', Len(unread'[Main])}, i > 0
       PROVE  unread'[Main][i].kind # "switch"
  <2>1. \A j \in {published, Len(unread[Main])} : j > 0 => unread[Main][j].kind # "switch"
    BY DEF Behind
  <2>2. CASE q # Main
    BY <1>10, <2>1, <2>2, Shrunk, Typed
  <2>3. CASE q = Main
    <3>1. /\ published' = published - 1 /\ Len(unread'[Main]) = Len(unread[Main]) - 1
          /\ published \in 0..Len(unread[Main]) /\ Len(unread[Main]) \in Nat
          /\ DOMAIN unread'[Main] = 1..Len(unread[Main]) - 1
      BY <2>3, Shrunk DEF TypeOK
    <3>2. i + 1 \in {published, Len(unread[Main])} /\ i + 1 > 0 /\ i \in DOMAIN unread'[Main]
      BY <1>10, <3>1
    <3>3. unread'[Main][i] = unread[Main][i + 1]
      BY <2>3, <3>2, Shrunk
    <3> QED
      BY <2>1, <3>2, <3>3
  <2> QED
    BY <2>2, <2>3
<1> QED
  BY <1>7, <1>9, <1>10 DEF Behind

LEMMA BehindStep ==
  ASSUME TypeOK, Ordered, Fitting, Alternating, Behind, [Next]_vars
  PROVE  Behind'
<1>1. ASSUME NEW p \in Queues, Update(p) PROVE Behind'
  BY <1>1, UpdateWrites, WritingBehind DEF Update, Device
<1>2. CASE Resize
  BY <1>2, ResizeWrites, WritingBehind DEF Resize, Device
<1>3. CASE Flush
  BY <1>3, FlushWrites, WritingBehind DEF Flush, Device
<1>4. CASE Present
  BY <1>4, PresentWrites, WritingBehind DEF Present
<1>5. CASE Kick
  <2>1. /\ UNCHANGED <<unread, chunk, stands, stash, freed, flushing>>
        /\ published' = Len(unread[Main]) /\ published < Len(unread[Main])
    BY <1>5 DEF Kick
  <2>2. published \in Nat /\ Len(unread[Main]) \in Nat
    BY Typed DEF TypeOK
  <2>3. \A q : Active(q) => Active(q)'
    BY <2>1, <2>2 DEF Active, AtWork
  <2> QED
    BY <2>1, <2>3 DEF Behind
<1>6. CASE NextFrame
  <2>1. UNCHANGED <<unread, published, chunk, stands, stash, freed, flushing>>
    BY <1>6 DEF NextFrame, Device
  <2> QED
    BY <2>1 DEF Behind, Active, AtWork
<1>7. CASE ReadMain
  <2> DEFINE m == unread[Main][1]
  <2>1. Reads(Main) /\ Main \in Queues /\ Head(unread[Main]) = m
    BY <1>7, MainIsRead
  <2>2. /\ Chunks(Main, m) /\ chunk' = chunk /\ published' = published - 1
        /\ flushing = {} /\ published > 0
        /\ m.kind = "switch" => flushing' = {}
    BY <1>7, <2>1 DEF ReadMain
  <2>3. Active(Main)
    BY <2>2 DEF Active
  <2>4. m.kind = "switch" => Active(Main)'
    <3>1. SUFFICES ASSUME m.kind = "switch" PROVE Active(Main)'
      OBVIOUS
    <3>2. published # 1
      BY <3>1 DEF Behind
    <3>3. published \in Nat
      BY DEF TypeOK
    <3> QED
      BY <2>2, <3>1, <3>2, <3>3 DEF Active
  <2> QED
    BY <2>1, <2>2, <2>3, <2>4, ReadingBehind
<1>8. ASSUME NEW c \in 1..Cmds, ReadCmd(c) PROVE Behind'
  <2> DEFINE m == unread[c][1]
  <2>1. Reads(c) /\ c \in Queues /\ Head(unread[c]) = m /\ c # Main /\ c \in AtWork
    BY <1>8, CmdIsRead
  <2>2. /\ Chunks(c, m) /\ chunk' = chunk /\ published' = published
        /\ m.kind = "switch" => flushing' = flushing
    BY <1>8, <2>1 DEF ReadCmd
  <2>3. Active(c)
    BY <2>1 DEF Active
  <2>4. m.kind = "switch" => Active(c)'
    BY <2>1, <2>2 DEF Active, AtWork
  <2> QED
    BY <2>1, <2>2, <2>3, <2>4, ReadingBehind
<1>9. CASE UNCHANGED vars
  BY <1>9 DEF vars, Behind, Active, AtWork
<1> QED
  BY <1>1, <1>2, <1>3, <1>4, <1>5, <1>6, <1>7, <1>8, <1>9 DEF Next
-----------------------------------------------------------------------------
(* Staging memory that a resize gives up                                   *)

\* What was recorded in a command buffer in a frame whose commands are written
\* has its flush ahead, or is being read.
LEMMA FlushIsAhead ==
  ASSUME TypeOK, Alternating, NEW c \in 1..Cmds, NEW f \in Nat, f < Given,
         NEW k \in DOMAIN unread[c], unread[c][k].frame = f
  PROVE  (c \in flushing /\ f = shown) \/ In(Main, "flush", f)
<1>1. PICK r \in Nat : Alternates(r)
  BY DEF Alternating
<1>2. shown \in Nat /\ f >= From(c, r)
  BY <1>1 DEF Alternates, TypeOK
<1>3. CASE r <= f
  BY <1>1, <1>3 DEF Alternates
<1>4. CASE ~(r <= f)
  <2>1. c \in flushing /\ shown <= f
    BY <1>2, <1>4 DEF From
  <2>2. r = shown + 1
    BY <1>1, <2>1 DEF Alternates
  <2> QED
    BY <1>2, <1>4, <2>1, <2>2
<1> QED
  BY <1>3, <1>4

LEMMA WritingGenerations ==
  ASSUME TypeOK, Fitting, Alternating, Generations, NEW B, Writing(B),
         gen' \in Nat, gen' >= gen, late => late',
         (\E j \in 1..Len(B[Main]) : B[Main][j] = "resize") =>
           \A c \in 1..Cmds :
             /\ \A j \in 1..Len(B[c]) : B[c][j] # "update"
             /\ ~late' => \A k \in DOMAIN unread[c] :
                            unread[c][k].kind = "update" => unread[c][k].frame < Given
  PROVE  Generations'
<1>1. Main \in Queues /\ 1..Cmds \subseteq Queues /\ UNCHANGED <<gone, shown, flushing>>
      /\ gone \in Nat /\ gen \in Nat /\ gone < gen
  BY Typed DEF Writing, TypeOK, Generations
<1>2. ASSUME NEW q \in Queues
      PROVE  /\ DOMAIN unread'[q] = 1..Len(unread'[q]) /\ DOMAIN unread[q] = 1..Len(unread[q])
             /\ Len(unread[q]) \in Nat /\ Len(unread'[q]) \in Nat
             /\ \A h \in 1..Len(unread[q]) : unread'[q][h] = unread[q][h] /\ h \in DOMAIN unread'[q]
             /\ \A h \in 1..Len(unread'[q]) : h > Len(unread[q]) => New(q, B[q], h, unread'[q][h])
  <2>1. Added(q, B[q]) /\ B[q] \in Batches
    BY DEF Writing, Suits
  <2>2. Len(B[q]) \in Nat
    BY <2>1, BatchKinds
  <2>3. /\ Len(unread[q]) \in Nat /\ Len(unread'[q]) \in Nat
        /\ Len(unread[q]) <= Len(unread'[q]) - Len(B[q])
    BY <2>1, Grown
  <2>4. Len(unread[q]) <= Len(unread'[q])
    BY <2>2, <2>3, Smaller
  <2>5. \A h \in 1..Len(unread[q]) : h \in 1..Len(unread'[q])
    BY <2>3, <2>4
  <2> QED
    BY <2>1, <2>5, Grown, Typed
<1>3. ASSUME NEW i \in DOMAIN unread'[Main] PROVE unread'[Main][i].gen > gone
  <2>1. CASE i <= Len(unread[Main])
    BY <1>1, <1>2, <2>1 DEF Generations
  <2>2. CASE i > Len(unread[Main])
    <3>1. unread'[Main][i].gen = gen
      BY <1>1, <1>2, <2>2 DEF New
    <3> QED
      BY <1>1, <3>1
  <2> QED
    BY <1>1, <1>2, <2>1, <2>2
<1>4. ASSUME ~late', NEW c \in 1..Cmds, NEW k \in DOMAIN unread'[c],
             unread'[c][k].kind = "update"
      PROVE  /\ unread'[c][k].gen > gone
             /\ \A i \in DOMAIN unread'[Main] :
                  unread'[Main][i].kind = "resize" /\ unread'[Main][i].gen >= unread'[c][k].gen
                    => Covered(c, unread[c][k], i)'
  <2>0. ~late /\ c \in Queues
    BY <1>1, <1>4
  <2>1. CASE k <= Len(unread[c])
    <3>1. k \in DOMAIN unread[c] /\ unread'[c][k] = unread[c][k]
      BY <1>2, <2>0, <2>1
    <3>2. PICK m : m = unread[c][k]
      OBVIOUS
    <3>3. /\ m.kind = "update" /\ m.gen > gone
          /\ \A i \in DOMAIN unread[Main] :
               unread[Main][i].kind = "resize" /\ unread[Main][i].gen >= m.gen => Covered(c, m, i)
      BY <1>4, <2>0, <3>1, <3>2 DEF Generations
    <3>4. ASSUME NEW i \in DOMAIN unread'[Main],
                 unread'[Main][i].kind = "resize", unread'[Main][i].gen >= m.gen
          PROVE  Covered(c, m, i)'
      <4>1. CASE i <= Len(unread[Main])
        <5>1. Covered(c, m, i)
          BY <1>1, <1>2, <3>3, <3>4, <4>1
        <5>2. i \in Nat /\ \A j \in 1..i - 1 : unread'[Main][j] = unread[Main][j]
          BY <1>1, <1>2, <4>1
        <5> QED
          BY <1>1, <5>1, <5>2 DEF Covered
      <4>2. CASE i > Len(unread[Main])
        <5>1. New(Main, B[Main], i, unread'[Main][i])
          BY <1>1, <1>2, <4>2
        <5>2. \E j \in 1..Len(B[Main]) : B[Main][j] = "resize"
          BY <3>4, <5>1 DEF New
        <5>3. m.frame < Given
          BY <1>4, <3>1, <3>2, <3>3, <5>2
        <5>4. m.frame \in Nat
          BY <2>0, <3>1, <3>2, Typed, MessageFields
        <5>5. (c \in flushing /\ m.frame = shown) \/ In(Main, "flush", m.frame)
          BY <3>1, <3>2, <5>3, <5>4, FlushIsAhead
        <5>6. CASE In(Main, "flush", m.frame)
          <6>1. PICK j \in DOMAIN unread[Main] :
                  unread[Main][j].kind = "flush" /\ unread[Main][j].frame = m.frame
            BY <5>6 DEF In
          <6>2. j \in 1..i - 1 /\ unread'[Main][j] = unread[Main][j]
            BY SMTT(20), <1>1, <1>2, <4>2
          <6> QED
            BY <6>1, <6>2 DEF Covered
        <5> QED
          BY <1>1, <5>5, <5>6 DEF Covered
      <4> QED
        BY <1>1, <1>2, <4>1, <4>2
    <3> QED
      BY <1>1, <3>1, <3>2, <3>3, <3>4 DEF Covered
  <2>2. CASE k > Len(unread[c])
    <3>1. New(c, B[c], k, unread'[c][k])
      BY <1>2, <2>0, <2>2
    <3>2. unread'[c][k].gen = gen /\ \E j \in 1..Len(B[c]) : B[c][j] = "update"
      BY <1>4, <3>1 DEF New
    <3>3. ~ \E j \in 1..Len(B[Main]) : B[Main][j] = "resize"
      BY <3>2
    <3>4. ASSUME NEW i \in DOMAIN unread'[Main], unread'[Main][i].kind = "resize"
          PROVE  ~(unread'[Main][i].gen >= gen)
      <4>1. ~(i > Len(unread[Main]))
        <5>1. SUFFICES ASSUME i > Len(unread[Main]) PROVE FALSE
          OBVIOUS
        <5>2. New(Main, B[Main], i, unread'[Main][i])
          BY <1>1, <1>2, <5>1
        <5> QED
          BY <3>3, <3>4, <5>2 DEF New
      <4>2. i \in DOMAIN unread[Main] /\ unread'[Main][i] = unread[Main][i]
        <5>1. i \in 1..Len(unread'[Main]) /\ Len(unread[Main]) \in Nat
              /\ Len(unread'[Main]) \in Nat /\ DOMAIN unread[Main] = 1..Len(unread[Main])
          BY <1>1, <1>2, <3>4
        <5>2. i \in 1..Len(unread[Main])
          BY <4>1, <5>1
        <5> QED
          BY <1>1, <1>2, <5>1, <5>2
      <4>3. unread[Main][i].gen < gen /\ unread[Main][i].gen \in Nat
        BY <1>1, <3>4, <4>2, Typed, MessageFields DEF Fitting, Fits
      <4> QED
        BY <1>1, <4>2, <4>3
    <3> QED
      BY <1>1, <3>2, <3>4
  <2> QED
    BY <1>2, <2>0, <2>1, <2>2
<1> QED
  BY <1>1, <1>3, <1>4 DEF Generations, Covered

LEMMA MainGenerations ==
  ASSUME TypeOK, Ordered, Fitting, Alternating, Generations, ReadMain
  PROVE  Generations'
<1> DEFINE m == unread[Main][1]
<1>0. Reads(Main) /\ Main \in Queues /\ Head(unread[Main]) = m /\ unread[Main] # << >>
      /\ 1 \in DOMAIN unread[Main] /\ m \in Messages
  <2>1. Reads(Main) /\ Main \in Queues /\ Head(unread[Main]) = m /\ unread[Main] # << >>
    BY MainIsRead DEF Reads
  <2> QED
    BY <2>1, Shrunk
<1>1. /\ flushing = {} /\ flushing' = IF m.kind = "flush" THEN 1..Cmds ELSE {}
      /\ shown' = IF m.kind = "present" THEN shown + 1 ELSE shown
      /\ gone' = IF m.kind = "resize" THEN m.gen ELSE gone
      /\ gen' = gen /\ late' = late
  BY <1>0 DEF ReadMain
<1>2. PICK r \in Nat : Alternates(r)
  BY DEF Alternating
<1>3. m.kind = "flush" => m.frame = shown
  BY <1>0, <1>1, <1>2, FirstOfMain
<1>4. gone' < gen'
  BY <1>0, <1>1 DEF Generations, Fitting, Fits
<1>5. ASSUME NEW i \in DOMAIN unread'[Main]
      PROVE  /\ i + 1 \in DOMAIN unread[Main] /\ unread'[Main][i] = unread[Main][i + 1]
             /\ i \in Nat /\ unread'[Main][i].gen > gone'
  <2>1. DOMAIN unread'[Main] = 1..Len(unread[Main]) - 1 /\ Len(unread[Main]) \in Nat
    BY <1>0, Shrunk
  <2>2. i \in Nat /\ i >= 1
    BY <2>1
  <2>3. i + 1 \in DOMAIN unread[Main] /\ unread'[Main][i] = unread[Main][i + 1] /\ 1 < i + 1
    BY <1>0, <2>2, Shrunk
  <2>4. Precedes(m, unread[Main][i + 1])
    BY <1>0, <2>3 DEF Ordered
  <2>5. m.gen \in Nat /\ unread[Main][i + 1].gen \in Nat
    BY <1>0, <2>3, Typed, MessageFields
  <2>6. m.kind = "resize" => unread[Main][i + 1].gen > m.gen
    BY <2>4, <2>5 DEF Precedes
  <2>7. unread[Main][i + 1].gen > gone
    BY <2>3 DEF Generations
  <2> QED
    BY <1>1, <2>2, <2>3, <2>6, <2>7
<1>6. ASSUME ~late', NEW c \in 1..Cmds, NEW k \in DOMAIN unread'[c], unread'[c][k].kind = "update"
      PROVE  /\ unread'[c][k].gen > gone'
             /\ \A i \in DOMAIN unread'[Main] :
                  unread'[Main][i].kind = "resize" /\ unread'[Main][i].gen >= unread'[c][k].gen
                    => Covered(c, unread[c][k], i)'
  <2>1. unread'[c] = unread[c] /\ c \in Queues
    BY <1>0, Shrunk, Typed
  <2>2. PICK u : u = unread[c][k]
    OBVIOUS
  <2>3. /\ u.kind = "update" /\ u.gen > gone
        /\ \A i \in DOMAIN unread[Main] :
             unread[Main][i].kind = "resize" /\ unread[Main][i].gen >= u.gen => Covered(c, u, i)
    BY <1>1, <1>6, <2>1, <2>2 DEF Generations
  <2>4. u.gen \in Nat /\ m.gen \in Nat
    BY <1>0, <1>6, <2>1, <2>2, Typed, MessageFields
  <2>5. u.gen > gone'
    <3>1. ~Covered(c, u, 1)
      BY <1>1 DEF Covered
    <3>2. m.kind = "resize" => ~(m.gen >= u.gen)
      BY <1>0, <2>3, <3>1
    <3> QED
      BY <1>1, <2>3, <2>4, <3>2
  <2>6. ASSUME NEW i \in DOMAIN unread'[Main],
               unread'[Main][i].kind = "resize", unread'[Main][i].gen >= u.gen
        PROVE  Covered(c, u, i)'
    <3>1. i + 1 \in DOMAIN unread[Main] /\ unread'[Main][i] = unread[Main][i + 1] /\ i \in Nat
      BY <1>5
    <3>2. Covered(c, u, i + 1)
      BY <2>3, <2>6, <3>1
    <3>3. PICK j \in 1..(i + 1) - 1 : unread[Main][j].kind = "flush" /\ unread[Main][j].frame = u.frame
      BY <1>1, <3>2 DEF Covered
    <3>4. CASE j = 1
      <4>1. c \in flushing' /\ u.frame = shown'
        BY <1>1, <1>3, <3>3, <3>4
      <4> QED
        BY <4>1 DEF Covered
    <3>5. CASE j # 1
      <4>1. j \in DOMAIN unread[Main] /\ j - 1 \in 1..i - 1
        <5>1. DOMAIN unread[Main] = 1..Len(unread[Main]) /\ Len(unread[Main]) \in Nat
          BY <1>0, Typed
        <5> QED
          BY <3>1, <3>5, <5>1
      <4>2. unread'[Main][j - 1] = unread[Main][j]
        BY <1>0, <3>5, <4>1, Shrunk
      <4> QED
        BY <3>3, <4>1, <4>2 DEF Covered
    <3> QED
      BY <3>4, <3>5
  <2>7. unread'[c][k] = u
    BY <2>1, <2>2
  <2> QED
    BY <2>5, <2>6, <2>7 DEF Covered
<1> QED
  BY <1>4, <1>5, <1>6 DEF Generations, Covered

LEMMA CmdGenerations ==
  ASSUME TypeOK, Ordered, Alternating, Generations, NEW c \in 1..Cmds, ReadCmd(c)
  PROVE  Generations'
<1> DEFINE m == unread[c][1]
<1>0. /\ Reads(c) /\ c \in Queues /\ c # Main /\ Main \in Queues
      /\ Head(unread[c]) = m /\ m.frame = shown
  BY CmdIsRead, Typed
<1>1. /\ flushing' = IF m.kind = "finish" THEN flushing \ {c} ELSE flushing
      /\ UNCHANGED <<shown, gone, gen, late>> /\ shown \in Nat
  BY <1>0 DEF ReadCmd, TypeOK
<1>2. unread'[Main] = unread[Main]
  BY <1>0, Shrunk
<1>3. ASSUME ~late', NEW d \in 1..Cmds, NEW k \in DOMAIN unread'[d], unread'[d][k].kind = "update"
      PROVE  /\ unread'[d][k].gen > gone
             /\ \A i \in DOMAIN unread'[Main] :
                  unread'[Main][i].kind = "resize" /\ unread'[Main][i].gen >= unread'[d][k].gen
                    => Covered(d, unread[d][k], i)'
  <2>1. PICK h \in DOMAIN unread[d] : /\ unread'[d][k] = unread[d][h]
                                      /\ d = c /\ m.kind = "finish" => unread[d][h].frame > shown
    <3>1. CASE d = c
      <4>1. k + 1 \in DOMAIN unread[c] /\ unread'[c][k] = unread[c][k + 1] /\ 1 < k + 1
            /\ 1 \in DOMAIN unread[c]
        <5>1. DOMAIN unread'[c] = 1..Len(unread[c]) - 1 /\ Len(unread[c]) \in Nat
          BY <1>0, Shrunk
        <5>2. k \in Nat /\ k >= 1
          BY <3>1, <5>1
        <5> QED
          BY <1>0, <3>1, <5>2, Shrunk
      <4>2. Precedes(m, unread[c][k + 1])
        BY <1>0, <4>1 DEF Ordered
      <4>3. unread[c][k + 1].frame \in Nat
        BY <1>0, <4>1, Typed, MessageFields
      <4>4. m.kind = "finish" => unread[c][k + 1].frame > shown
        BY <1>0, <1>1, <4>2, <4>3 DEF Precedes
      <4> QED
        BY <3>1, <4>1, <4>4
    <3>2. CASE d # c
      <4>1. unread'[d] = unread[d]
        BY <1>0, <3>2, Shrunk, Typed
      <4> QED
        BY <3>2, <4>1
    <3> QED
      BY <3>1, <3>2
  <2>2. PICK u : u = unread[d][h]
    OBVIOUS
  <2>3. /\ u.gen > gone
        /\ \A i \in DOMAIN unread[Main] :
             unread[Main][i].kind = "resize" /\ unread[Main][i].gen >= u.gen => Covered(d, u, i)
    BY <1>1, <1>3, <2>1, <2>2 DEF Generations
  <2>4. ASSUME NEW i, Covered(d, u, i) PROVE Covered(d, u, i)'
    <3>1. CASE d \in flushing /\ u.frame = shown
      <4>1. ~(d = c /\ m.kind = "finish")
        BY <1>1, <2>1, <2>2, <3>1
      <4>2. d \in flushing'
        BY <1>1, <3>1, <4>1
      <4> QED
        BY <1>1, <3>1, <4>2 DEF Covered
    <3>2. CASE \E j \in 1..i - 1 : unread[Main][j].kind = "flush" /\ unread[Main][j].frame = u.frame
      BY <1>2, <3>2 DEF Covered
    <3> QED
      BY <2>4, <3>1, <3>2 DEF Covered
  <2>5. unread'[d][k] = u
    BY <2>1, <2>2
  <2> QED
    BY <1>2, <2>3, <2>4, <2>5 DEF Covered
<1> QED
  BY <1>1, <1>2, <1>3 DEF Generations, Covered

LEMMA GenerationsStep ==
  ASSUME TypeOK, Ordered, Fitting, Alternating, Generations, [Next]_vars
  PROVE  Generations'
<1>0. Main \in Queues /\ gen \in Nat /\ frame \in Nat
  BY Typed DEF TypeOK
<1>1. ASSUME NEW p \in Queues, Update(p) PROVE Generations'
  <2>1. Writing(UpdateOf(p)) /\ gen' = gen /\ late' = late
    BY <1>1, UpdateWrites DEF Update
  <2>2. \A j \in 1..Len(UpdateOf(p)[Main]) : UpdateOf(p)[Main][j] # "resize"
    BY <1>0, KindsWritten
  <2> QED
    BY <1>0, <2>1, <2>2, WritingGenerations
<1>2. CASE Resize
  <2>1. Writing(ResizeOf) /\ gen' = gen + 1
    BY <1>2, ResizeWrites DEF Resize
  <2>2. \A c \in 1..Cmds : \A j \in 1..Len(ResizeOf[c]) : ResizeOf[c][j] # "update"
    BY KindsWritten, Typed
  <2>3. /\ late => late'
        /\ ~late' => ~(game = "record" /\ \E c \in 1..Cmds :
                          \E m \in Range(unread[c]) : m.kind = "update" /\ m.frame = frame)
    BY <1>2 DEF Resize
  <2>4. ASSUME ~late', NEW c \in 1..Cmds, NEW k \in DOMAIN unread[c], unread[c][k].kind = "update"
        PROVE  unread[c][k].frame < Given
    <3>1. unread[c][k] \in Range(unread[c])
      BY DEF Range
    <3>2. game = "record" => unread[c][k].frame # frame
      BY <2>3, <2>4, <3>1
    <3>3. unread[c][k].frame \in Nat /\ unread[c][k].frame <= frame
      BY Typed, MessageFields DEF Fitting, Fits
    <3>4. game = "record" \/ Given = frame + 1
      BY DEF Given
    <3>5. game = "record" => Given = frame
      BY <1>0 DEF Given
    <3> QED
      BY <1>0, <3>2, <3>3, <3>4, <3>5
  <2>5. gen' \in Nat /\ gen' >= gen
    BY <1>0, <2>1
  <2> QED
    BY <2>1, <2>2, <2>3, <2>4, <2>5, WritingGenerations
<1>3. CASE Flush
  <2>1. Writing(FlushOf) /\ gen' = gen /\ late' = late
    BY <1>3, FlushWrites DEF Flush
  <2>2. \A j \in 1..Len(FlushOf[Main]) : FlushOf[Main][j] # "resize"
    BY <1>0, KindsWritten
  <2> QED
    BY <1>0, <2>1, <2>2, WritingGenerations
<1>4. CASE Present
  <2>1. Writing(PresentOf) /\ gen' = gen /\ late' = late
    BY <1>4, PresentWrites DEF Present
  <2>2. \A j \in 1..Len(PresentOf[Main]) : PresentOf[Main][j] # "resize"
    BY <1>0, KindsWritten
  <2> QED
    BY <1>0, <2>1, <2>2, WritingGenerations
<1>5. CASE Kick
  BY <1>5 DEF Kick, Generations, Covered
<1>6. CASE NextFrame
  BY <1>6 DEF NextFrame, Device, Generations, Covered
<1>7. CASE ReadMain
  BY <1>7, MainGenerations
<1>8. ASSUME NEW c \in 1..Cmds, ReadCmd(c) PROVE Generations'
  BY <1>8, CmdGenerations
<1>9. CASE UNCHANGED vars
  BY <1>9 DEF vars, Generations, Covered
<1> QED
  BY <1>1, <1>2, <1>3, <1>4, <1>5, <1>6, <1>7, <1>8, <1>9 DEF Next
-----------------------------------------------------------------------------
(* The inductive invariant, and what follows from it                       *)

LEMMA InitHolds == Init => IInv
<1> SUFFICES ASSUME Init PROVE IInv
  OBVIOUS
<1>1. /\ Main \in Queues /\ \A q \in Queues : unread[q] = << >> /\ chunk[q] = 1 /\ stands[q] = 1
      /\ \A q \in Queues : DOMAIN unread[q] = {} /\ Len(unread[q]) = 0
  BY QueueKinds DEF Init
<1>2. TypeOK
  <2>1. unread \in [Queues -> Seq(Messages)]
    BY DEF Init
  <2>2. slots \in [0..Ahead -> Nat] /\ index \in 0..Ahead /\ sem \in Nat
    BY FrameAssumption DEF Init
  <2>3. published \in 0..Len(unread[Main])
    BY <1>1 DEF Init
  <2>4. chunk \in [Queues -> 1..MaxChunks] /\ stands \in [Queues -> 1..MaxChunks]
    BY FrameAssumption DEF Init
  <2>5. ops \in 0..MaxOps
    BY FrameAssumption DEF Init
  <2>6. /\ stash = {} /\ freed = {} /\ flushing = {}
        /\ gen = 1 /\ gone = 0 /\ frame = 0 /\ shown = 0 /\ late = FALSE /\ game = "record"
    BY Zenon DEF Init
  <2>7. /\ stash \subseteq Queues \X (1..MaxChunks) /\ freed \subseteq Queues \X (1..MaxChunks)
        /\ flushing \subseteq 1..Cmds
    BY <2>6
  <2> QED
    <3>1. gen \in Nat \ {0} /\ gone \in Nat /\ frame \in Nat /\ shown \in Nat
      BY <2>6
    <3>2. late \in BOOLEAN /\ game \in {"record", "flushed", "wait"}
      BY Zenon, <2>6
    <3> QED
      BY Zenon, <2>1, <2>2, <2>3, <2>4, <2>5, <2>7, <3>1, <3>2 DEF TypeOK
<1>3. Ordered
  BY <1>1 DEF Ordered
<1>4. Fitting
  BY <1>1 DEF Fitting
<1>5. Given = 0 /\ Presented = 0
  BY DEF Given, Presented, Init
<1>6. Alternating
  <2>1. \A q \in Queues : \A k : \A f : ~In(q, k, f)
    BY <1>1 DEF In
  <2>2. \A c \in 1..Cmds : c \in Queues
    BY QueueKinds
  <2>3. Alternates(0)
    <3>1. flushing = {} /\ shown = 0
      BY DEF Init
    <3>2. \A f \in Nat : ~(0 <= f /\ f < Given)
      BY <1>5
    <3>3. \A c \in 1..Cmds : From(c, 0) = 0
      BY <3>1 DEF From
    <3> QED
      BY <1>1, <1>5, <2>1, <2>2, <3>1, <3>2, <3>3 DEF Alternates
  <2>4. \A f \in Nat : ~(shown <= f /\ f < Presented)
    BY <1>5 DEF Init
  <2>5. shown <= Presented /\ sem = Ahead - (frame - shown)
    BY <1>5, FrameAssumption DEF Init
  <2> QED
    BY <1>1, <2>1, <2>3, <2>4, <2>5 DEF Alternating
<1>7. Placed
  BY <1>1 DEF Placed
<1>8. Behind
  <2>1. stash = {} /\ freed = {} /\ published = 0
    BY DEF Init
  <2> QED
    BY <1>1, <2>1 DEF Behind
<1>9. Generations
  <2>1. \A c \in 1..Cmds : DOMAIN unread[c] = {}
    BY <1>1, QueueKinds
  <2> QED
    BY <1>1, <2>1 DEF Generations, Init
<1> QED
  BY <1>2, <1>3, <1>4, <1>6, <1>7, <1>8, <1>9 DEF IInv, Parts

LEMMA StepHolds == IInv /\ [Next]_vars => IInv'
<1> SUFFICES ASSUME IInv, [Next]_vars PROVE IInv'
  OBVIOUS
<1>1. TypeOK /\ Ordered /\ Fitting /\ Alternating /\ Placed /\ Behind /\ Generations
  BY DEF IInv, Parts
<1>2. TypeOK'
  BY <1>1, TypeStep
<1>3. Ordered' /\ Fitting'
  BY <1>1, OrderStep
<1>4. Alternating'
  BY <1>1, AlternatingStep
<1>5. Placed'
  BY <1>1, PlacedStep
<1>6. Behind'
  BY <1>1, BehindStep
<1>7. Generations'
  BY <1>1, GenerationsStep
<1> QED
  BY <1>2, <1>3, <1>4, <1>5, <1>6, <1>7 DEF IInv, Parts

\* The invariant the theorems below follow from.
THEOREM Inductive == Spec => []IInv
<1>1. Init => IInv
  BY InitHolds
<1>2. IInv /\ [Next]_vars => IInv'
  BY StepHolds
<1> QED
  BY <1>1, <1>2, PTL DEF Spec

\* The frame semaphore keeps the game thread at most MAX_CPU_FRAME_AHEAD frames
\* ahead of the device thread, and what was recorded in a command buffer is
\* executed in its own frame: DeviceAgent::present waits for the signal that
\* the device thread gives with each frame it has presented.
THEOREM FramesKeepStep == Spec => []FramesAhead
<1>1. IInv => FramesAhead
  <2> SUFFICES ASSUME IInv PROVE FramesAhead
    OBVIOUS
  <2>1. TypeOK /\ Ordered /\ Alternating
    BY DEF IInv, Parts
  <2>2. /\ shown <= Presented /\ sem = Ahead - (frame - shown)
        /\ sem \in Nat /\ frame \in Nat /\ shown \in Nat /\ Ahead \in Nat
    BY <2>1, FrameAssumption DEF Alternating, TypeOK
  <2>3. frame - shown <= Ahead
    BY <2>2
  <2>4. \A c \in flushing : unread[c] # << >> /\ Head(unread[c]).frame = shown
    BY <2>1, Busy
  <2> QED
    BY <2>2, <2>3, <2>4 DEF FramesAhead, Presented
<1> QED
  BY <1>1, Inductive, PTL

\* No queue frees the chunk in which another queue's reader stands, though all
\* queues share one stash of used chunks (MessageQueue::recycleMemoryChunk,
\* freeChunksInFreeQueue): the command buffers are flushed one after the other,
\* and a batch of messages ends with the freeing, never with a switch.
THEOREM ChunksAreSafe == Spec => []ReaderSafe
<1>1. IInv => ReaderSafe
  BY DEF IInv, Parts, Behind, ReaderSafe
<1> QED
  BY <1>1, Inductive, PTL

\* The staging memory an update points to still holds the update's data when
\* the device thread reads it, in whichever queue the update is
\* (BufferAgent::update takes the slot of the frame, getStagingAddress), and a
\* resize has not freed it, unless the buffer was resized between the update
\* and its flush.
THEOREM StagingIsIntact == Spec => []StagedIntact
<1>1. IInv => StagedIntact
  <2> SUFFICES ASSUME IInv PROVE StagedIntact
    OBVIOUS
  <2>1. TypeOK /\ Placed /\ Generations
    BY DEF IInv, Parts
  <2>2. SUFFICES ASSUME NEW q \in Queues, NEW i \in DOMAIN unread[q], unread[q][i].kind = "update"
                 PROVE  /\ slots[unread[q][i].slot] = unread[q][i].frame
                        /\ late \/ unread[q][i].gen > gone
    BY DEF StagedIntact, Waits, Range
  <2>3. slots[unread[q][i].slot] = unread[q][i].frame
    BY <2>1, <2>2 DEF Placed
  <2>4. CASE q = Main
    BY <2>1, <2>2, <2>3, <2>4 DEF Generations
  <2>5. CASE q \in 1..Cmds
    BY <2>1, <2>2, <2>3, <2>5 DEF Generations
  <2> QED
    BY <2>1, <2>4, <2>5, Typed
<1> QED
  BY <1>1, Inductive, PTL
=============================================================================

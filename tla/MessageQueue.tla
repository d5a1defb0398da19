---------------------------- MODULE MessageQueue ----------------------------
(***************************************************************************)
(* The queue through which the game thread hands rendering commands to the *)
(* device thread (native/cocos/base/threading/MessageQueue.{h,cpp}), as    *)
(* gfx::DeviceAgent drives it: one producer, one consumer thread that is   *)
(* started and joined by setMultithreaded, messages linked in memory       *)
(* chunks that the consumer recycles when it leaves them.                  *)
(*                                                                         *)
(* An address is a pair <<chunk, offset>>.  Every message and every piece  *)
(* of submitted data takes one unit of its chunk.  Chunks are numbered in  *)
(* the order the writer requests them: a chunk the allocator hands out a   *)
(* second time gets a new number, and the old number stays in `freed'.     *)
(*                                                                         *)
(* The steps are those the other thread can observe: the atomic add that   *)
(* publishes, the lock-protected notify, each pull of the published count, *)
(* the step into the next message, its execution.                          *)
(***************************************************************************)
EXTENDS Naturals, Sequences, FiniteSets

CONSTANTS ChunkSize,    \* units in a memory chunk (MEMORY_CHUNK_SIZE)
          MaxMessages   \* bound: the producer writes no further operation once
                        \* this many messages were allocated

ASSUME ChunkAssumption == ChunkSize \in Nat /\ ChunkSize >= 3
ASSUME BoundAssumption == MaxMessages \in Nat

VARIABLES
  log,         \* every message allocated so far, in allocation order
  wchunk,      \* _writer.currentMemoryChunk
  offset,      \* _writer.offset
  pending,     \* _writer.pendingMessageCount
  written,     \* _writer.writtenMessageCount, the only shared counter
  pos,         \* index in log of _reader.lastMessage
  snap,        \* _reader.writtenMessageCountSnap
  newCount,    \* _reader.newMessageCount
  terminate,   \* _reader.terminateConsumerThread
  flushed,     \* _reader.flushingFinished
  immediate,   \* _immediateMode
  attached,    \* _workerAttached
  locked,      \* the consumer holds _mutex
  recycled,    \* chunks in the allocator's _chunkFreeQueue
  freed,       \* chunks given back to the pool, or to malloc
  event,       \* the semaphore kickAndWait / terminateConsumerThread wait on
  ppc,         \* where the producer is
  cpc,         \* where the consumer thread is
  done         \* history: indices of the executed messages

wvars == <<log, wchunk, offset, pending, written>>
rvars == <<pos, snap, newCount, terminate, flushed>>
mvars == <<immediate, attached>>
chunks == <<recycled, freed>>
vars == <<wvars, rvars, mvars, locked, chunks, event, ppc, cpc, done>>

Kind == {"Dummy", "Switch", "Work", "Wait", "Finish", "Free", "Terminate"}
Address == Nat \X Nat
Message == [kind : Kind, at : Address, next : Address]

ProducerPC == {"idle", "notify", "notifyWait", "notifyTerm", "notifyDestroy",
               "await", "awaitTerm", "awaitDestroy", "gone"}
ConsumerPC == {"none", "flush", "locked", "waiting", "woken", "exec", "exited"}

-----------------------------------------------------------------------------
(* Writing *)

Msg(kind, chunk, off) ==
  [kind |-> kind, at |-> <<chunk, off>>, next |-> <<chunk, off + 1>>]

SwitchMsg == [kind |-> "Switch", at |-> <<wchunk, offset>>, next |-> <<wchunk + 1, 0>>]

\* One more unit fits, and the switch message still does after it.
Fits == offset + 1 + 1 <= ChunkSize

\* allocate<Message>: room in this chunk, or a switch message here and a dummy
\* head in a new chunk first.
Allocate(kind) ==
  \/ /\ Fits
     /\ log' = Append(log, Msg(kind, wchunk, offset))
     /\ offset' = offset + 1
     /\ wchunk' = wchunk
  \/ /\ ~Fits
     /\ log' = Append(Append(Append(log, SwitchMsg),
                             Msg("Dummy", wchunk + 1, 0)),
                      Msg(kind, wchunk + 1, 1))
     /\ offset' = 2
     /\ wchunk' = wchunk + 1

Added == Len(log') - Len(log)

\* Mutant: submitted data does not move the link of the message before it.
LinkKept == log

\* Submitted data moves the link of the last message behind itself.
LinkMoved == [log EXCEPT ![Len(log)].next = <<wchunk, offset + 1>>]

\* The head of a new chunk with submitted data behind it.
HeadAndData == [Msg("Dummy", wchunk + 1, 0) EXCEPT !.next = <<wchunk + 1, 2>>]

CanWrite == ppc = "idle" /\ Len(log) < MaxMessages

\* ENQUEUE_MESSAGE without a kick: nothing is published yet.
Enqueue ==
  /\ CanWrite /\ ~immediate
  /\ Allocate("Work")
  /\ pending' = pending + Added
  /\ UNCHANGED <<written, rvars, mvars, locked, chunks, event, ppc, cpc, done>>

\* allocate<T> for submitted data, with the chunk switch it may need
PlaceData ==
  \/ /\ Fits
     /\ log' = LinkMoved
     /\ offset' = offset + 1
     /\ wchunk' = wchunk
  \/ /\ ~Fits
     /\ log' = Append(Append(log, SwitchMsg), HeadAndData)
     /\ offset' = 2
     /\ wchunk' = wchunk + 1

AllocateData ==
  /\ CanWrite /\ ~immediate
  /\ PlaceData
  /\ pending' = pending + Added
  /\ UNCHANGED <<written, rvars, mvars, locked, chunks, event, ppc, cpc, done>>

\* The same in immediate mode: a chunk switch is pushed, pulled and executed at
\* once with the head behind it, and its destructor recycles the old chunk.
AllocateDataImmediate ==
  /\ CanWrite /\ immediate
  /\ PlaceData
  /\ \/ /\ wchunk' = wchunk
        /\ UNCHANGED <<pending, written, pos, snap, newCount, recycled, done>>
     \/ /\ wchunk' # wchunk
        /\ written' = written + pending + 2
        /\ pending' = 0
        /\ newCount' = newCount + (written' - snap) - 2
        /\ snap' = written'
        /\ pos' = pos + 2
        /\ done' = Append(Append(done, pos + 1), pos + 2)
        /\ recycled' = recycled \cup {wchunk}
  /\ UNCHANGED <<terminate, flushed, mvars, locked, freed, event, ppc, cpc>>

\* freeChunksInFreeQueue in immediate mode runs the message on the spot.
FreeImmediate ==
  /\ ppc = "idle" /\ immediate
  /\ freed' = freed \cup recycled
  /\ recycled' = {}
  /\ ppc' = "notify"
  /\ UNCHANGED <<wvars, rvars, mvars, locked, event, cpc, done>>

\* kickAndWait in immediate mode: the message signals before anyone waits.
KickAndWaitImmediate ==
  /\ ppc = "idle" /\ immediate
  /\ event' = 1
  /\ ppc' = "notifyWait"
  /\ UNCHANGED <<wvars, rvars, mvars, locked, chunks, cpc, done>>

\* ~MessageQueue recycles the chunk in use; terminateConsumerThread has nothing
\* to do in immediate mode.
DestroyImmediate ==
  /\ ppc = "idle" /\ immediate
  /\ recycled' = recycled \cup {wchunk}
  /\ ppc' = "gone"
  /\ UNCHANGED <<wvars, rvars, mvars, locked, freed, event, cpc, done>>

-----------------------------------------------------------------------------
(* Publishing: push adds the pending count, then the lock is taken to      *)
(* notify.  The operations that end with a message of their own write it,  *)
(* push and go on to notify.                                               *)

\* kick(): pushMessages
Push ==
  /\ ppc = "idle"
  /\ written' = written + pending
  /\ pending' = 0
  /\ ppc' = "notify"
  /\ UNCHANGED <<log, wchunk, offset, rvars, mvars, locked, chunks, event, cpc, done>>

WriteAndPush(kind, after) ==
  /\ CanWrite /\ ~immediate
  /\ Allocate(kind)
  /\ written' = written + pending + Added
  /\ pending' = 0
  /\ ppc' = after
  /\ UNCHANGED <<rvars, mvars, locked, chunks, cpc, done>>

FinishWriting == WriteAndPush("Finish", "notify") /\ UNCHANGED event

FreeChunksInFreeQueue == WriteAndPush("Free", "notify") /\ UNCHANGED event

\* Mutant: the semaphore of the waiting call starts at one.
KickAndWaitSignalled == WriteAndPush("Wait", "notifyWait") /\ event' = 1

KickAndWait == WriteAndPush("Wait", "notifyWait") /\ event' = 0

\* terminateConsumerThread, from setMultithreaded(false) or from doDestroy
TerminateConsumerThread ==
  /\ attached
  /\ \/ WriteAndPush("Terminate", "notifyTerm")
     \/ WriteAndPush("Terminate", "notifyDestroy")
  /\ event' = 0

AfterNotify ==
  [ notify |-> "idle", notifyWait |-> "await",
    notifyTerm |-> "awaitTerm", notifyDestroy |-> "awaitDestroy" ]

\* Mutant: notify_all without the lock.
NoMutex == TRUE

MutexFree == ~locked

\* kick(): lock the mutex and notify_all
Notify ==
  /\ ppc \in DOMAIN AfterNotify
  /\ MutexFree
  /\ ppc' = AfterNotify[ppc]
  /\ cpc' = IF cpc = "waiting" THEN "woken" ELSE cpc
  /\ UNCHANGED <<wvars, rvars, mvars, locked, chunks, event, done>>

\* Mutant: kickAndWait only kicks.
WaitReturnsEarly ==
  /\ ppc = "await"
  /\ event' = 0
  /\ ppc' = "idle"
  /\ UNCHANGED <<wvars, rvars, mvars, locked, chunks, cpc, done>>

\* kickAndWait(): event.wait() returns
WaitReturns ==
  /\ ppc = "await" /\ event > 0
  /\ event' = event - 1
  /\ ppc' = "idle"
  /\ UNCHANGED <<wvars, rvars, mvars, locked, chunks, cpc, done>>

\* terminateConsumerThread(): event.wait() and join() return; setMultithreaded
\* then switches to immediate mode, doDestroy deletes the queue, whose
\* destructor recycles the chunk in use.
Join ==
  /\ ppc \in {"awaitTerm", "awaitDestroy"}
  /\ event > 0 /\ cpc = "exited"
  /\ event' = event - 1
  /\ cpc' = "none"
  /\ \/ /\ ppc = "awaitTerm"
        /\ immediate' = TRUE
        /\ ppc' = "idle"
        /\ recycled' = recycled
     \/ /\ ppc = "awaitDestroy"
        /\ recycled' = recycled \cup {wchunk}
        /\ ppc' = "gone"
        /\ immediate' = immediate
  /\ UNCHANGED <<wvars, rvars, attached, locked, freed, done>>

\* setMultithreaded(true): leave immediate mode, runConsumerThread
RunConsumerThread ==
  /\ ppc = "idle" /\ immediate /\ ~attached
  /\ immediate' = FALSE
  /\ terminate' = FALSE
  /\ flushed' = FALSE
  /\ attached' = TRUE
  /\ cpc' = "flush"
  /\ UNCHANGED <<wvars, pos, snap, newCount, locked, chunks, event, ppc, done>>

-----------------------------------------------------------------------------
(* The consumer thread *)

PullMessages ==
  /\ newCount' = newCount + (written - snap)
  /\ snap' = written

HasNewMessage == newCount > 0 /\ ~flushed

\* readMessage(): nothing left, lock the mutex and pull
LockAndPull ==
  /\ cpc = "flush" /\ ~flushed /\ ~HasNewMessage
  /\ locked' = TRUE
  /\ PullMessages
  /\ cpc' = "locked"
  /\ UNCHANGED <<wvars, pos, terminate, flushed, mvars, chunks, event, ppc, done>>

\* the pull found messages: unlock
Unlock ==
  /\ cpc = "locked" /\ HasNewMessage
  /\ locked' = FALSE
  /\ cpc' = "flush"
  /\ UNCHANGED <<wvars, rvars, mvars, chunks, event, ppc, done>>

\* still empty: _condVar.wait releases the mutex and sleeps in one step
WaitForKick ==
  /\ cpc = "locked" /\ ~HasNewMessage
  /\ locked' = FALSE
  /\ cpc' = "waiting"
  /\ UNCHANGED <<wvars, rvars, mvars, chunks, event, ppc, done>>

SpuriousWakeup ==
  /\ cpc = "waiting"
  /\ cpc' = "woken"
  /\ UNCHANGED <<wvars, rvars, mvars, locked, chunks, event, ppc, done>>

\* wait() re-acquires the mutex; pull again, and the scope unlocks
PullAfterWakeup ==
  /\ cpc = "woken" /\ ~locked
  /\ PullMessages
  /\ cpc' = "flush"
  /\ UNCHANGED <<wvars, pos, terminate, flushed, mvars, locked, chunks, event, ppc, done>>

\* readMessage(): follow the link of the last message
ReadMessage ==
  /\ cpc = "flush" /\ HasNewMessage
  /\ \E i \in 1 .. Len(log) : log[i].at = log[pos].next /\ pos' = i
  /\ newCount' = newCount - 1
  /\ cpc' = "exec"
  /\ UNCHANGED <<wvars, snap, terminate, flushed, mvars, locked, chunks, event, ppc, done>>

\* Mutant: a chunk the reader leaves is freed at once instead of being stashed.
FreeAtOnce(chunk) == freed' = freed \cup {chunk} /\ recycled' = recycled

\* recycle(chunk, freeByUser = true)
Recycle(chunk) == recycled' = recycled \cup {chunk} /\ freed' = freed

\* Mutant: the message of kickAndWait does not signal.
SignalsAtTermination == {"Terminate"}

\* The messages that signal the semaphore of a waiting call
Signals == {"Wait", "Terminate"}

\* execute() and the destructor of the message just read
Execute ==
  /\ cpc = "exec"
  /\ LET kind == log[pos].kind IN
       /\ IF kind = "Switch" THEN PullMessages ELSE UNCHANGED <<newCount, snap>>
       /\ \/ kind = "Switch" /\ Recycle(log[pos].at[1])
          \/ kind = "Free" /\ recycled' = {} /\ freed' = freed \cup recycled
          \/ kind \notin {"Switch", "Free"} /\ UNCHANGED chunks
       /\ event' = IF kind \in Signals THEN event + 1 ELSE event
       /\ terminate' = (terminate \/ kind = "Terminate")
       /\ flushed' = (flushed \/ kind \in {"Finish", "Terminate"})
  /\ done' = Append(done, pos)
  /\ cpc' = "flush"
  /\ UNCHANGED <<wvars, pos, mvars, locked, ppc>>

\* flushMessages() returns; consumerThreadLoop goes round or ends
FlushReturns ==
  /\ cpc = "flush" /\ flushed
  /\ flushed' = FALSE
  /\ IF terminate THEN cpc' = "exited" /\ attached' = FALSE
                  ELSE cpc' = cpc /\ attached' = attached
  /\ UNCHANGED <<wvars, pos, snap, newCount, terminate, immediate, locked, chunks, event, ppc, done>>

-----------------------------------------------------------------------------
\* The constructor: the first chunk with the sentinel, pushed, pulled and read.
Init ==
  /\ log = <<Msg("Dummy", 1, 0)>>
  /\ wchunk = 1 /\ offset = 1
  /\ pending = 0 /\ written = 1
  /\ pos = 1 /\ snap = 1 /\ newCount = 0
  /\ terminate = FALSE /\ flushed = FALSE
  /\ immediate = TRUE /\ attached = FALSE /\ locked = FALSE
  /\ recycled = {} /\ freed = {}
  /\ event = 0
  /\ ppc = "idle" /\ cpc = "none"
  /\ done = <<1>>

Calls ==
  \/ Enqueue \/ AllocateData \/ AllocateDataImmediate \/ FreeImmediate
  \/ KickAndWaitImmediate \/ DestroyImmediate \/ Push
  \/ FinishWriting \/ FreeChunksInFreeQueue \/ KickAndWait
  \/ TerminateConsumerThread \/ RunConsumerThread

\* What the producer does inside a call it has begun
Producer == Notify \/ WaitReturns \/ Join

Consumer ==
  \/ LockAndPull \/ Unlock \/ WaitForKick \/ PullAfterWakeup
  \/ ReadMessage \/ Execute \/ FlushReturns

Next == Calls \/ Producer \/ Consumer \/ SpuriousWakeup

Spec == Init /\ [][Next]_vars

\* Both threads run when they can, and a mutex that is released again and again
\* is granted to the thread that asks for it (the consumer takes it at every
\* spurious wakeup).  Nothing forces the game to make a call, nor the condition
\* variable to wake up on its own.
FairSpec == Spec /\ WF_vars(Producer) /\ SF_vars(Notify) /\ WF_vars(Consumer)

-----------------------------------------------------------------------------
(* Properties *)

TypeOK ==
  /\ log \in Seq(Message) /\ Len(log) > 0
  /\ wchunk \in Nat /\ offset \in Nat
  /\ pending \in Nat /\ written \in Nat
  /\ pos \in 1 .. Len(log) /\ snap \in Nat /\ newCount \in Nat
  /\ terminate \in BOOLEAN /\ flushed \in BOOLEAN
  /\ immediate \in BOOLEAN /\ attached \in BOOLEAN /\ locked \in BOOLEAN
  /\ recycled \in SUBSET Nat /\ freed \in SUBSET Nat
  /\ event \in Nat
  /\ ppc \in ProducerPC /\ cpc \in ConsumerPC
  /\ done \in Seq(Nat)

\* The reader never steps into memory the writer has not published: whatever it
\* counts as new was pushed, across pulls made under the lock, after a wakeup
\* and inside a chunk switch (readMessage, pullMessages).
OnlyPublishedRead == pos + newCount <= written /\ written + pending = Len(log)

\* Following the links from the sentinel visits the messages in the order they
\* were allocated, across submitted data (which moves a link) and chunk
\* switches, and the last link points at the writer's free space.
LinkedInOrder ==
  /\ \A i \in 1 .. Len(log) - 1 : log[i].next = log[i + 1].at
  /\ log[Len(log)].next = <<wchunk, offset>>

\* Messages are executed in the order they were written, none twice and none
\* skipped, whatever the mix of immediate and threaded phases.
ExecutedInOrder == \A i \in 1 .. Len(done) : done[i] = i

\* The consumer never sleeps on published messages, unless the producer that
\* pushed them is still on its way to notify (no wakeup is lost between the
\* unlocked push and the wait).
NoLostWakeup ==
  cpc = "waiting" /\ written > snap =>
    ppc \in {"notify", "notifyWait", "notifyTerm", "notifyDestroy"}

\* No message the reader still has to follow or execute lies in a chunk that was
\* given back to the allocator's pool: a stashed chunk is freed only by a
\* message behind the switch that left it.
NoReadAfterFree == ppc # "gone" => \A i \in pos .. Len(log) : log[i].at[1] \notin freed

\* kickAndWait returns, and terminateConsumerThread joins, only when everything
\* written before has been executed.
WaitDrains ==
  [][(ppc \in {"await", "awaitTerm", "awaitDestroy"} /\ ppc' # ppc)
        => (Len(done) = Len(log) /\ pending = 0)]_vars

\* allocateImpl asserts that an inline chunk switch finds exactly its own two
\* messages (MessageQueue.cpp, CC_ASSERT_EQ(_reader.newMessageCount, 2)): in
\* immediate mode the reader has caught up, also after a threaded phase.
ImmediateInStep ==
  immediate => newCount + (written + pending - snap) = 0 /\ pos = Len(log)

\* A client's own messages among those that indices names, by their places there
Own(l, indices) == {i \in DOMAIN indices : l[indices[i]].kind \notin {"Dummy", "Switch"}}

\* The member of S with j - 1 others below it
Ranked(S, j) == CHOOSE i \in S : Cardinality({k \in S : k <= i}) = j

\* The addresses of the messages at the places S of indices, in order
Addresses(l, indices, S) ==
  [j \in 1 .. Cardinality(S) |-> l[indices[Ranked(S, j)]].at]

\* What a client of the queue sees: the messages that are its own, by address,
\* how many of them are published and executed, and whether it is in a call that
\* waits.
ClientMessages(indices) == Addresses(log, indices, Own(log, indices))

Waiting == {"notifyWait", "notifyTerm", "notifyDestroy", "await", "awaitTerm", "awaitDestroy"}

Delivery == INSTANCE OrderedDelivery WITH
  Item <- Address,
  sent <- ClientMessages([i \in 1 .. Len(log) |-> i]),
  published <- Cardinality(Own(log, [i \in 1 .. written |-> i])),
  delivered <- ClientMessages(done),
  blocked <- (~immediate /\ ppc \in Waiting)

\* The queue implements ordered, exactly-once delivery with waiting calls that
\* come back only when everything is delivered, and do come back.
ImplementsDelivery == Delivery!Spec

\* A call that blocks the game thread (kickAndWait, terminateConsumerThread, the
\* lock in kick) comes back.
CallsReturn == (ppc \notin {"idle", "gone"}) ~> (ppc \in {"idle", "gone"})
=============================================================================

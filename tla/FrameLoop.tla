------------------------------ MODULE FrameLoop ------------------------------
(***************************************************************************)
(* The frames of the renderer: the game thread records a frame into the     *)
(* queues of the command buffers and the main queue, and runs at most       *)
(* MAX_CPU_FRAME_AHEAD frames ahead of the device thread, which reads the   *)
(* main queue and, where it says so, the command buffers' queues.           *)
(*                                                                         *)
(* Each queue delivers in order what was published (MessageQueue); here a   *)
(* queue is the list of its messages that are not read yet.  What the       *)
(* queues share is kept: the stash of used chunks, the staging memory of a  *)
(* buffer (one buffer; a slot's content is the frame that wrote it), the    *)
(* frame semaphore.                                                        *)
(***************************************************************************)
EXTENDS Integers, Sequences, FiniteSetsExt, Functions

CONSTANTS
  Cmds,        \* number of command buffers
  Ahead,       \* MAX_CPU_FRAME_AHEAD
  MaxFrames,   \* bound
  MaxOps,      \* bound: updates and resizes
  MaxChunks    \* bound: chunks a queue ever uses

ASSUME FrameAssumption ==
  Cmds \in Nat /\ Ahead \in Nat /\ MaxFrames \in Nat /\ MaxOps \in Nat
  /\ MaxChunks \in Nat \ {0}

VARIABLES
  unread,     \* queue -> its messages; Main or a command buffer
  published,  \* how many of the main queue's the device thread may read
  chunk,      \* queue -> the chunk that is written
  stands,     \* queue -> the chunk of the message read last
  stash,      \* _chunkFreeQueue, shared by all queues
  freed,      \* chunks given back
  slots,      \* slot of the staging memory -> the frame that wrote it
  gen,        \* the staging memory in use: a resize takes a new one
  gone,       \* staging memory up to this one is freed
  late,       \* the buffer was resized between an update and its flush
  index,      \* _currentIndex
  sem,        \* _frameBoundarySemaphore
  frame,      \* frames the game thread presented
  shown,      \* frames the device thread presented
  ops,        \* the bound's counter
  game,       \* "record", "flushed" or "wait"
  flushing    \* command buffers the device thread has still to read to the end

vars == <<unread, published, chunk, stands, stash, freed, slots, gen, gone, late,
          index, sem, frame, shown, ops, game, flushing>>

Main == 0
Queues == 0..Cmds
MaxFrameIndex == Ahead + 1

Msg(kind, c) == [kind |-> kind, chunk |-> c, frame |-> frame, slot |-> index,
                 gen |-> gen]

Init ==
  /\ unread = [q \in Queues |-> <<>>] /\ published = 0
  /\ chunk = [q \in Queues |-> 1] /\ stands = [q \in Queues |-> 1]
  /\ stash = {} /\ freed = {}
  /\ slots = [i \in 0..Ahead |-> 0] /\ gen = 1 /\ gone = 0 /\ late = FALSE
  /\ index = 0 /\ sem = Ahead /\ frame = 0 /\ shown = 0
  /\ ops = 0 /\ game = "record" /\ flushing = {}
-----------------------------------------------------------------------------
(* The game thread.                                                        *)

\* Messages of these kinds go to the queues, in each behind a switch if its
\* chunk is full.
Write(kinds) ==
  \E full \in SUBSET DOMAIN kinds :
    LET c == [q \in Queues |-> IF q \in full THEN chunk[q] + 1 ELSE chunk[q]] IN
    /\ \A q \in full : c[q] <= MaxChunks
    /\ chunk' = c
    /\ unread' = [q \in Queues |-> unread[q]
          \o (IF q \in full THEN <<Msg("switch", chunk[q])>> ELSE <<>>)
          \o (IF q \in DOMAIN kinds
                THEN [i \in DOMAIN kinds[q] |-> Msg(kinds[q][i], c[q])]
                ELSE <<>>)]
WriteTo(q, kinds) == Write([p \in {q} |-> kinds])

Counted == ops < MaxOps /\ ops' = ops + 1
Device == <<published, stands, stash, freed, gone, shown, flushing>>

\* CommandBufferAgent::updateBuffer writes its message to the queue of the command
\* buffer, which is recorded until the frame is flushed.
Recording(q) == q # Main => game = "record"

\* BufferAgent::update and updateBuffer: the data goes to this frame's slot at
\* once, the message says where it is.
Update(q) ==
  /\ game # "wait" /\ Counted
  /\ Recording(q)
  /\ slots' = [slots EXCEPT ![index] = frame]
  /\ WriteTo(q, <<"update">>)
  /\ UNCHANGED <<Device, gen, late, index, sem, frame, game>>

\* BufferAgent::doResize: the message takes the old staging memory with it.
Resize ==
  /\ game # "wait" /\ Counted
  /\ WriteTo(Main, <<"resize">>)
  /\ gen' = gen + 1
  /\ late' = (late \/ (game = "record" /\ \E c \in 1..Cmds :
                \E m \in Range(unread[c]) : m.kind = "update" /\ m.frame = frame))
  /\ UNCHANGED <<Device, slots, index, sem, frame, game>>

\* A call in the middle of a frame that kicks the main queue.
Kick ==
  /\ game # "wait" /\ published < Len(unread[Main])
  /\ published' = Len(unread[Main])
  /\ UNCHANGED <<unread, chunk, stands, stash, freed, slots, gen, gone, late,
                 index, sem, frame, shown, ops, game, flushing>>

\* DeviceAgent::flushCommands: each command buffer, then the main queue.
Closing == <<"free", "finish">>
Flush ==
  /\ game = "record"
  /\ Write([q \in Queues |->
             IF q = Main THEN <<"flush">> ELSE Closing])
  /\ game' = "flushed"
  /\ UNCHANGED <<Device, slots, gen, late, index, sem, frame, ops>>

\* DeviceAgent::present up to the wait.
NextIndexStays == index
NextIndex == (index + 1) % MaxFrameIndex
Present ==
  /\ game = "flushed" /\ frame < MaxFrames
  /\ WriteTo(Main, <<"present", "free">>)
  /\ published' = Len(unread'[Main])
  /\ index' = NextIndex
  /\ game' = "wait"
  /\ UNCHANGED <<stands, stash, freed, gone, shown, flushing, slots, gen, late,
                 sem, frame, ops>>

PassAtOnce == UNCHANGED sem
Pass == sem > 0 /\ sem' = sem - 1
NextFrame ==
  /\ game = "wait"
  /\ Pass
  /\ game' = "record" /\ frame' = frame + 1
  /\ UNCHANGED <<Device, unread, chunk, slots, gen, late, index, ops>>
-----------------------------------------------------------------------------
(* The device thread.                                                      *)

\* What reading a message does to the chunks: a switch recycles its own, which
\* the reader still stands in.
Chunks(q, m) ==
  /\ stands' = [stands EXCEPT ![q] = m.chunk]
  /\ stash' = CASE m.kind = "switch" -> stash \cup {<<q, m.chunk>>}
                [] m.kind = "free" -> {}
                [] OTHER -> stash
  /\ freed' = IF m.kind = "free" THEN freed \cup stash ELSE freed

NotSignalled(m) == sem
Signalled(m) == IF m.kind = "present" THEN sem + 1 ELSE sem
ReadMain ==
  /\ flushing = {} /\ published > 0
  /\ LET m == Head(unread[Main]) IN
     /\ Chunks(Main, m)
     /\ gone' = IF m.kind = "resize" THEN m.gen ELSE gone
     /\ flushing' = IF m.kind = "flush" THEN 1..Cmds ELSE {}
     /\ shown' = IF m.kind = "present" THEN shown + 1 ELSE shown
     /\ sem' = Signalled(m)
  /\ unread' = [unread EXCEPT ![Main] = Tail(@)]
  /\ published' = published - 1
  /\ UNCHANGED <<chunk, slots, gen, late, index, frame, ops, game>>

\* CommandBufferAgent::flushCommands: with one job thread, as in this build,
\* the command buffers are read one after the other.
AtWorkTogether == flushing
AtWork == IF flushing = {} THEN {} ELSE {Min(flushing)}
ReadCmd(c) ==
  /\ c \in AtWork
  /\ LET m == Head(unread[c]) IN
     /\ Chunks(c, m)
     /\ flushing' = IF m.kind = "finish" THEN flushing \ {c} ELSE flushing
  /\ unread' = [unread EXCEPT ![c] = Tail(@)]
  /\ UNCHANGED <<published, chunk, slots, gen, gone, late, index, sem, frame,
                 shown, ops, game>>

Next ==
  \/ \E q \in Queues : Update(q)
  \/ Resize \/ Kick \/ Flush \/ Present \/ NextFrame
  \/ ReadMain \/ \E c \in 1..Cmds : ReadCmd(c)

Spec == Init /\ [][Next]_vars
\* The game thread draws frames and the device thread reads.
FairSpec ==
  /\ Spec
  /\ WF_vars(Flush \/ Present) /\ WF_vars(NextFrame)
  /\ WF_vars(ReadMain \/ \E c \in 1..Cmds : ReadCmd(c))
-----------------------------------------------------------------------------
Messages == [kind : {"update", "resize", "switch", "free", "finish", "flush",
                     "present"},
             chunk : 1..MaxChunks, frame : Nat, slot : 0..Ahead, gen : Nat \ {0}]
Waits(q) == Range(unread[q])

\* Type invariant, with the counters in their ranges.
TypeOK ==
  /\ unread \in [Queues -> Seq(Messages)]
  /\ published \in 0..Len(unread[Main])
  /\ chunk \in [Queues -> 1..MaxChunks] /\ stands \in [Queues -> 1..MaxChunks]
  /\ stash \subseteq Queues \X (1..MaxChunks)
  /\ freed \subseteq Queues \X (1..MaxChunks)
  /\ slots \in [0..Ahead -> Nat] /\ gen \in Nat \ {0} /\ gone \in Nat
  /\ late \in BOOLEAN
  /\ index \in 0..Ahead /\ sem \in Nat /\ frame \in Nat /\ shown \in Nat
  /\ ops \in 0..MaxOps
  /\ game \in {"record", "flushed", "wait"} /\ flushing \subseteq 1..Cmds

\* A slot of staging memory is not written again before the device thread has
\* read what an earlier frame left in it.  Nor does an update read staging
\* memory that a resize has freed, whatever the queue it is in: except that the
\* main queue overtakes what is recorded in a command buffer and not flushed
\* yet when the buffer is resized.
StagedIntact ==
  \A q \in Queues : \A m \in Waits(q) :
    m.kind = "update" => slots[m.slot] = m.frame /\ (late \/ m.gen > gone)

\* The chunk a reader stands in, from which it takes its next step, is not
\* freed, though each queue frees what any queue has put into the stash.
ReaderSafe == TypeOK /\ \A q \in Queues : <<q, stands[q]>> \notin freed

\* The game thread is at most MAX_CPU_FRAME_AHEAD frames ahead, and the
\* semaphore counts the frames that are left; what was recorded in a command
\* buffer is executed in its own frame.
FramesAhead ==
  /\ shown <= frame + (IF game = "wait" THEN 1 ELSE 0)
  /\ frame - shown <= Ahead
  /\ sem = Ahead - (frame - shown)
  /\ \A c \in flushing :
       unread[c] # <<>> /\ Head(unread[c]).frame = shown

\* Every frame the game thread presents is shown, and it never waits for ever.
Shown ==
  \A f \in 0..MaxFrames - 1 :
    (frame = f /\ game = "wait") ~> (frame > f /\ shown > f)
=============================================================================

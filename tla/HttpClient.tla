----------------------------- MODULE HttpClient -----------------------------
(***************************************************************************)
(* Requests of the scripts: XMLHttpRequest on the cocos thread, HttpClient   *)
(* with its network thread and its pool of threads, and the end of the      *)
(* engine, which destroys the client while those threads run.              *)
(*                                                                         *)
(* A job is one XMLHttpRequest send that reached the pool; jobs are numbered *)
(* as they are sent.  A request of the queue (send) is only counted: nothing *)
(* but its order matters.  The answer's content is whether it succeeded.    *)
(* The script may call the object from inside its callbacks: a handler stops  *)
(* at them ("in" says which one) and goes on in Return.                    *)
(* Not modelled: what a thread does that finds the client deleted when it   *)
(* starts (undefined behaviour: the count grows only when a job starts).            *)
(***************************************************************************)
EXTENDS Integers, Sequences, FiniteSets, SequencesExt

CONSTANTS
  Xhrs,         \* XMLHttpRequest objects
  PoolSize,     \* threads of gThreadPool
  MaxSends,     \* bound: jobs
  MaxRequests   \* bound: requests of the queue

ASSUME HttpAssumption ==
  PoolSize \in Nat \ {0} /\ MaxSends \in Nat /\ MaxRequests \in Nat

VARIABLES
  engine,      \* how far Engine::destroy is
  deleted,     \* the client is deleted
  count,       \* _threadCount
  waiting,     \* jobs in the pool's queue
  running,     \* jobs at work, the answer not yet handed over
  ending,      \* jobs whose answer is handed over (or dropped)
  posted,      \* functions the cocos thread has to perform
  net,         \* network thread
  requests,    \* _requestQueue
  responses,   \* _responseQueue
  sent,        \* requests given to send
  answered,    \* requests whose callback was called, in order
  jobs,        \* jobs so far: their object and which opening of it they serve
  xhr          \* the XMLHttpRequests

pool == <<waiting, running, ending, jobs>>
queues == <<net, requests, responses, sent>>
vars == <<engine, deleted, count, pool, posted, queues, answered, xhr>>

Sentinel == 0
Dispatch == 0    \* the posted dispatchResponseCallbacks; else a job's answer
\* in: the handler whose callbacks the script is in.  For the properties only:
\* opens and ends are counted; misused, cut, early, tangled and stale record how
\* the object was used (see HeardOnce, KeptAlive).
NewXhr == [in |-> "no", ready |-> "UNSENT", sending |-> FALSE, timedOut |-> FALSE,
           aborted |-> FALSE, loadStart |-> FALSE, timer |-> FALSE,
           callback |-> FALSE, roots |-> 0, opens |-> 0, ends |-> 0,
           misused |-> FALSE, cut |-> FALSE, early |-> FALSE,
           tangled |-> FALSE, stale |-> FALSE, dead |-> FALSE]

Init ==
  /\ engine = "up" /\ deleted = FALSE /\ count = 1
  /\ waiting = <<>> /\ running = {} /\ ending = {} /\ jobs = <<>>
  /\ posted = <<>>
  /\ net = "none" /\ requests = <<>> /\ responses = <<>> /\ sent = 0
  /\ answered = <<>>
  /\ xhr = [x \in Xhrs |-> NewXhr]

\* increaseThreadCount and decreaseThreadCountAndMayDeleteThis.
Enter == count' = count + 1
LeaveTooLong == count' = count - 1 /\ deleted' = (count = 0)
Leave == count' = count - 1 /\ deleted' = (count = 1)
\* The answer reaches the cocos thread while _scheduler is set.
Post(f) == posted' = IF engine = "up" THEN Append(posted, f) ELSE posted
Outstanding(x) ==
  {n \in DOMAIN jobs : jobs[n].of = x /\
     \/ n \in Range(waiting) \cup running
     \/ n \in Range(posted)}
-----------------------------------------------------------------------------
(* XMLHttpRequest; each is a step of the cocos thread.                      *)
Alive(x) == engine = "up" /\ ~xhr[x].dead
\* No handler of the cocos thread is under way.
Idle == \A x \in Xhrs : xhr[x].in = "no"
Only(x) == UNCHANGED <<engine, deleted, count, pool, posted, queues, answered>>

\* onloadend: the script hears of the end, then the object is unrooted.
Unroot(o) == [o EXCEPT !.roots = IF @ > 0 THEN @ - 1 ELSE 0]

MayOpen(o) == o.ready = "UNSENT"
Open(x) ==
  /\ Alive(x) /\ MayOpen(xhr[x]) /\ xhr[x].opens < MaxSends
  /\ xhr' = [xhr EXCEPT ![x].ready = "OPENED", ![x].aborted = FALSE,
               ![x].timedOut = FALSE, ![x].opens = @ + 1,
               ![x].misused = @ \/ Outstanding(x) # {}]
  /\ Only(x)

\* sendRequest, which asks only whether it is sending, not whether the object was
\* opened.  The object is rooted in onloadstart.
MaySend(o) == ~o.sending
Send(x, timeout) ==
  /\ Alive(x) /\ MaySend(xhr[x]) /\ Len(jobs) < MaxSends
  /\ xhr' = [xhr EXCEPT ![x].sending = TRUE, ![x].timedOut = FALSE,
               ![x].timer = timeout, ![x].callback = TRUE,
               ![x].loadStart = TRUE, ![x].roots = @ + 1, ![x].ends = 0,
               ![x].misused = @ \/ Outstanding(x) # {},
               ![x].early = @ \/ xhr[x].ready = "UNSENT",
               ![x].tangled = @ \/ xhr[x].in = "abort"
                                \/ (xhr[x].in = "answer" /\ xhr[x].roots = 0)]
  /\ jobs' = Append(jobs, [of |-> x, open |-> xhr[x].opens])
  /\ waiting' = Append(waiting, Len(jobs'))
  /\ UNCHANGED <<engine, deleted, count, running, ending, posted, queues, answered>>

\* The timer of sendRequest, up to ontimeout.
Timeout(x) ==
  /\ Alive(x) /\ Idle /\ xhr[x].timer
  /\ xhr' = [xhr EXCEPT ![x].in = "timeout"]
  /\ Only(x)

\* abort, up to onabort and onloadend.
AbortedKeepsTimer(o) ==
  [o EXCEPT !.aborted = TRUE, !.sending = FALSE, !.ready = "DONE",
     !.ends = @ + 1, !.cut = TRUE, !.misused = @ \/ o.ends > 0]
Aborted(o) ==
  [o EXCEPT !.aborted = TRUE, !.sending = FALSE, !.timer = FALSE,
     !.ready = "DONE", !.ends = @ + 1, !.cut = TRUE, !.misused = @ \/ o.ends > 0]

\* What a handler does after its callbacks.  After ontimeout the scheduler cancels
\* the timer by its key, which is also that of a timer a new request has set;
\* loadend is left to the answer.
AbortReturns(o) == [Unroot(o) EXCEPT !.ready = "UNSENT", !.callback = FALSE]
TimeoutEnds(o) == [Unroot(o) EXCEPT !.timer = FALSE, !.timedOut = TRUE,
                     !.ready = "UNSENT", !.ends = @ + 1, !.cut = TRUE]
TimeoutReturns(o) ==
  [o EXCEPT !.timer = FALSE, !.timedOut = TRUE, !.ready = "UNSENT", !.cut = TRUE]
Returned(o) ==
  CASE o.in = "abort"   -> AbortReturns(o)
    [] o.in = "timeout" -> TimeoutReturns(o)
    [] o.in = "answer"  -> Unroot(o)
Return(x) ==
  /\ Alive(x) /\ xhr[x].in # "no"
  /\ xhr' = [xhr EXCEPT ![x] = [Returned(@) EXCEPT !.in = "no"]]
  /\ Only(x)

\* From inside a callback of the object, abort runs to its end (calls from inside
\* the callbacks of that one are not followed).
Abort(x) ==
  /\ Alive(x) /\ xhr[x].loadStart
  /\ xhr[x].ends < 2     \* bound: the history of ends
  /\ LET o == Aborted(xhr[x]) IN
     xhr' = [xhr EXCEPT ![x] =
               IF o.in = "no" THEN [o EXCEPT !.in = "abort"]
                              ELSE [AbortReturns(o) EXCEPT !.tangled = TRUE]]
  /\ Only(x)

\* The script has dropped the object and the collector may take it.
Destruct(o) == [o EXCEPT !.dead = TRUE, !.timer = FALSE, !.callback = FALSE]
Finalize(x) ==
  /\ Alive(x) /\ xhr[x].roots = 0 /\ xhr[x].in = "no"
  /\ xhr' = [xhr EXCEPT ![x] = Destruct(@)]
  /\ Only(x)

SilentAfterTimeout(o) == o
AfterTimeout(o) == [o EXCEPT !.in = "answer", !.ends = @ + 1]

\* onResponse to the answer of job n, up to onload or onerror and onloadend.
Heard(o, n, ok) ==
  LET heard == [o EXCEPT !.timer = FALSE, !.sending = FALSE] IN
  IF heard.timedOut THEN AfterTimeout(heard)
  ELSE IF heard.aborted \/ heard.ready = "UNSENT" THEN heard
  ELSE [heard EXCEPT !.in = "answer", !.ends = @ + 1,
                     !.ready = IF ok THEN "DONE" ELSE @,
                     !.stale = @ \/ jobs[n].open # o.opens]
-----------------------------------------------------------------------------
Drained(s) == <<>>
Taken(s) == Tail(s)

(* Scheduler::update performs one function; the pool's and the queue's.     *)
Perform ==
  /\ posted # <<>> /\ engine = "up" /\ Idle
  /\ posted' = Tail(posted)
  /\ LET f == Head(posted) IN
       IF f = Dispatch
         THEN /\ IF responses = <<>>
                   THEN UNCHANGED <<responses, answered>>
                   ELSE /\ responses' = Taken(responses)
                        /\ answered' = Append(answered, Head(responses))
              /\ UNCHANGED xhr
         ELSE /\ \E ok \in BOOLEAN :
                   LET x == jobs[f].of IN
                   xhr' = IF xhr[x].callback
                            THEN [xhr EXCEPT ![x] = Heard(@, f, ok)]
                            ELSE xhr
              /\ UNCHANGED <<responses, answered>>
  /\ UNCHANGED <<engine, deleted, count, pool, net, requests, sent>>

\* networkThreadAlone.
JobStart ==
  /\ waiting # <<>> /\ ~deleted
  /\ Cardinality(running \cup ending) < PoolSize
  /\ running' = running \cup {Head(waiting)}
  /\ waiting' = Tail(waiting)
  /\ Enter
  /\ UNCHANGED <<engine, deleted, ending, jobs, posted, queues, answered, xhr>>

JobAnswer(n) ==
  /\ n \in running
  /\ Post(n)
  /\ running' = running \ {n} /\ ending' = ending \cup {n}
  /\ UNCHANGED <<engine, deleted, count, waiting, jobs, queues, answered, xhr>>

JobEnd(n) ==
  /\ n \in ending
  /\ ending' = ending \ {n}
  /\ Leave
  /\ UNCHANGED <<engine, waiting, running, jobs, posted, queues, answered, xhr>>

\* HttpClient::send, which creates the network thread.
SendQueued ==
  /\ engine = "up" /\ sent < MaxRequests
  /\ sent' = sent + 1
  /\ requests' = Append(requests, sent')
  /\ net' = IF net = "none" THEN "created" ELSE net
  /\ UNCHANGED <<engine, deleted, count, pool, posted, responses, answered, xhr>>

\* networkThread: it is at work on the head of requests while "working".
NetStart ==
  /\ net = "created" /\ ~deleted
  /\ net' = "idle" /\ Enter
  /\ UNCHANGED <<engine, deleted, pool, posted, requests, responses, sent,
                 answered, xhr>>

Queued(s, r) == Append(s, r)
NetRespond ==
  /\ net = "idle" /\ requests # <<>> /\ Head(requests) # Sentinel
  /\ requests' = Tail(requests)
  /\ responses' = Queued(responses, Head(requests))
  /\ net' = "responded"
  /\ UNCHANGED <<engine, deleted, count, pool, posted, sent, answered, xhr>>

NetPost ==
  /\ net = "responded"
  /\ Post(Dispatch)
  /\ net' = "idle"
  /\ UNCHANGED <<engine, deleted, count, pool, requests, responses, sent,
                 answered, xhr>>

NetQuit ==
  /\ net = "idle" /\ requests # <<>> /\ Head(requests) = Sentinel
  /\ net' = "gone" /\ requests' = <<>> /\ responses' = <<>>
  /\ Leave
  /\ UNCHANGED <<engine, pool, posted, sent, answered, xhr>>
-----------------------------------------------------------------------------
(* Engine::destroy on the cocos thread: destroyInstance takes the scheduler  *)
(* from the client, sends the sentinel and gives up its share of the count; *)
(* then the functions posted until then and all timers are dropped.        *)
DestroyReset ==
  /\ engine = "up" /\ Idle
  /\ engine' = "reset"
  /\ UNCHANGED <<deleted, count, pool, posted, queues, answered, xhr>>

DestroySentinel ==
  /\ engine = "reset"
  /\ engine' = "left"
  /\ requests' = Append(requests, Sentinel)
  /\ Leave
  /\ UNCHANGED <<pool, posted, net, responses, sent, answered, xhr>>

DestroyRemove ==
  /\ engine = "left"
  /\ engine' = "down"
  /\ posted' = <<>>
  /\ xhr' = [x \in Xhrs |-> [xhr[x] EXCEPT !.timer = FALSE]]
  /\ UNCHANGED <<deleted, count, pool, queues, answered>>

PoolStep == JobStart \/ \E n \in 1..MaxSends : JobAnswer(n) \/ JobEnd(n)
NetStep == NetStart \/ NetRespond \/ NetPost \/ NetQuit
Next ==
  \/ \E x \in Xhrs : Open(x) \/ Abort(x) \/ Timeout(x) \/ Finalize(x)
  \/ \E x \in Xhrs : Return(x)
  \/ \E x \in Xhrs, timeout \in BOOLEAN : Send(x, timeout)
  \/ SendQueued \/ Perform
  \/ JobStart
  \/ \E n \in 1..MaxSends : JobAnswer(n) \/ JobEnd(n)
  \/ NetStart \/ NetRespond \/ NetPost \/ NetQuit
  \/ DestroyReset \/ DestroySentinel \/ DestroyRemove

Spec == Init /\ [][Next]_vars
\* The threads run, a request is answered at last (by an error if by nothing
\* else), the cocos thread draws frames, and the script's callbacks return.
FairSpec ==
  /\ Spec
  /\ WF_vars(PoolStep) /\ WF_vars(NetStep) /\ WF_vars(Perform)
  /\ \A x \in Xhrs : WF_vars(Return(x))
-----------------------------------------------------------------------------
Objects == [in : {"no", "abort", "timeout", "answer"},
            ready : {"UNSENT", "OPENED", "DONE"}, sending : BOOLEAN,
            timedOut : BOOLEAN, aborted : BOOLEAN, loadStart : BOOLEAN,
            timer : BOOLEAN, callback : BOOLEAN, roots : Nat,
            opens : 0..MaxSends, ends : Nat, misused : BOOLEAN,
            cut : BOOLEAN, early : BOOLEAN, tangled : BOOLEAN,
            stale : BOOLEAN, dead : BOOLEAN]

\* Type invariant of all the variables.
TypeOK ==
  /\ engine \in {"up", "reset", "left", "down"} /\ deleted \in BOOLEAN
  /\ count \in Nat
  /\ jobs \in Seq([of : Xhrs, open : Nat])
  /\ waiting \in Seq(DOMAIN jobs)
  /\ running \subseteq DOMAIN jobs /\ ending \subseteq DOMAIN jobs
  /\ posted \in Seq({Dispatch} \cup DOMAIN jobs)
  /\ net \in {"none", "created", "idle", "responded", "gone"}
  /\ sent \in 0..MaxRequests
  /\ requests \in Seq(0..sent) /\ responses \in Seq(1..sent)
  /\ answered \in Seq(1..sent)
  /\ xhr \in [Xhrs -> Objects]

\* The count that decides when the client goes is that of its users: the
\* engine until it gives up its share, the pool's jobs, the network thread.  So
\* no job or thread that has started works on a deleted client, and once the
\* engine is destroyed nothing of the client is left to be performed on the
\* cocos thread, however late a thread comes with its answer.
Users ==
  (IF engine \in {"up", "reset"} THEN 1 ELSE 0)
  + Cardinality(running) + Cardinality(ending)
  + (IF net \in {"idle", "responded"} THEN 1 ELSE 0)
CountsUsers ==
  /\ TypeOK
  /\ count = Users /\ (deleted <=> count = 0)
  /\ deleted => running \cup ending = {} /\ net \notin {"idle", "responded"}
  /\ engine = "down" => posted = <<>>

\* Requests of the queue are answered in the order they were sent: each answer
\* has one dispatch, posted or about to be, that takes it and no other.
AnsweredInOrder ==
  /\ \A i \in DOMAIN answered : answered[i] = i
  /\ engine = "up" =>
       Cardinality({i \in DOMAIN posted : posted[i] = Dispatch})
         + (IF net = "responded" THEN 1 ELSE 0) = Len(responses)

\* A script is told of the end of a request once, unless it opened or sent
\* the object anew before the former answer was in, or aborted what was over; and the answer
\* to an earlier opening is taken for that of a later one only if a timeout or
\* an abort cut the earlier one short (open clears the flags by which onResponse
\* would know), or it was sent before the object was opened.
HeardOnce ==
  \A x \in Xhrs : /\ xhr[x].ends > 1 => xhr[x].misused
                  /\ xhr[x].stale => xhr[x].cut \/ xhr[x].early

\* While an answer or a timeout is awaited the object cannot be collected, though
\* it is sent again from inside the callbacks of its answer; and a request that is
\* over does not time out any more.  The exception are objects that the script
\* tangled: abort called from inside a callback of the object, or send from
\* inside those of its abort or of a second answer (to a request before a timeout
\* or an abort), so that the end of one takes the root of another.
KeptAlive ==
  \A x \in Xhrs :
    /\ xhr[x].sending => xhr[x].tangled \/ (xhr[x].roots > 0 /\ ~xhr[x].dead)
    /\ xhr[x].timer => xhr[x].sending

\* No object stays rooted: every request that started ends, be it by an answer,
\* after a timeout or by an abort, unless the engine goes first.  The exceptions
\* are a tangled object, and one sent while it was not open, whose answer is
\* dropped in silence.
Unrooted ==
  \A x \in Xhrs : xhr[x].roots > 0 ~>
    xhr[x].roots = 0 \/ engine # "up" \/ xhr[x].early \/ xhr[x].tangled
=============================================================================

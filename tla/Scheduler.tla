----------------------------- MODULE Scheduler -----------------------------
(***************************************************************************)
(* The scheduler of the engine (base/Scheduler): timers by target and key,  *)
(* and functions handed to the cocos thread by other threads.               *)
(*                                                                         *)
(* Engine::tick calls update once a frame.  A callback that update calls    *)
(* may schedule, unschedule, pause and resume anything, so each call of the *)
(* interface is an action that is enabled between frames and inside every   *)
(* callback.  Timers are reference counted; the one being updated is kept   *)
(* alive ("salvaged") when it is unscheduled.                               *)
(***************************************************************************)
EXTENDS Integers, SequencesExt

CONSTANTS
  Targets,     \* objects that own timers
  Keys,        \* names of timers
  Timers,      \* timer objects; a freed one may be allocated again
  Plans,       \* [interval, repeat, forever, delay] a caller may ask for
  Steps,       \* lengths of a frame
  None,        \* no target, key or timer
  MaxElapsed,  \* bound: time a timer may lag behind
  MaxCalls,    \* bound: calls of the interface in one callback
  MaxPosts     \* bound: functions posted

ASSUME SchedulerAssumption ==
  /\ None \notin Targets \cup Keys \cup Timers
  /\ Plans \subseteq [interval : Nat, repeat : Nat, forever : BOOLEAN, delay : Nat]
  /\ Steps \subseteq Nat \ {0}
  /\ MaxElapsed \in Nat /\ MaxCalls \in Nat /\ MaxPosts \in Nat
  /\ IsFiniteSet(Targets) /\ IsFiniteSet(Timers)

VARIABLES
  order,           \* targets of _hashForTimers in the order of iteration
  paused,          \* HashTimerEntry.paused
  timers,          \* HashTimerEntry.timers
  timer,           \* the fields of each timer object
  refs,            \* its reference count; 0 when it is free
  at,              \* where the cocos thread is
  iter,            \* where update iterates, or None at the end
  index,           \* timerIndex of that target
  cur,             \* its currentTimer
  curSalvaged,     \* its currentTimerSalvaged
  targetSalvaged,  \* _currentTargetSalvaged
  dt,              \* the argument of update
  span,            \* the local variable "interval" of Timer::update
  calls,           \* calls made by the running callback
  functions,       \* _functionsToPerform, numbered as they are posted
  temp,            \* the copy that update works through
  racing,          \* another thread wrote _functionsToPerform in this frame
  posted, performed, removed,  \* history of the functions
  due,             \* history of a frame: the timers still to be updated
  ticked           \* history of a visit to a target: the timers updated

table == <<order, paused, timers, timer, refs>>
walk == <<iter, index, cur, curSalvaged, targetSalvaged>>
frame == <<dt, span, due, ticked>>
queue == <<functions, temp, racing, posted, performed, removed>>
vars == <<table, walk, frame, queue, at, calls>>
-----------------------------------------------------------------------------
(* The table. *)

NoTimer == [target |-> None, key |-> None, interval |-> 0, repeat |-> 0,
            forever |-> FALSE, delay |-> 0, useDelay |-> FALSE,
            elapsed |-> -1, executed |-> 0]

\* setupTimerWithInterval: elapsed is -1 until the first update.
NewTimer(t, k, p) ==
  [NoTimer EXCEPT !.target = t, !.key = k, !.interval = p.interval,
                  !.repeat = p.repeat, !.forever = p.forever,
                  !.delay = p.delay, !.useDelay = p.delay > 0]

\* A callback of a timer is running, or may be called from elsewhere.
InCallback == at \in {"idle", "delay", "loop", "function"}
Walking == at \in {"timers", "delay", "loop", "after"}
Current == IF Walking THEN iter ELSE None

Known(t) == t \in ToSet(order)
Named(t, k) == {x \in ToSet(timers[t]) : timer[x].key = k}
Place(s, x) == CHOOSE i \in DOMAIN s : s[i] = x
Without(s, x) == RemoveAt(s, Place(s, x))
Following(t) == LET i == Place(order, t)
                IN  IF i = Len(order) THEN None ELSE order[i + 1]

\* unordered_map::operator[] may rehash, after which the targets come in any
\* order; the iterator of update follows the new links.
Insertions(t) == SetToSeqs(ToSet(order) \cup {t})

NeverSalvages(S) == FALSE     \* Mutant: the current timer is not retained.

\* The current timer is retained before it leaves its list, once.
Salvages(S) == cur \in S /\ ~curSalvaged

NeverInUse(t) == FALSE        \* Mutant: the entry is deleted all the same.

\* Update stands in the entry of t, which must not be deleted.
InUse(t) == t = Current

\* The timers S, which leave their lists, are released.  f has the fields of
\* the timers before that.
Releasing(S, f) ==
  LET count == [x \in Timers |->
                  (IF x = cur /\ Salvages(S) THEN refs[x] + 1 ELSE refs[x])
                  - (IF x \in S THEN 1 ELSE 0)]
  IN  /\ refs' = count
      /\ timer' = [x \in Timers |-> IF count[x] = 0 THEN NoTimer ELSE f[x]]
      /\ curSalvaged' = (curSalvaged \/ Salvages(S))
      /\ due' = due \ S
      /\ ticked' = {x \in ticked : count[x] # 0}

\* The list of t becomes left; a target left without timers leaves the table.
Leaving(t, left) ==
  LET leaves == left = <<>> /\ ~InUse(t) IN
  /\ timers' = [timers EXCEPT ![t] = left]
  /\ order' = IF leaves THEN Without(order, t) ELSE order
  /\ paused' = [paused EXCEPT ![t] = @ /\ ~leaves]
  /\ targetSalvaged' = (targetSalvaged \/ (left = <<>> /\ InUse(t)))

\* Mutants: the index is left alone; it is lowered whatever was removed.
IndexAnyway(t, i) == index
IndexLowered(t, i) == IF InUse(t) THEN index - 1 ELSE index

\* timerIndex after the removal of the timer at place i of target t.
IndexWithout(t, i) == IF InUse(t) /\ index >= i - 1 THEN index - 1 ELSE index

\* unschedule: the timer of that name, if there is one.
Unscheduling(t, k, f) ==
  IF Named(t, k) = {}
    THEN /\ timer' = f
         /\ UNCHANGED <<order, paused, timers, refs, index, curSalvaged,
                        targetSalvaged, due, ticked>>
    ELSE \E x \in Named(t, k) :
           /\ Releasing({x}, f)
           /\ Leaving(t, Without(timers[t], x))
           /\ index' = IndexWithout(t, Place(timers[t], x))
-----------------------------------------------------------------------------
Init ==
  /\ order = <<>> /\ paused = [t \in Targets |-> FALSE]
  /\ timers = [t \in Targets |-> <<>>]
  /\ timer = [x \in Timers |-> NoTimer] /\ refs = [x \in Timers |-> 0]
  /\ at = "idle" /\ iter = None /\ index = 0
  /\ cur = None /\ curSalvaged = FALSE /\ targetSalvaged = FALSE
  /\ dt = 0 /\ span = 0 /\ calls = 0
  /\ functions = <<>> /\ temp = <<>> /\ racing = FALSE
  /\ posted = 0 /\ performed = {} /\ removed = {}
  /\ due = {} /\ ticked = {}
-----------------------------------------------------------------------------
(* The interface. *)

Call == InCallback /\ calls < MaxCalls /\ calls' = calls + 1

\* schedule finds a timer of that name and changes its interval only.
Reschedule(t, k, p) ==
  /\ Call /\ Named(t, k) # {}
  /\ timer' = [x \in Timers |-> IF x \in Named(t, k)
                                  THEN [timer[x] EXCEPT !.interval = p.interval]
                                  ELSE timer[x]]
  /\ UNCHANGED <<order, paused, timers, refs, walk, frame, queue, at>>

\* schedule adds a timer, and the target with the given pause level if it is
\* its first.
Schedule(t, k, p, b, x) ==
  /\ Call /\ Named(t, k) = {} /\ refs[x] = 0
  /\ timer' = [timer EXCEPT ![x] = NewTimer(t, k, p)]
  /\ refs' = [refs EXCEPT ![x] = 1]
  /\ timers' = [timers EXCEPT ![t] = Append(@, x)]
  /\ \/ Known(t) /\ b = paused[t] /\ UNCHANGED <<order, paused>>
     \/ ~Known(t) /\ order' \in Insertions(t)
                  /\ paused' = [paused EXCEPT ![t] = b]
  /\ UNCHANGED <<walk, frame, queue, at>>

Unschedule(t, k) ==
  /\ Call /\ Named(t, k) # {}
  /\ Unscheduling(t, k, timer)
  /\ UNCHANGED <<iter, cur, dt, span, queue, at>>

UnscheduleAllForTarget(t) ==
  /\ Call /\ Known(t)
  /\ Releasing(ToSet(timers[t]), timer)
  /\ Leaving(t, <<>>)
  /\ UNCHANGED <<iter, index, cur, dt, span, queue, at>>

UnscheduleAll ==
  /\ Call /\ order # <<>>
  /\ Releasing(UNION {ToSet(timers[t]) : t \in Targets}, timer)
  /\ timers' = [t \in Targets |-> <<>>]
  /\ order' = IF Current = None THEN <<>> ELSE <<Current>>
  /\ paused' = [t \in Targets |-> paused[t] /\ t = Current]
  /\ targetSalvaged' = (targetSalvaged \/ Current # None)
  /\ UNCHANGED <<iter, index, cur, dt, span, queue, at>>

PauseTarget(t) ==
  /\ Call /\ Known(t)
  /\ paused' = [paused EXCEPT ![t] = TRUE]
  /\ due' = due \ ToSet(timers[t])
  /\ UNCHANGED <<order, timers, timer, refs, walk, dt, span, ticked, queue, at>>

ResumeTarget(t) ==
  /\ Call /\ Known(t)
  /\ paused' = [paused EXCEPT ![t] = FALSE]
  /\ UNCHANGED <<order, timers, timer, refs, walk, frame, queue, at>>
-----------------------------------------------------------------------------
(* update: the targets. *)

Update(d) ==
  /\ at = "idle"
  /\ \A x \in Timers : timer[x].elapsed + d <= MaxElapsed
  /\ at' = "targets"
  /\ iter' = IF order = <<>> THEN None ELSE Head(order)
  /\ dt' = d /\ calls' = 0 /\ racing' = FALSE
  /\ due' = UNION {ToSet(timers[t]) : t \in {u \in ToSet(order) : ~paused[u]}}
  /\ UNCHANGED <<table, index, cur, curSalvaged, targetSalvaged, span, ticked,
                 functions, temp, posted, performed, removed>>

\* A paused target is passed over.
EnterTarget ==
  /\ at = "targets" /\ iter # None
  /\ targetSalvaged' = FALSE /\ ticked' = {}
  /\ \/ paused[iter] /\ iter' = Following(iter) /\ UNCHANGED <<at, index>>
     \/ ~paused[iter] /\ index' = 0 /\ at' = "timers" /\ UNCHANGED iter
  /\ UNCHANGED <<table, cur, curSalvaged, dt, span, due, queue, calls>>

MoreTimers == index < Len(timers[iter])

\* A target that was emptied meanwhile is deleted; the iterator then steps
\* over the target after it.
LeaveTarget ==
  /\ at = "timers" /\ ~MoreTimers
  /\ at' = "targets"
  /\ \/ /\ targetSalvaged /\ timers[iter] = <<>>
        /\ order' = Without(order, iter)
        /\ paused' = [paused EXCEPT ![iter] = FALSE]
        /\ iter' = LET n == Following(iter)
                   IN  IF n = None THEN None ELSE Following(n)
     \/ /\ ~(targetSalvaged /\ timers[iter] = <<>>)
        /\ iter' = Following(iter)
        /\ UNCHANGED <<order, paused>>
  /\ UNCHANGED <<timers, timer, refs, index, cur, curSalvaged,
                 targetSalvaged, frame, queue, calls>>

LeaveTargets ==
  /\ at = "targets" /\ iter = None
  /\ at' = "functions" /\ dt' = 0 /\ index' = 0 /\ targetSalvaged' = FALSE
  /\ UNCHANGED <<table, iter, cur, curSalvaged, span, due, ticked, queue,
                 calls>>
-----------------------------------------------------------------------------
(* Timer::update. *)

\* The interval of this round, and whether it has passed.  With interval 0 a
\* timer runs once per frame.
Round(e, interval) ==
  LET s == IF interval > 0 THEN interval ELSE e
  IN  /\ span' = s
      /\ at' = IF e >= s THEN "loop" ELSE "after"

\* The next timer of the target, up to its first callback.
Tick ==
  /\ at = "timers" /\ MoreTimers
  /\ LET x == timers[iter][index + 1]
         r == timer[x]
         e == IF r.elapsed = -1 THEN 0 ELSE r.elapsed + dt
     IN  /\ cur' = x /\ curSalvaged' = FALSE
         /\ timer' = [timer EXCEPT ![x].elapsed = e]
         /\ \/ r.elapsed = -1 /\ at' = "after" /\ UNCHANGED span
            \/ r.elapsed # -1 /\ r.useDelay
                 /\ at' = (IF e < r.delay THEN "after" ELSE "delay")
                 /\ UNCHANGED span
            \/ r.elapsed # -1 /\ ~r.useDelay /\ Round(e, r.interval)
         /\ due' = due \ {x} /\ ticked' = ticked \cup {x}
  /\ calls' = 0
  /\ UNCHANGED <<order, paused, timers, refs, iter, index, targetSalvaged, dt,
                 queue>>

\* Mutant: a timer that repeats once more.
SpentLate(r) == ~r.forever /\ r.executed > r.repeat + 1

\* The fields of the current timer after a callback for the time s.  Only a
\* timer that ends counts its executions.
Ran(s) ==
  LET r == timer[cur]
  IN  [r EXCEPT !.elapsed = r.elapsed - s, !.useDelay = FALSE,
                !.executed = IF r.forever THEN 0 ELSE r.executed + 1]
Spent(r) == ~r.forever /\ r.executed > r.repeat

\* cancel unschedules by name.
Cancel(r) ==
  /\ Unscheduling(r.target, r.key, [timer EXCEPT ![cur] = r])
  /\ at' = "after"
  /\ UNCHANGED span

Continue(r) ==
  /\ timer' = [timer EXCEPT ![cur] = r]
  /\ UNCHANGED <<order, paused, timers, refs, index, curSalvaged,
                 targetSalvaged, due, ticked>>

\* The callback for the delay returns; the rest of the time counts.
DelayDone ==
  /\ at = "delay"
  /\ LET r == Ran(timer[cur].delay)
     IN  \/ Spent(r) /\ Cancel(r)
         \/ ~Spent(r) /\ Continue(r) /\ Round(r.elapsed, r.interval)
  /\ calls' = 0
  /\ UNCHANGED <<iter, cur, dt, queue>>

\* The callback for an interval returns; another follows in the same frame
\* if the time suffices.
LoopDone ==
  /\ at = "loop"
  /\ LET r == Ran(span)
     IN  \/ Spent(r) /\ Cancel(r)
         \/ /\ ~Spent(r) /\ Continue(r)
            /\ at' = IF r.elapsed <= 0 \/ targetSalvaged \/ r.elapsed < span
                       THEN "after" ELSE "loop"
            /\ UNCHANGED span
  /\ calls' = 0
  /\ UNCHANGED <<iter, cur, dt, queue>>

\* Back in update, which gives up the timer it retained.
TimerDone ==
  /\ at = "after"
  /\ refs' = [refs EXCEPT ![cur] = IF curSalvaged THEN @ - 1 ELSE @]
  /\ timer' = [timer EXCEPT ![cur] = IF refs'[cur] = 0 THEN NoTimer ELSE @]
  /\ ticked' = {x \in ticked : refs'[x] # 0}
  /\ cur' = None /\ curSalvaged' = FALSE /\ index' = index + 1
  /\ span' = 0 /\ at' = "timers"
  /\ UNCHANGED <<order, paused, timers, iter, targetSalvaged, dt, due, queue,
                 calls>>
-----------------------------------------------------------------------------
(* Functions for the cocos thread. *)

Posting(other) ==
  /\ posted < MaxPosts
  /\ posted' = posted + 1
  /\ functions' = Append(functions, posted + 1)
  /\ racing' = (racing \/ other)
  /\ UNCHANGED <<table, walk, frame, at, calls, temp, performed, removed>>

PerformFunctionInCocosThread ==
  \/ InCallback /\ Posting(FALSE)
  \/ Posting(TRUE)

RemoveAllFunctions ==
  /\ functions # <<>>
  /\ functions' = <<>>
  /\ removed' = removed \cup ToSet(functions)
  /\ UNCHANGED <<table, walk, frame, at, calls, temp, racing, posted, performed>>

\* Mutant: a single function does not pay.
CollectMany ==
  /\ at = "functions"
  /\ \/ /\ at' = "perform" /\ Len(functions) > 1
        /\ temp' = functions /\ functions' = <<>>
     \/ /\ Len(functions) <= 1
        /\ at' = "idle"
        /\ UNCHANGED <<temp, functions>>
  /\ calls' = 0
  /\ UNCHANGED <<table, walk, frame, racing, posted, performed, removed>>

\* The emptiness is read without the lock: what another thread has posted in
\* this frame may be seen or not.
Collect ==
  /\ at = "functions"
  /\ \/ /\ functions # <<>> /\ at' = "perform"
        /\ temp' = functions /\ functions' = <<>>
     \/ /\ functions = <<>> \/ racing
        /\ at' = "idle"
        /\ UNCHANGED <<temp, functions>>
  /\ calls' = 0
  /\ UNCHANGED <<table, walk, frame, racing, posted, performed, removed>>

Perform ==
  /\ at = "perform" /\ temp # <<>>
  /\ at' = "function"
  /\ temp' = Tail(temp)
  /\ performed' = performed \cup {Head(temp)}
  /\ calls' = 0
  /\ UNCHANGED <<table, walk, frame, functions, racing, posted, removed>>

FunctionDone ==
  /\ at = "function"
  /\ at' = "perform"
  /\ UNCHANGED <<table, walk, frame, queue, calls>>

\* Mutant: the vector is cleared after the calls instead of before.
UpdateDoneClearing ==
  /\ at = "perform" /\ temp = <<>>
  /\ at' = "idle" /\ calls' = 0
  /\ functions' = <<>>
  /\ UNCHANGED <<table, walk, frame, temp, racing, posted, performed, removed>>

UpdateDone ==
  /\ at = "perform" /\ temp = <<>>
  /\ at' = "idle" /\ calls' = 0
  /\ UNCHANGED <<table, walk, frame, queue>>

-----------------------------------------------------------------------------
Interface ==
  \/ \E t \in Targets, k \in Keys, p \in Plans :
       \/ Reschedule(t, k, p)
       \/ \E b \in BOOLEAN, x \in Timers : Schedule(t, k, p, b, x)
  \/ \E t \in Targets, k \in Keys : Unschedule(t, k)
  \/ \E t \in Targets :
       UnscheduleAllForTarget(t) \/ PauseTarget(t) \/ ResumeTarget(t)
  \/ UnscheduleAll

Walk == \/ EnterTarget \/ LeaveTarget \/ LeaveTargets
        \/ Tick \/ DelayDone \/ LoopDone \/ TimerDone
        \/ Collect \/ Perform \/ FunctionDone \/ UpdateDone

Next == \/ Interface
        \/ PerformFunctionInCocosThread \/ RemoveAllFunctions
        \/ \E d \in Steps : Update(d)
        \/ Walk

\* The run loop calls Engine::tick for ever and callbacks return.
Fairness == WF_vars(Walk) /\ WF_vars(\E d \in Steps : Update(d))
Spec == Init /\ [][Next]_vars
FairSpec == Spec /\ Fairness
-----------------------------------------------------------------------------
TimerFields ==
  [target : Targets \cup {None}, key : Keys \cup {None}, interval : Nat,
   repeat : Nat, forever : BOOLEAN, delay : Nat, useDelay : BOOLEAN,
   elapsed : Int, executed : Nat]

\* Every variable has its type; timerIndex never falls below the -1 that the
\* next increment makes 0.
TypeOK ==
  /\ order \in Seq(Targets) /\ paused \in [Targets -> BOOLEAN]
  /\ timers \in [Targets -> Seq(Timers)]
  /\ timer \in [Timers -> TimerFields] /\ refs \in [Timers -> 0..2]
  /\ at \in {"idle", "targets", "timers", "delay", "loop", "after",
             "functions", "perform", "function"}
  /\ iter \in Targets \cup {None} /\ index \in -1..Cardinality(Timers)
  /\ cur \in Timers \cup {None}
  /\ curSalvaged \in BOOLEAN /\ targetSalvaged \in BOOLEAN
  /\ dt \in Steps \cup {0} /\ span \in Nat /\ calls \in 0..MaxCalls
  /\ functions \in Seq(1..MaxPosts) /\ temp \in Seq(1..MaxPosts)
  /\ racing \in BOOLEAN /\ posted \in 0..MaxPosts
  /\ performed \subseteq 1..posted /\ removed \subseteq 1..posted
  /\ due \subseteq Timers /\ ticked \subseteq Timers

\* The references of a timer are its place in one list and the hold of update
\* on the salvaged current timer, so the timer that update is in is never
\* freed under it and none leaks.
Counted ==
  /\ TypeOK
  /\ \A x \in Timers :
       refs[x] = Cardinality({t \in Targets : x \in ToSet(timers[t])})
                 + (IF cur = x /\ curSalvaged THEN 1 ELSE 0)
  /\ cur # None => refs[cur] > 0

\* The entry in which update stands is in the table as long as it stands
\* there, whatever the callbacks unschedule; and no other target stays in the
\* table without timers.
WalkValid ==
  /\ iter # None => Known(iter)
  /\ \A t \in ToSet(order) : timers[t] = <<>> => t = Current /\ targetSalvaged

\* When update leaves a target, each timer that was there when the frame began
\* and is still there has been updated, whatever callbacks added or removed.
TargetComplete ==
  at = "timers" /\ ~MoreTimers => due \cap ToSet(timers[iter]) = {}

\* No timer is updated twice while update is in its target.
TickedOnce == [][Tick => cur' \notin ticked]_vars

\* "repeat let the action be repeated repeat + 1 times": never more often.
RunsAtMost == \A x \in Timers : ~timer[x].forever =>
                timer[x].executed <= timer[x].repeat + 1

\* Every function posted is waiting, or was performed, or was removed; those that
\* wait do so in the order in which they were posted, behind all that were
\* performed.
NoneLost ==
  LET waiting == temp \o functions IN
  /\ performed \cup removed \cup ToSet(waiting) = 1..posted
  /\ \A i, j \in DOMAIN waiting : i < j => waiting[i] < waiting[j]
  /\ \A n \in performed, k \in ToSet(waiting) : n < k

\* A function that is posted is performed or removed some day.
Performed ==
  \A n \in 1..MaxPosts : n \in ToSet(functions) ~> n \in performed \cup removed

\* "If interval is 0, it will be called every frame": at the end of a frame
\* every timer that was due has been updated.
FrameComplete == at = "functions" => due = {}

\* Only the timer that has run repeat + 1 times is cancelled for that.
CancelsItself ==
  [][(DelayDone \/ LoopDone) =>
       ToSet(timers[iter]) \ ToSet(timers'[iter]) \subseteq {cur}]_vars
=============================================================================

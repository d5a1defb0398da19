----------------------------- MODULE Downloader -----------------------------
(***************************************************************************)
(* DownloaderApple over NSURLSession: the queue that holds tasks back, the   *)
(* delayed creation of a download that was under way when the process ended, *)
(* abort, the reports to the owner and the destruction.                    *)
(*                                                                         *)
(* Every step runs on the main thread, but the session's messages and the    *)
(* owner's calls come in any order, and the owner may call from inside a    *)
(* report: "at" says in which.  What is downloaded is left out.            *)
(***************************************************************************)
EXTENDS Integers, Sequences, FiniteSets, SequencesExt

CONSTANTS
  Urls,
  MaxProcessing,  \* countOfMaxProcessingTasks
  MaxTasks        \* bound: tasks ever created

ASSUME DownloaderAssumption ==
  MaxProcessing \in Nat \ {0} /\ MaxTasks \in Nat

VARIABLES
  up,      \* _outer is set
  tasks,   \* all tasks so far
  queue,   \* _taskQueue: Nil for a task started at once, or a task that waits
  timers,  \* delayed creations in the Scheduler: url -> task, or Nil
  mark,    \* resumeData.plist: the url it marks, if any
  at       \* the report that is being made to the owner

vars == <<up, tasks, queue, timers, mark, at>>

Nil == 0
Kinds == {"data", "file"}
Ids == DOMAIN tasks

\* st: "delayed" until its timer fires, "waiting" and "running" in the session,
\* "stored" and "refused" after didFinishDownloadingToURL, "cancelled" before it
\* was ever started, "over".  told and ok: how many ends the owner has heard of,
\* and whether the last was a success.  For the properties only: held says that
\* it was aborted in the queue, spoilt that its completion bore an error after
\* its file was stored.
NewTask(kind, u) ==
  [kind |-> kind, url |-> u, st |-> "delayed", told |-> 0, ok |-> FALSE,
   held |-> FALSE, spoilt |-> FALSE]

Init ==
  /\ up = TRUE /\ tasks = <<>> /\ queue = <<>>
  /\ timers = [u \in Urls |-> Nil]
  /\ mark \in {{u} : u \in Urls} \cup {{}}    \* left by the former process
  /\ at = "loop"
-----------------------------------------------------------------------------
RoomForOneLess == Len(queue) + 1 < MaxProcessing
Room == Len(queue) < MaxProcessing

\* The end of createDataTask and createDownloadTask.
Made(ts, t) ==
  IF Room
    THEN /\ tasks' = [ts EXCEPT ![t].st = "running"]
         /\ queue' = Append(queue, Nil)
    ELSE /\ tasks' = [ts EXCEPT ![t].st = "waiting"]
         /\ queue' = Append(queue, t)

\* createCoTask.  A download that is marked is created by a timer of the
\* Scheduler under its url; if there is one already, the former stands and this
\* one never comes to be.
Create(kind, u) ==
  /\ up /\ Len(tasks) < MaxTasks
  /\ LET ts == Append(tasks, NewTask(kind, u))
         t == Len(ts)
     IN
     IF kind = "file" /\ u \in mark
       THEN /\ tasks' = ts
            /\ timers' = [timers EXCEPT ![u] = IF @ = Nil THEN t ELSE @]
            /\ UNCHANGED <<queue, mark>>
       ELSE /\ Made(ts, t)
            /\ mark' = IF kind = "file" THEN {u} ELSE mark
            /\ UNCHANGED timers
  /\ UNCHANGED <<up, at>>

TimerFires(u) ==
  /\ up /\ at = "loop" /\ timers[u] # Nil
  /\ Made(tasks, timers[u])
  /\ mark' = {u}
  /\ timers' = [timers EXCEPT ![u] = Nil]
  /\ UNCHANGED <<up, at>>

\* abort, which looks the task up among those the session has.  The cancel is a
\* request to the session: one that is held in the queue ends without having run;
\* one that was started may still finish or fail, as it might have before; one
\* that is delayed is not found, and downloads all the same.
Cancelled(o) ==
  IF o.st = "waiting" THEN [o EXCEPT !.st = "cancelled", !.held = TRUE] ELSE o
Abort(t) ==
  /\ up
  /\ tasks' = [tasks EXCEPT ![t] = Cancelled(@)]
  /\ UNCHANGED <<up, queue, timers, mark, at>>
-----------------------------------------------------------------------------
Told(o, ok) == [o EXCEPT !.told = @ + 1, !.ok = ok]

\* didFinishDownloadingToURL: a bad status is left to the completion; else the
\* file is copied, the outcome is reported, and the marks are wiped.
Finished(o, status) ==
  IF status = "bad" THEN [o EXCEPT !.st = "refused"]
                    ELSE [Told(o, status = "copied") EXCEPT !.st = "stored"]
Finish(t, status) ==
  /\ at = "loop"
  /\ tasks[t].st = "running" /\ tasks[t].kind = "file"
  /\ IF up
       THEN /\ tasks' = [tasks EXCEPT ![t] = Finished(@, status)]
            /\ at' = IF status = "bad" THEN "loop" ELSE "finish"
       ELSE UNCHANGED <<tasks, at>>
  /\ UNCHANGED <<up, queue, timers, mark>>

FinishReturns ==
  /\ at = "finish"
  /\ at' = "loop" /\ mark' = {}
  /\ UNCHANGED <<up, tasks, queue, timers>>

CompletedAlways(o, error) ==
  IF up THEN [Told(o, ~error) EXCEPT !.st = "over"] ELSE [o EXCEPT !.st = "over"]
\* didCompleteWithError.  Any error is reported, also of a file whose storage has
\* been; without one a data task is a success, and a file was reported when it
\* was stored unless its status was bad.
Completed(o, error) ==
  IF up /\ (error \/ o.st # "stored")
    THEN [Told(o, ~error /\ o.kind = "data") EXCEPT !.st = "over"]
    ELSE [o EXCEPT !.st = "over"]

\* What the session may say: a task that never ran was cancelled, and a file is
\* complete without an error only after didFinishDownloadingToURL.
Errors(o) ==
  IF o.st = "cancelled" \/ (o.st = "running" /\ o.kind = "file") THEN {TRUE}
                                                                ELSE BOOLEAN
Complete(t, error) ==
  /\ at = "loop"
  /\ tasks[t].st \in {"running", "stored", "refused", "cancelled"}
  /\ error \in Errors(tasks[t])
  /\ LET spoilt == tasks[t].st = "stored" /\ error IN
     tasks' = [tasks EXCEPT ![t] = [Completed(@, error) EXCEPT !.spoilt = spoilt]]
  /\ at' = "complete"
  /\ UNCHANGED <<up, queue, timers, mark>>

\* Its tail: the placeholders at the head go, and the first task that waits is
\* resumed (a task that was cancelled meanwhile is not) and goes as well.
Resumed(t) ==
  [i \in Ids |-> IF i = t /\ tasks[i].st = "waiting"
                   THEN [tasks[i] EXCEPT !.st = "running"] ELSE tasks[i]]
NilsKept(s) == s
WithoutNils(s) ==
  LET held == {i \in DOMAIN s : s[i] # Nil} IN
  IF held = {} THEN <<>> ELSE SubSeq(s, Min(held), Len(s))
CompleteReturns ==
  /\ at = "complete"
  /\ at' = "loop"
  /\ LET rest == WithoutNils(queue) IN
     IF rest # <<>>
       THEN queue' = Tail(rest) /\ tasks' = Resumed(Head(rest))
       ELSE queue' = <<>> /\ UNCHANGED tasks
  /\ UNCHANGED <<up, timers, mark>>

\* doDestroy, never from a report.  The timers stay in the Scheduler; one that
\* fires later uses an object that is gone (not modelled).
Destroy ==
  /\ up /\ at = "loop"
  /\ up' = FALSE /\ queue' = <<>>
  /\ tasks' = [t \in Ids |-> IF tasks[t].st = "waiting"
                               THEN [tasks[t] EXCEPT !.st = "cancelled"]
                               ELSE tasks[t]]
  /\ UNCHANGED <<timers, mark, at>>
-----------------------------------------------------------------------------
SessionStep(t) ==
  \/ \E status \in {"bad", "copied", "uncopied"} : Finish(t, status)
  \/ \E error \in BOOLEAN : Complete(t, error)

Next ==
  \/ \E kind \in Kinds, u \in Urls : Create(kind, u)
  \/ \E u \in Urls : TimerFires(u)
  \/ \E t \in Ids : Abort(t)
  \/ \E t \in Ids : SessionStep(t)
  \/ FinishReturns \/ CompleteReturns \/ Destroy

Spec == Init /\ [][Next]_vars
\* Every request ends at last (timeoutInSeconds), reports return, timers fire.
FairSpec ==
  /\ Spec
  /\ \A t \in 1..MaxTasks : WF_vars(t \in Ids /\ SessionStep(t))
  /\ WF_vars(FinishReturns) /\ WF_vars(CompleteReturns)
  /\ \A u \in Urls : WF_vars(TimerFires(u))
-----------------------------------------------------------------------------
Queued == Range(queue) \ {Nil}
\* The tasks whose completion is still to come, or has just come.
UnderWay ==
  {t \in Ids : tasks[t].st \in {"running", "stored", "refused", "cancelled"}}
Ends == Cardinality(UnderWay) + (IF at = "complete" THEN 1 ELSE 0)
Spent == {t \in Queued : tasks[t].st # "waiting"}
\* A task that was created while another creation of its url was delayed.
Lost(t) == tasks[t].st = "delayed" /\ t \notin Range(timers)

\* Type invariant; the queue never holds a task twice, and the ones that wait
\* are those of the queue that were not cancelled.
TypeOK ==
  /\ up \in BOOLEAN /\ at \in {"loop", "finish", "complete"}
  /\ tasks \in Seq([kind : Kinds, url : Urls, told : 0..2, ok : BOOLEAN,
       st : {"delayed", "waiting", "running", "stored", "refused", "cancelled",
             "over"},
       held : BOOLEAN, spoilt : BOOLEAN])
  /\ queue \in Seq({Nil} \cup Ids)
  /\ \A t \in Ids : tasks[t].st = "waiting" => t \in Queued
  /\ timers \in [Urls -> {Nil} \cup Ids]
  /\ mark \subseteq Urls

\* What the owner hears of the end of a task, though several messages of the
\* session may tell of it and an abort stops none that is on its way: something,
\* when it is over and the downloader stands; a success only as the first report;
\* a second report only where a file was stored and its completion then bore an
\* error, and it says failure; no success, and no second report, of a task that
\* was aborted while the queue held it.
EndsAreTold ==
  /\ TypeOK
  /\ \A t \in Ids :
       /\ up /\ tasks[t].st = "over" => tasks[t].told >= 1
       /\ tasks[t].told = 2 => tasks[t].spoilt /\ ~tasks[t].ok
       /\ tasks[t].held => ~tasks[t].ok /\ tasks[t].told <= 1

\* A task is held back only while MaxProcessing tasks are under way: each end
\* starts one, and one that was cancelled in the queue has paid with its own
\* end for the place it takes.  (Not the converse: the placeholders that go at
\* an end are all at the head, so more than MaxProcessing may be under way.)
HeldForReason ==
  Queued # {} => Ends >= MaxProcessing + Cardinality(Spent)

\* Every task that was not lost is reported, unless the downloader goes.
Answered ==
  \A t \in 1..MaxTasks :
    (t \in Ids /\ ~Lost(t)) ~> (~up \/ (t \in Ids /\ tasks[t].told > 0))
=============================================================================

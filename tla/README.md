# SpeedMan: a verification development

SpeedMan is an iOS game: a Cocos Creator 3 engine in C++ (`native/`) that runs the
compiled game, embedded in an application in Swift and Objective-C (`swift/`) that signs
the player in, shows video ads and talks to the game over a bridge of named events. This directory holds TLA+ models of the parts where the order of steps
decides whether the program is right, the configurations that check them with TLC, and
proofs for every value of the constants that TLAPS checks.

`src/` below means the repository; paths without it are relative to it.

## The system

| component | state | operations | behaviours that are hard |
| --- | --- | --- | --- |
| message queue (`native/cocos/base/threading/MessageQueue`) | chunks with linked messages, writer and reader cursors, modes | allocate, submit, kick, kick and wait, finish, terminate, run, free by user | two threads without a lock on the data, a lost wakeup, memory reused while it is read |
| device agent (`native/cocos/renderer/gfx-agent`) | frame index, frame semaphore, staging buffers, one queue per command buffer | acquire, present, flush commands | the producer runs a frame ahead; parallel recording shares the chunk allocator |
| scheduler (`native/cocos/base/Scheduler`) | timers by target, the walk of update, posted functions | schedule, unschedule, pause, resume, update, perform | re-entrant changes during iteration; posting from other threads |
| thread pools (`native/cocos/base/ThreadPool`, `AsyncTaskPool`, `threading/ThreadPool`) | task queues, idle and total counts | push task, grow, shrink, stop | tasks against destruction, counting idle threads |
| HTTP client (`native/cocos/network/HttpClient-apple.mm`, XHR binding) | request queue, thread count, response queue | send, send immediate, dispatch, destroy | answers after destruction, timeout against answer |
| downloader (`native/cocos/network/Downloader-apple`) | tasks in progress, waiting tasks with placeholders | create, abort, resume, complete | concurrency limit, aborts before creation |
| asset manager (`native/extensions/assets-manager`) | manifests, update state, download units, temporary storage | check, update, unzip, merge | restart in the middle, one asset failing, decompression on another thread |
| audio (`native/cocos/audio`) | caches, players, finish callbacks | preload, play, stop, uncache, update | loading on a thread against destruction |
| ads (`swift/Main/Ads`) | ad objects by slot, default flags, HUDs, click count | request, load, display, reward, close, click | callbacks of three SDKs in any order, fallback to a default |
| session (`swift/Main/Controller`, `swift/Main/DialogView`, `swift/UserManager`, `swift/NetWork`) | token, user, login flag, launch controllers, dialogs, splash screens, pending notice | launch, device login, user info, sign in, bind, log out, retry | replies that nobody waits for any more; stacked controllers |
| bridge (`swift/CocosHelper`) | event names, callbacks to script | send, dispatch | thread changes |

The game thread runs everything the engine does; it talks to the device thread
through the message queue, to other threads through the scheduler's posted functions
and their own queues, and to the application on the main thread through the bridge.
The application's state is only touched on the main thread, so that a step there is one
callback; what can go wrong is their order.

`PROJECT.json` lists all components with the reason for what is not modelled, and every
hazard with its line and the properties that cover it.

## What makes a component correct

| component | properties |
| --- | --- |
| message queue | messages run once, in order, only when published; no lost wakeup; no read of recycled memory; waits end, and end only when everything ran |
| scheduler | no timer or entry is freed under the walk (`Counted`, `WalkValid`); none is skipped, updated twice or run too often (`TargetComplete`, `TickedOnce`, `RunsAtMost`); posted functions run once, in order (`NoneLost`, `Performed`) |
| ads | a fallback does not chain; a HUD means work in flight; a paid request tells nothing more; every slot is released |
| session | token, user and flag belong to one account; a launch screen, a dialog or a notice does not outlive its launch; a launch settles |
| HTTP client | a request hears of its end once, from its own answer, its timeout or an abort; answers of the queue keep its order; nothing that has started works on a deleted client; an object lives as long as something is awaited |
| downloader | the end of a task is told once; none waits while there is room; every task that is not lost is told of |
| asset manager | the stored manifest only lists assets that are in place; the count that ends an update is right; what a restart resumes is whole; a call ends |
| frame loop | the game is at most `MAX_CPU_FRAME_AHEAD` frames ahead; staging memory and chunks are not reused under a reader; every frame is shown |

No model covers the older thread pool and the audio engine; the task pool appears as the
thread that unpacks for the asset manager.

## The modules at a glance

| module | models | composes | proofs |
| --- | --- | --- | --- |
| `OrderedDelivery` | what a queue between two threads promises | | |
| `MessageQueue` | the queue, down to links, addresses and chunks | implements `OrderedDelivery` | `MessageQueueProofs`: all safety properties, and that it implements `OrderedDelivery`, safety |
| `Ads` | video ads on request of the game | the request layer, three SDKs | `AdsProofs`: all safety properties |
| `Session` | launch, sign-in, log-out | controllers, dialogs, network layer, bridge | `SessionProofs`: all safety properties |
| `Scheduler` | timers and posted functions | callers in callbacks, other threads | `SchedulerProofs`: all safety properties |
| `AssetsManager` | the hot update down to the files on disk | downloader, unpacking task, restarts | `AssetsManagerProofs`: all safety properties |
| `HttpClient` | requests of the scripts | script objects, pool, network thread, scheduler, engine's end | `HttpClientProofs`: all safety properties |
| `Downloader` | downloads over NSURLSession | session, timers, the owner's calls from reports | `DownloaderProofs`: all safety properties |
| `FrameLoop` | a frame on both threads | several queues as `MessageQueue` shows them, shared chunk stash, staging memory, frame semaphore | `FrameLoopProofs`: all safety properties |

Each `MC` module gives one component its small instance. Runs stay at the smallest instance in
which the hazard occurs, below three minutes each.

What could follow: `InstalledComplete` as the refinement
of an atomic update; the pool of the audio engine and the older thread pool.

## The modules

### MessageQueue: the queue between the game thread and the device thread

`MessageQueue.tla` models `native/cocos/base/threading/MessageQueue.{h,cpp}` as
`gfx::DeviceAgent` uses it: one producer (the game thread), one consumer thread
that `setMultithreaded` starts and joins.

State. `log` holds every message ever allocated with its address and its `next`
link; an address is a chunk number and an offset in units, and every message or
piece of submitted data takes one unit. `wchunk, offset, pending, written` are
`_writer`; `pos, snap, newCount, terminate, flushed` are `_reader`; `immediate`
and `attached` are `_immediateMode` and `_workerAttached`. `recycled` is the
allocator's `_chunkFreeQueue`, `freed` what went on to the pool. `ppc` and `cpc`
are where the two threads stand. `done` is a history variable.

Actions. Every call of the public interface is an action of the producer; a
call that takes the lock or waits on a semaphore is split where the other thread
can be seen to interfere: the atomic add that publishes, the notify under the
mutex, the return from the wait. The consumer's `readMessage` is split into the
pull under the lock, the unlock or the atomic release-and-sleep, the wakeup, and
the step into the next message. A chunk switch inside `allocateImpl` is part of
the call that allocates.

Properties.

| property | what it says |
| --- | --- |
| `LinkedInOrder` | links lead through all messages in allocation order, across submitted data and chunk switches |
| `NoLostWakeup` | the unlocked publish followed by the locked notify loses no wakeup |
| `NoReadAfterFree` | `freeByUser` frees no chunk the reader still has a message in |
| `WaitDrains` | `kickAndWait` and `terminateConsumerThread` come back only when everything written ran |
| `ImplementsDelivery` | the queue implements `OrderedDelivery`, safety and liveness: what is published is executed |
| `CallsReturn` | blocking calls return |

Stated and proved without being checked by the run, since others imply them or rest on them: `TypeOK`;
`OnlyPublishedRead`, what the reader counts as new was published by `pushMessages`;
`ExecutedInOrder`, messages run once each and in order, also when immediate and threaded
phases alternate (the refinement checks the like); `ImmediateInStep`, the assertion of the inline chunk switch
(`_reader.newMessageCount == 2`).

Bounds. One run, `message_queue`: chunks of four units, so that a chunk holds its dummy
head, two messages or data and the switch out of it, and six messages, so that two
switches, a phase in immediate mode and a restart of the thread fit; it checks safety,
liveness and the refinement together.

Fairness. Both threads are weakly fair. `Notify` is strongly fair: the condition
variable may wake up without a reason any number of times and the consumer takes
the mutex each time, so a notify would otherwise be starved forever by spurious
wakeups, which the operating system's scheduling excludes. No call of the game is
assumed to happen.

Proofs. `MessageQueueProofs.tla` proves all the safety properties above for every
chunk size of at least three units and every number of messages. None of them is
inductive: the order of execution depends on the links, the links on the
addresses, the reuse of chunks on the reader's address, the drained state at the
end of a wait on which message signals. `IInv` states the nine parts together.

`QueueDelivers` proves the refinement without its fairness: `Spec => Delivery!Safety`. What a client sees is a
function of three numbers, how far the log goes, is published and is executed (`Mapped`); `OwnMessage` and `InternalMessage` say how
it grows when one of them grows by a message, `AllocateSends` and `PlaceDataUnseen` what allocation does to it, and one lemma per
kind of step maps it to a step of `OrderedDelivery` or to none. A client's messages are selected by rank (`Ranked`) and not with
`SelectSeq`, which is recursive. A wait that returns needs `Signalling` of the invariant, an inline chunk switch `Immediate`.

The chunk needs three units because a switch message, a dummy head and the message
asked for must fit; the code asserts the like through the chunk size of 64 KiB.
### Ads: video ads on request of the game

`Ads.tla` models `swift/Main/Ads`. A step is one callback on the main thread.
`ad[slot]` is the object `AdCacheTool.tmpDic` holds for a slot: where it is
(`loading`, `loaded` but never displayed, `showing`, `failed` to be presented and
kept), the scene that asked, `isReward`, and three histories: whether the SDK
reported the reward of this display (`earned`), how many default loads led to
this object (`depth`), and whether it serves the request `watch` follows
(`watched`). `watch` is a history of one served request, chosen freely among all of
them: whether one is followed, and whether the game was paid for it. `isLoadDefault` is the flag of each format in
`NSUserDefaults`; it survives `Restart`. `fetching`, `tipHuds` and `loadHud` are the
requests in flight and the two kinds of blocking HUD; `answer` is what the step
told the game.

An ad network is a value of `Platform`, the kind of video a value of `Format`; the
differences between the six platform classes are the operators `AsksSdk`
(`GoogleFullScreenVideo` is empty), `ShowsWhenLoaded` (`CSJRewardVideo` keeps what it
loads and nothing calls `showAdType`), `Pays` (Google pays on dismissal) and the
branches of `LoadSuccess` and `ShowError`. The default reward video has no `sId` and throws when it
is displayed; the model ends in the state `crashed`. The SDKs may call back in any order that
respects load, display, close. `isReady` is taken to be true directly after the
load callback, as AppLovin documents.

| run | what it asks |
| --- | --- |
| `ads` | `DefaultLoadedOnce`: a failing default never loads a default, although the flag that prevents it is toggled by every failure of any slot. `HudMeansWork`: no HUD without work in flight. `PaidOnce`: once a request was paid, neither its failed ad, nor the default that took its place, nor the ad shown tells anything more |
| `ads_live` | `SlotReleased`, `HudReleased`: under fair callbacks every ad leaves the cache, and the loading HUD goes away, except in the states `KeptForever` names |

The three cases of `KeptForever` (a Google full-screen slot that asks no SDK, a CSJ
reward ad that is only kept, a Google ad that failed to be presented) do strand their slot in
the code: a request for it is swallowed until the process restarts, and no property
forbids it. Nor does any property say that work in flight keeps its HUD: a
reply takes every HUD of the window down, and so does the model.

Two more configurations stand beside the runs and end in a counterexample. `RewardOnlyEarned`,
the comment of `BaseRewardVideo.m:152` (a video played to the end may be rewarded), fails
with a Google slot for the reward, because a dismissed video pays
(`tlc -config MCAdsGoogle.cfg MCAds`); with the other networks it would only restate the
guard of `closeVideo`, so no run checks it. `FailureLoadsDefault` fails, because a failure skips the
default when the last one used it (`tlc -config MCAdsDefault.cfg MCAds`).

Bounds. Five slots: the two defaults of the code and up to three of the server's;
one request in flight per scene; a click limit of two or three instead of ten.
Failures of two slots of one format and of the default are enough to reach every
toggle of the flag; every ad network and format occurs in a run.

Fairness. The server's reply, the end of a load an SDK was asked for, and the end of
a display happen. The first is the timeout of the network layer, the second the
contract of the SDKs, the third is the user.

Proofs (`AdsProofs.tla`). `FallbacksDoNotChain` rests on the invariant that an object
reached by a default load lies in the default slot of its own format and has depth
one: while it fails it is still cached, so that loading the default does nothing.
This is where the order of `loadDefaultAd` and `removeCache` matters.

`RequestsArePaidOnce` rests on the invariant `OneServes`: at most one cached ad
serves the watched request, and only until it is paid. A fallback keeps it because the
failed ad leaves the cache in the same step that hands its request to the default.
### Session: launch, sign-in and log-out

`Session.tla` models `LaunchViewController`, its dialogs, `UserManager`, the outcomes
of `NetManager.requestObj` and the calls with which the game comes back here. A step
is one callback on the main thread. `calls` is the set of requests in flight, each
with the controller or the dialog whose closure waits for it: nothing cancels them
(`Single.create` returns an empty disposable in `UserManager`). An account stands for
its token and for its user record. `userToken` and `loginStatus` are in
`UserDefaults` and survive `Restart`; the rest is memory. `splash[i]` is the launch
screen of controller `i`, a subview of the window, not of the controller, which is why
it can outlive it. `presented` is the launch controller over the game, `CurrentVC`
what `CocosHelper.getCurrentVC` returns.

The player may tap at any time that nothing in the code prevents. While `oauthLoginUser`
is at work its HUD takes every tap (`NoHud`). Nothing holds up a second tap on OK of
`DeleteAccountTip4` while the recovery is asked for, nor a tap on a provider or on the
close button of `LoginView` while the SDK exchanges its tokens. Each such tap begins a second chain of
requests for the launch, and `twice` remembers the launch (and, when a late chain opens
a `LoginView` that reports to another controller, that controller).

The game is compiled script. It is taken to call `hideSplashView` once after it
starts and after each event (`loading`), `loginOut` at any time, `setLanguageChange`
from a button, so only when nothing covers it.

| run | what it asks |
| --- | --- |
| `session` | `NoticeDelivered`; `SplashRemoved` and `NoStrayDialog` for every launch not in `twice`; `OneAccount` as long as `twice` is empty |
| `session_live` | `LaunchSettles`: a launch ends in the game, in an error that can be tapped, or in a dialog, for launches with two chains too |

A configuration beside the runs shows `RetryInReach` violated: the error view of a
second launch lies under the launch screen of the first
(`tlc -config MCSessionRetry.cfg MCSession`).

The exceptions are what the code does. The reply to the second recovery puts the launch
screen back over the running game, for good; closing the view while a sign-in is at work
opens the game, and the sign-in then goes on over it, changing the token of the game
that is running. Checked without their exceptions, the three invariants fail on these
sequences. What the invariants say is that the damage stays with that launch: its late replies
neither cover the game for another launch, nor close, open or answer anything of it.

Bounds. Two accounts, so that a reply can belong to the wrong one; three launches over
the game (two for liveness), so that a notice, a launch screen or a dialog left by one
meets the next; two equal requests or sign-ins at a time (`MaxCopies`), as many as a
second tap makes; one tap per process that begins a second chain (`MaxTwice`), whose
replies and retries are then free to come at any time.

Fairness. Every request of a controller is answered, if only by the timeout of the
network layer. Not the player, not the SDKs, not the game.

Proofs (`SessionProofs`). All hold for every player, any accounts and any number of
launches, second chains included. `TypeCorrect` is inductive by itself; the others rest
on `IInv`. Its core, `Single`, says of every launch outside `twice` that it is a single
thread of control: at most one request, one dialog and one sign-in of it exist, and only while it
is the controller on top (`Thread`), and as long as they do its launch screen is shown, so
that no *Retry* underneath can start a second thread (`Lit`). `Links` says that what a
launch with two chains still has in flight reports to launches in `twice` only, and is
what keeps `Single` inductive when such replies come; `Noticed`, that a controller over
the game was presented with an event owed; `Owned`, that a request for the user carries
the token that is stored while `twice` is empty. `OneAccount` and `SplashRemoved` are not inductive
without them: two `userInfo` replies, or a reply to a controller no longer on
top, would break both.
### Scheduler: timers and functions for the game thread

`Scheduler.tla` models `native/cocos/base/Scheduler.{h,cpp}`. `order` is the iteration
order of `_hashForTimers`; `paused` and `timers` are the fields of an entry; `timer[x]`
and `refs[x]` are a timer object and its reference count, zero when it is free. `iter`,
`index`, `cur`, `curSalvaged`, `targetSalvaged`, `span` are where `update` and
`Timer::update` stand. `functions` and `temp` are `_functionsToPerform` and the copy.
`due` records, per frame, the timers still to be updated, `ticked` those updated in the
visit to the current target.

`update` is cut at every point where code of the caller runs: a callback of a timer
(`at` is `delay` or `loop`) and a performed function. There, as between frames, each
call of the interface is an action. Other threads post at any time. Times are in
units; a plan is what `schedule` is asked for.

| run | what it asks |
| --- | --- |
| `scheduler` | `Counted` (with the types), `WalkValid`, `TargetComplete`, `TickedOnce`, `RunsAtMost`: the place in the table, `timerIndex` and the reference taken for the running timer are right whatever a callback removes, replaces or adds |
| `scheduler_functions` | `NoneLost` (with the order), `Performed`: the unlocked look at the vector delays a function but does not lose it |

Two configurations beside the runs end in counterexamples: `FrameComplete`, since the
iterator is advanced twice past a target that emptied itself
(`tlc -config MCSchedulerSkip.cfg MCScheduler`), and `CancelsItself`, since `cancel` goes by
name and removes a replacement (`tlc -config MCSchedulerCancel.cfg MCScheduler`).

Three more behaviours of the model differ from the comments of the header and have no run
of their own: a timer unscheduled by its own callback is called again in a long frame when
another timer keeps its target (`LoopDone` looks at `targetSalvaged` only); a target that a
callback pauses is still called to the end of the frame (`EnterTarget` alone reads
`paused`); functions removed by a function of the same frame are in `temp` already.

Bounds. Three targets, two keys and three timers give a current timer with a timer before
or after it and other targets around it, which a rehash can reorder; a frame of two units
lets an interval of one pass twice and a delay of one with it; `MaxElapsed` only excludes
frames after which a timer lags more than a frame and a delay. One call per callback is
enough to remove, add or replace around the current timer, because a timer that runs for
several intervals calls back several times; `MCSchedulerCancel.cfg` uses two.

What the model leaves to nondeterminism: the order of the hash table after an insertion, and
the outcome of the data race on the vector's emptiness, which may hide what another
thread posted in this frame. Iterators after a rehash follow the links of the nodes, as
the standard libraries in use do, although the standard does not promise it.

Fairness. The run loop calls `Engine::tick` for ever and callbacks return. Nobody is
assumed to call the interface. The run with liveness has a single one-shot timer, so
that the bound on lagging never keeps a frame from starting.

Proofs (`SchedulerProofs`), for any targets, keys, timers, plans, lengths of frames and number of functions, and
any number of calls in a callback. Two inductive invariants, since functions and timers do not touch each other.

`IInv` gives `NoneLost`: it speaks of the vector and of update's copy of it apart (`Placed`, `InOrder`) and adds that the copy
is empty unless update works through it (`CopyInUse`): without that, `Collect` could overwrite functions.

`TInv` gives the five properties of the timers. `References`: a timer's count is one for its list and one for update's
hold, which is what `unschedule` takes when the timer is the current one. `CurrentTimer`: while it is updated, the current
timer stands behind `timerIndex` or is salvaged, never both. `Lists`: names are unique in a list and no timer is in two,
without which `cancel`, which goes by name, would leave a timer that is spent where it runs again. `Index`: whatever stands
in the list up to where update has come is not due any more, whatever was updated in this visit stands there or is out of the
list; so none is skipped and none is updated twice. `Table`: only the entry in which update stands may be empty, and only if
it is salvaged. `Times`: what `elapsed` and `timesExecuted` can be at each place of `Timer::update`.
`Without`, the list that `unschedule` leaves, and `Releasing` are written without `SelectSeq`, of which nothing can be proved
for every list.
### AssetsManager: the hot update of the game's assets

`AssetsManager.tla` models `native/extensions/assets-manager/AssetsManagerEx.cpp` and
the manifests it keeps (`Manifest.cpp`), down to the files on disk. A version of the
assets is a number; `Content[v][a]` is the version that changed asset `a` last as `v` has
it. `stored` and `temp` are the storage and the temporary directory, `cached` and
`tempFile` the manifests in them; these four survive a restart. `local`, `remote` and `tm`
are the three manifests in memory; `shared` says that the last two are one object,
as `prepareUpdate` leaves them. `units, queue, flight, unzipping, failed, wait,
concurrent` are the download; `merge` is how far `updateSucceed` is.

A step is a call of the game, a callback of the downloader or of the task pool that
unpacks archives, or one rename of the merge: the process can die between any two of
them (`Restart`), and come back from a newer package of the app. `PrepareUpdate`,
`QueueDownload` and `BatchDownload` are the routines the callbacks share; each callback
runs them to their end.

| run | what it asks |
| --- | --- |
| `assets` | `InstalledComplete`: outside a merge the game finds every asset of its version with the right content, although updates are resumed, retried and interrupted. `CountsUnits`: the count that ends an update is the number of units still out, and none is out when the manifests go away. `ResumeIsSafe`: what a later process will not download again is whole. `NoDowngrade`; `Answered`: every accepted call ends, except the two `DoesNothing` names |
| `assets_recheck` | `CorrectlyDownloaded` is violated: a check after a failed update, in the same process, ends in a merge without the files that failed |

Findings. `Manifest::clear` leaves `_updating` set, and after the first update attempt the
remote and the temporary manifest are one object. A second `checkUpdate` therefore reads the
manifest anew, takes it for one to resume, finds nothing unfinished in it and goes on to
`updateSucceed`: `CorrectlyDownloaded`, which states the comment of `updateSucceed`, is violated. The
history `again` records such a call; `InstalledComplete` and `ResumeIsSafe` are about the behaviours before it,
the other properties about all. The run `assets` stops short of the call for its size (`Recheck = FALSE`): with
`Recheck = TRUE` the same configuration passes as well, with 1.2 million states in five minutes, and the proofs make no assumption on it.

Behaviours of the model that no property forbids: an `update` after a failed one does
nothing once the remote manifest is loaded, and refuses all later calls, as does a second
check when the update is ready (`DoesNothing`); a death inside the merge can leave the new
manifest over old assets, and no later check repairs it (`torn`); an update without any
difference reports its end and then, with the manifests gone, a new version.

`downloadFailedAssets` is called with failed units after `UPDATE_FAILED` only, the use its name and its event suggest; `updateAssets` itself
accepts any state but `UPDATING`, and with no failed units it goes on to a merge at once. Such calls are left out.

Bounds. Three assets, one of them an archive, over four versions that change, add, delete
and keep assets and take one back to what it was; packages of the first and the third, so that the one on the device can be newer
than what was downloaded; one or two units at a time.

Fairness. A download and an unpacking end (`Completions`); the game and the user owe
nothing.

Proofs (`AssetsManagerProofs`), for any assets, versions, packages and limit on the tasks. `IInv` gives `CountsUnits` and
`NoDowngrade` in every behaviour: `Counting` says that the units waited for are the disjoint union of
those queued, in flight and in unpacking, with the two counters as their sizes; `Versioning` which version is in which manifest.
`FInv` holds until a process checks anew after its update failed (`again`) and gives `ResumeIsSafe` and `InstalledComplete`.
Neither property is inductive: what the game finds after a merge depends on what the merge was given (`Merging`), that on what
the manifest in memory says of the temporary files (`Manifests`), that after a restart on the manifest file, which is saved less
often and may be behind the one in memory (`Behind`), and on which units are left (`Unfinished`).

`InstalledComplete` is about the steady assets, and would be wrong about the others. Let `a` be 1 in version 1, 2 in versions 2 and 3,
and 1 again in version 4, with packages of the app at 1 and 3. An update from 1 to 4
finds no difference in `a` and leaves it to the package. The app is then replaced by the one of version 3; the
stored version 4 is newer and kept, and the game runs version 4 with the `a` of version 3. `Steady` leaves out
exactly this: an asset for which a package lacks what a version before it and one after it share. Nothing is left out with
one package of the app (`OnePackageIsSteady`), whatever the versions return to; in the run every asset is steady, also the one that
returns to what it was.
### HttpClient: requests of the scripts

`HttpClient.tla` composes `XMLHttpRequest` (`bindings/manual/jsb_xmlhttprequest.cpp`) on the
cocos thread, the pool threads of `sendImmediate`, the network thread of `send`
(`network/HttpClient-apple.mm`), the functions they post to the scheduler, and the part of
`Engine::destroy` that takes the client down while those threads run. `xhr[x]` holds the
flags of an object, its timer and how often it is rooted; `waiting`, `running`, `ending`
are the jobs of the pool by how far they are; `requests` and `responses` the queues of the
network thread, `posted` what the cocos thread has still to perform. `opens`, `ends`,
`misused`, `cut`, `early`, `tangled` and `stale` are histories.

The script hears of what happens in callbacks, and may call the object from there. `abort`,
the timer's function and `onResponse` therefore stop at their callbacks: `in` names the
handler that is in them, the script may open, send or abort the object meanwhile, and
`Return` does what the handler does afterwards (unroot after `onloadend`; after an abort also
set the state to UNSENT and clear the response callback, the new request's if there is one;
after a timeout cancel the timer by its key, which is the new request's too, and set
`_isTimeout`). While a handler is in its callbacks the cocos thread performs nothing else
(`Idle`). Each handler has one such point, which stands for all of its callbacks; an abort from
inside a callback runs to its end at once, so calls from inside its own callbacks are
followed only when it is the outermost. The restart of the script engine
(`isDiscardedByReset`) is left out.

| run | what it asks |
| --- | --- |
| `http` | `CountsUsers`: the thread count is that of the users, so nothing that has started works on a deleted client and nothing is performed after the engine's end. `AnsweredInOrder`: every answer of the queue has its own dispatch and comes in the order of the requests. `HeardOnce`: one loadend per request, from its own answer, with the named exceptions. `KeptAlive`, `Unrooted`: an object is rooted while something is awaited, and is released in the end, with the named exceptions |

The exceptions are behaviours of the code. `misused`, `cut`: opening or sending an object anew
while the answer to the former request is out delivers that answer to the new request, since
`open` clears `_isTimeout` and `_isAborted`; an abort of what is already over dispatches a
second `loadend`. `early`: `sendRequest` asks only `_isSending` (line 484), not whether the
object is open; the answer to an object sent while it was UNSENT (never opened, or after an
abort or a timeout) is dropped without `onloadend` (line 402), so the root that `onloadstart` took
is never given back. `tangled`: `send` from inside the callbacks of an `abort` has its response
callback cleared when the abort goes on (line 328), hears of nothing and stays rooted; an
`abort` from inside a callback takes the root before the outer handler takes it too. A pool task
counts itself only when it starts, so a client can be deleted under a task that waits in the
pool; what such a task does is undefined and not followed.

Bounds. One object, sent twice, on two threads: an old answer can overtake or follow a new
request; two requests of the queue, so that order means something.

Fairness. Pool and network thread run and requests end, the scheduler is updated, and the
callbacks of the script return. Beyond that the script owes nothing. The engine's end stops everything, so a deadlock is no error.

Proofs (`HttpClientProofs`). `CountsUsers`, `AnsweredInOrder`, `HeardOnce` and `KeptAlive` for
any number of objects, threads, jobs and requests. The inductive invariant has five parts
beside the types: `Apart`, a job is in one place only; `Counts`; `Consecutive`, the answered
requests, the waiting responses and the waiting requests follow each other, the sentinel behind
them; `OneEach`, one posted dispatch per waiting response while the engine is up; `Objective`,
what the flags of an object say of its answers, in three parts. `Rooted`: who is sending has a
root, and a second one while the callbacks of an answer are under way, since their return takes
one. `Properly`: an object that was not misused has one answer out at most, and has not heard
of an end while it listens for one, unless it is in the callbacks of its abort. `Uncut`: without a
timeout, an abort or a premature `send` all answers out are to the present opening. That an
answer heard is the last one out rests on `Apart`.
### Downloader: downloads over NSURLSession

`Downloader.tla` models `DownloaderApple` (`network/DownloaderImpl-apple.mm`) with what
`Downloader.cpp` makes of its reports. `queue` is `_taskQueue`, which holds a placeholder
for a task started at once and the task itself when it must wait; `timers` are the delayed
creations of downloads that the marked file says were under way when a process ended; `mark`
is that file. `at` says from inside which report the owner is calling: `Create` and `Abort`
can come there as well as between messages of the session.

A cancel is a request to the session. Its messages are queued on the main queue (`:230`,
`:245`), so a task that had started when it was aborted may still store its file, fail, or end
without an error, and no handler asks whether it was aborted: `Abort` changes nothing that the
session might not have done anyway, except for a task that the queue holds, which never runs
(`cancelled`). A stored file whose completion bears an error is reported a second time, since
`:460-473` looks only at the error.

| run | what it asks |
| --- | --- |
| `downloader` | `EndsAreTold`: a task that is over was reported; a success is never reported after another report, nor of a task aborted in the queue; a second report only says the failure of a file that had been stored. `HeldForReason`: no task waits while fewer than `countOfMaxProcessingTasks` are under way. `Answered`: every task that was not lost is reported |

Behaviours that no property forbids: a completion drops all placeholders at the head of the
queue, so that more tasks than the maximum can be under way; a second download of a URL
whose creation is delayed never comes to be (`Lost`); an abort misses a delayed task;
timers outlive the downloader and are not followed after that; any finished download wipes the
marks of all; a task that had started when it was aborted may be reported as done. `_taskQueue`
holds its tasks without retaining them (`:322`), and an entry whose task was aborted in the
queue may be resumed (`:525`) after the session let it go (`:519`): the model takes that for
what it is while the task lives, a call without effect, and does not follow the use of freed
memory.

Bounds. Three tasks for two addresses with one place. Two places
hold as well.

Fairness. Every message of the session comes at last (its requests time out), reports return,
timers fire.

Proofs (`DownloaderProofs`). `EndsAreTold` and `HeldForReason` for any number of tasks,
addresses and places. The inductive invariant says what was told of a task in each of its
states (`Reports`), that a timer holds the delayed task of its address (`Delays`), that the
queue holds no task twice and no placeholder beyond the places (`Held`), and that at least as
many messages of ending tasks are still to come as the queue has entries, when all of those
are placeholders (`Enough`): the completion that finds the queue then knows that it may start
the next.
### FrameLoop: the frames of the renderer on both threads

`FrameLoop.tla` models `gfx::DeviceAgent`, `CommandBufferAgent` and `BufferAgent` over
queues that deliver in order what was published, as `MessageQueue` shows of each. `unread[q]`
is what a queue holds, `published` how much of the main queue the device thread may read. The
queues share one stash of used chunks (`stash`, `freed`), the buffer its staging
memory (`slots`, `gen`, `gone`), the two threads the frame semaphore. `flushing` are the
command buffers the device thread reads inside the message of `flushCommands`.

| run | what it asks |
| --- | --- |
| `frame_loop` | `StagedIntact`: a staging slot is not overwritten, nor freed by a resize, before the device thread has read it. `ReaderSafe`: no chunk is freed under a reader, though every queue frees the stash of all. `FramesAhead`: the frame semaphore keeps the game at most `MAX_CPU_FRAME_AHEAD` frames ahead, and what a command buffer recorded runs in its own frame. `Shown`: each frame is shown, the game thread does not wait for ever |

`ReaderSafe` holds because the job system of this build has one thread
(`CC_USE_JOB_SYSTEM_TBB` and `CC_USE_JOB_SYSTEM_TASKFLOW` are 0): the command buffers are
read one after the other. Read together (the mutant `AtWorkTogether`) they
free each other's chunks. `StagedIntact` makes one exception (`late`): a resize goes to the main queue at
once and overtakes an update that a command buffer recorded earlier in the frame and has not
flushed. Two updates of a buffer in a frame share its slot, so both deliver the later data.

Bounds. Two command buffers, two frames, so that a slot is used again; two updates or
resizes; two chunks per queue. The last frame ends the model, so a deadlock is no error.

Fairness. The game thread closes and presents its frames, the device thread reads.

Proofs (`FrameLoopProofs`). `FramesAhead`, `ReaderSafe` and `StagedIntact` for every number of
command buffers and chunks and every `MAX_CPU_FRAME_AHEAD`. None is inductive. The invariant says:
`Ordered`, `Fitting`: frames, staging memory and chunks only grow along a queue, and strictly behind the
message that ends one. `Alternating`: which frames have their `flush`, `finish` and `present` still to be
read, which ties the semaphore to the queues and finds every command buffer closed when its `flush` is
read. `Placed`: a message that is some frames old has the slot so many places back, and the slot is
still its own; that needs the bound of `Alternating`. `Behind`: a chunk in the stash lies behind its
reader, but for the reader at work, and no reader stops at a switch. `Generations`: a resize that an update
of a command buffer precedes comes behind that update's flush.

## What is proved and what is only checked

Proved for every value of the constants, under the named assumptions of the modules:
the types and every safety property that the runs check, of all eight components (`PROJECT.json` lists the theorems). Each proof has the
same shape: an inductive invariant whose parts are named, one lemma per action or per kind of
step for what touches a part, and theorems that read the property off the invariant. The invariants were checked
with TLC before they were proved.

Only model-checked: liveness (`CallsReturn`, `SlotReleased`, `HudReleased`, `LaunchSettles`,
`Performed`, `Unrooted`, `Shown` and the two `Answered`), because the prover handles neither fairness nor `ENABLED`;
so also that part of `ImplementsDelivery`. Its safety part, `OrderedDelivery`'s `Safety`, is the theorem `QueueDelivers`.

The theorems assume of the constants what the modules' `ASSUME`s say, and nothing of how the player, the game's script or the
server behaves. Where the code breaks a property in a named case, the property itself names the case, by a
history variable that records it:

| property | not claimed for |
| --- | --- |
| `OneAccount`, `SplashRemoved`, `NoStrayDialog` | launches with two chains of requests (`twice`), which two taps start |
| `InstalledComplete`, `ResumeIsSafe` | what follows a second check after a failed update in one process (`again`); for the first also a death inside a merge (`torn`) and an asset that is not `Steady` |
| `HeardOnce`, `KeptAlive`, `Unrooted` | an object opened, sent or aborted out of turn (`misused`, `cut`, `early`, `tangled`) |
| `StagedIntact` | what follows a resize between an update recorded in a command buffer and its flush (`late`), for the resize's freeing alone |
| `SlotReleased` | the slots of `KeptForever` |
| `Answered` of the assets and of the downloads | the calls of `DoesNothing`, the tasks of `Lost` |
| `LaunchSettles` | a launch over an earlier launch screen that is left (`EarlierSplash`) |

## Findings

`assets_recheck` expects a violation and shows a disagreement between the code and what its documents say;
`PROJECT.json` quotes both. The configurations beside the runs that are named under `Ads`, `Session`
and `Scheduler` end in counterexamples of the same sort.

## What is not modelled

- The older thread pool (`LegacyThreadPool`): `HttpClient` takes it as a queue served by a fixed number of
  threads, as the client uses it; stretching and stopping, which no code of the app calls, are left out.
- The audio engine: its threads and callbacks wait on flags of each other, but what they read and write between
  is the state of OpenAL sources, for which the sources give no reference.
- Sockets (`WebSocket`, `SocketIO`): one delegates to the system, the other is used by no script of the
  shipped game.
- The application delegate and the helpers of the user interface: forwarding, layout, formatting.
- The scene graph, renderer and physics, which are sequential computations on large state, and most of the
  repository's lines; generated bindings; layout; vendored libraries. The share of the repository's lines that
  the models map is therefore small.
- The compiled script of the game, which appears only as the calls it makes.

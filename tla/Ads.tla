-------------------------------- MODULE Ads --------------------------------
(***************************************************************************)
(* Video ads on request of the game (swift/Main/Ads): AdsSwift.adShow asks *)
(* the server which slot to use, the factory makes one object per slot and *)
(* keeps it in AdCacheTool.tmpDic, the ad SDK calls the object back, and   *)
(* the game is told of success or failure.                                 *)
(*                                                                         *)
(* A step is one callback on the main thread: the game's request, the      *)
(* server's reply, a delegate call of an SDK, or the end of the process.   *)
(* The SDKs decide freely between their callbacks.                         *)
(***************************************************************************)
EXTENDS Naturals

CONSTANTS Slots,        \* ad slots the server may name
          Platform,     \* the ad network of a slot
          Format,       \* "RewardVideo" or "FullScreenVideo"
          Default,      \* the slot loadDefaultAd loads, for each format
          Scenes,       \* places in the game that ask for a video
          ClickLimit,   \* clicks on Google ads until the process exits (10)
          MaxFetching,  \* bound: requests in flight for one scene
          Watching      \* whether the history watch follows a request

Formats == {"RewardVideo", "FullScreenVideo"}
Platforms == {"CSJ", "Google", "AppLovin"}   \* what BaseAdsClass maps adType to

ASSUME CatalogueAssumption ==
  /\ Format \in [Slots -> Formats]
  /\ Default \in [Formats -> Slots]
  /\ \A f \in Formats : Format[Default[f]] = f
ASSUME DefaultPlatformAssumption ==
  Platform[Default["RewardVideo"]] = "AppLovin" /\ Platform[Default["FullScreenVideo"]] = "CSJ"
ASSUME SceneAssumption ==
  "VideoAdId" \in Scenes /\ Scenes \subseteq {"VideoAdId", "VideoAdIdFreePlay"}
ASSUME LimitAssumption == ClickLimit \in Nat \ {0} /\ MaxFetching \in Nat
ASSUME WatchingAssumption == Watching \in BOOLEAN

VARIABLES
  ad,           \* AdCacheTool.tmpDic: the ad object of each slot
  isLoadDefault, \* NSUserDefaults isLoadDefault / isLoadFullDefault: survives the process
  fetching,     \* requests to the server in flight, by scene
  tipHuds,      \* blocking HUDs of adShow on the window
  loadHud,      \* OCProgressHUD's blocking HUD
  clickNumber,  \* AdsSwift.clickNumber
  app,          \* "running", or how the process ended
  answer,       \* what this step told the game, and for which slot; or nothing
  watch         \* history: one served request, any, and whether the game was paid for it

vars == <<ad, isLoadDefault, fetching, tipHuds, loadHud, clickNumber, app, answer, watch>>

\* An ad object: where it is, the scene it was asked for, the reward flag, and
\* three histories: the SDK's reward, how many default loads led to it, and
\* whether it serves the watched request.  Only an ad loaded from a server reply
\* has an sId; loadDefaultAd passes none.
AdObject == [state : {"none", "loading", "loaded", "showing", "failed"},
             scene : Scenes, isReward : BOOLEAN, earned : BOOLEAN, depth : Nat,
             watched : BOOLEAN]

New(scene, depth, watched) ==
  [state |-> "loading", scene |-> scene, isReward |-> FALSE,
   earned |-> FALSE, depth |-> depth, watched |-> watched]

\* The default ad that a failed one loads, for the same request
DefaultFor(obj) == New(obj.scene, obj.depth + 1, obj.watched)

NoAd == [New("VideoAdId", 0, FALSE) EXCEPT !.state = "none"]

Cached(ads, slot) == ads[slot].state # "none"

\* loadAdType, FactoryWithAdPlatfrom, initWithObj: a cached slot is left alone,
\* since isShowFuc is always NO.
InitWithObj(ads, slot, obj) ==
  IF Cached(ads, slot) THEN ads ELSE [ads EXCEPT ![slot] = obj]

NothingTold == <<>>

\* AdsSwift.videoError: only one scene hears of failures.
VideoError(slot) == IF ad[slot].scene = "VideoAdId" THEN <<"Fail", slot>> ELSE NothingTold

-----------------------------------------------------------------------------
(* The request of the game and the server's reply *)

\* getLookVideo, adShow
AdShow(scene) ==
  /\ app = "running" /\ fetching[scene] < MaxFetching
  /\ fetching' = [fetching EXCEPT ![scene] = @ + 1]
  /\ tipHuds' = tipHuds + 1
  /\ answer' = NothingTold
  /\ UNCHANGED <<ad, isLoadDefault, loadHud, clickNumber, app, watch>>

\* Mutant: the HUD stays when the reply comes.
HudStays(scene) ==
  /\ app = "running" /\ fetching[scene] > 0
  /\ fetching' = [fetching EXCEPT ![scene] = @ - 1]
  /\ tipHuds' = tipHuds

\* hiddenProgressTipHUD removes every HUD of the window, OCProgressHUD's too.
Reply(scene) ==
  /\ app = "running" /\ fetching[scene] > 0
  /\ fetching' = [fetching EXCEPT ![scene] = @ - 1]
  /\ tipHuds' = 0

\* An error, no model, or no video left today: the game hears nothing.
FetchedNothing(scene) ==
  /\ Reply(scene)
  /\ loadHud' = FALSE
  /\ answer' = NothingTold
  /\ UNCHANGED <<ad, isLoadDefault, clickNumber, app, watch>>

\* The reply names a slot.  An adType without a class makes the factory put nil
\* into the cache, which throws.
Fetched(scene, slot) ==
  /\ Reply(scene)
  /\ answer' = NothingTold
  /\ IF Platform[slot] \in Platforms
       THEN \E watched \in {FALSE, Watching} :
              /\ watched => watch = "none" /\ ~Cached(ad, slot)
              /\ watch' = IF watched THEN "open" ELSE watch
              /\ ad' = InitWithObj(ad, slot, New(scene, 0, watched))
              /\ loadHud' = ~Cached(ad, slot)
              /\ app' = app
       ELSE /\ app' = "crashed"
            /\ UNCHANGED <<ad, loadHud, watch>>
  /\ UNCHANGED <<isLoadDefault, clickNumber>>

-----------------------------------------------------------------------------
(* Callbacks of the SDKs *)

\* Mutant: the failed ad leaves the cache before the default is loaded.
RemoveCacheFirst(slot) ==
  LET f == Format[slot]
      ads == [ad EXCEPT ![slot] = NoAd]
      loaded == IF isLoadDefault[f] THEN ads
                ELSE InitWithObj(ads, Default[f], DefaultFor(ad[slot]))
  IN /\ ad' = loaded
     /\ loadHud' = (loaded # ads)
     /\ isLoadDefault' = [isLoadDefault EXCEPT ![f] = ~@]

\* Mutant: the failed ad stays in the cache beside the default.
FallBackKeeps(slot) ==
  LET f == Format[slot]
      loaded == IF isLoadDefault[f] THEN ad ELSE InitWithObj(ad, Default[f], DefaultFor(ad[slot]))
  IN /\ ad' = loaded
     /\ loadHud' = (loaded # ad)
     /\ isLoadDefault' = [isLoadDefault EXCEPT ![f] = ~@]

\* Mutant: the loading HUD is not hidden.
FailWithoutHiding(slot) ==
  /\ ad' = [ad EXCEPT ![slot] = NoAd]
  /\ loadHud' = loadHud
  /\ isLoadDefault' = [isLoadDefault EXCEPT ![Format[slot]] = ~@]

\* Hide the HUD, load the default ad unless the last failure did, and then
\* remove the failed ad from the cache.
FallBack(slot) ==
  LET f == Format[slot]
      loaded == IF isLoadDefault[f] THEN ad
                ELSE InitWithObj(ad, Default[f], DefaultFor(ad[slot]))
  IN /\ ad' = [loaded EXCEPT ![slot] = NoAd]
     /\ loadHud' = (loaded # ad)
     /\ isLoadDefault' = [isLoadDefault EXCEPT ![f] = ~@]

\* GoogleFullScreenVideo inherits a load that asks no SDK.
AsksSdk(slot) == ~(Platform[slot] = "Google" /\ Format[slot] = "FullScreenVideo")

\* CSJRewardVideo only keeps what it loaded.
ShowsWhenLoaded(slot) == ~(Platform[slot] = "CSJ" /\ Format[slot] = "RewardVideo")

\* loadError
LoadError(slot) ==
  /\ app = "running" /\ ad[slot].state = "loading" /\ AsksSdk(slot)
  /\ FallBack(slot)
  /\ answer' = VideoError(slot)
  /\ UNCHANGED <<fetching, tipHuds, clickNumber, app, watch>>

\* loadSuccess and the display that follows it.  AppLovin's display puts the
\* sId into a dictionary literal, which throws when there is none.
LoadSuccess(slot) ==
  /\ app = "running" /\ ad[slot].state = "loading" /\ AsksSdk(slot)
  /\ loadHud' = FALSE
  /\ IF Platform[slot] = "AppLovin" /\ ad[slot].depth > 0
       THEN app' = "crashed" /\ ad' = ad
       ELSE /\ app' = app
            /\ ad' = [ad EXCEPT ![slot].state =
                        IF ShowsWhenLoaded(slot) THEN "showing" ELSE "loaded"]
  /\ answer' = NothingTold
  /\ UNCHANGED <<isLoadDefault, fetching, tipHuds, clickNumber, watch>>

\* showError; a full-screen video falls back to the default, and Google's
\* reward video only writes a log line.
ShowError(slot) ==
  /\ app = "running" /\ ad[slot].state = "showing"
  /\ IF Platform[slot] = "Google"
       THEN /\ ad' = [ad EXCEPT ![slot].state = "failed"]
            /\ answer' = NothingTold
            /\ UNCHANGED <<isLoadDefault, loadHud>>
       ELSE /\ answer' = VideoError(slot)
            /\ IF Format[slot] = "FullScreenVideo"
                 THEN FallBack(slot)
                 ELSE /\ ad' = [ad EXCEPT ![slot] = NoAd]
                      /\ UNCHANGED <<isLoadDefault, loadHud>>
  /\ UNCHANGED <<fetching, tipHuds, clickNumber, app, watch>>

\* The user watched to the end: AppLovin's callback issues the reward, Google's
\* handler is empty.
EarnReward(slot) ==
  /\ app = "running" /\ ad[slot].state = "showing" /\ Format[slot] = "RewardVideo"
  /\ ad' = [ad EXCEPT ![slot].earned = TRUE,
                      ![slot].isReward = (@ \/ Platform[slot] = "AppLovin")]
  /\ answer' = NothingTold
  /\ UNCHANGED <<isLoadDefault, fetching, tipHuds, loadHud, clickNumber, app, watch>>

ClicksEnough(n) == n >= ClickLimit

\* adDidRecordClick of Google ends the process at the tenth click.
GoogleClick(slot) ==
  /\ app = "running" /\ ad[slot].state = "showing" /\ Platform[slot] = "Google"
  /\ IF ClicksEnough(clickNumber + 1) THEN clickNumber' = 0 /\ app' = "exited"
                                      ELSE clickNumber' = clickNumber + 1 /\ app' = app
  /\ answer' = NothingTold
  /\ UNCHANGED <<ad, isLoadDefault, fetching, tipHuds, loadHud, watch>>

\* closeVideo: a reward video pays when the reward was issued, which Google's
\* dismissal does by itself; a full-screen video pays always.
Pays(slot) ==
  Format[slot] = "FullScreenVideo" \/ ad[slot].isReward \/ Platform[slot] = "Google"

\* Mutant: the closed ad stays in the cache.
CloseKeeps(slot) == [ad EXCEPT ![slot].isReward = FALSE]

RemoveCache(slot) == [ad EXCEPT ![slot] = NoAd]

CloseVideo(slot) ==
  /\ app = "running" /\ ad[slot].state = "showing"
  /\ answer' = IF Pays(slot) THEN <<"Success", slot>> ELSE NothingTold
  /\ watch' = IF Pays(slot) /\ ad[slot].watched THEN "paid" ELSE watch
  /\ ad' = RemoveCache(slot)
  /\ UNCHANGED <<isLoadDefault, fetching, tipHuds, loadHud, clickNumber, app>>

\* The process ends, or has ended, and is started again.
Restart ==
  /\ ad' = [slot \in Slots |-> NoAd]
  /\ fetching' = [scene \in Scenes |-> 0]
  /\ tipHuds' = 0
  /\ loadHud' = FALSE
  /\ clickNumber' = 0
  /\ app' = "running"
  /\ answer' = NothingTold
  /\ watch' = "none"
  /\ UNCHANGED isLoadDefault

-----------------------------------------------------------------------------
Init ==
  /\ ad = [slot \in Slots |-> NoAd]
  /\ isLoadDefault = [f \in Formats |-> FALSE]
  /\ fetching = [scene \in Scenes |-> 0]
  /\ tipHuds = 0 /\ loadHud = FALSE
  /\ clickNumber = 0
  /\ app = "running"
  /\ answer = NothingTold
  /\ watch = "none"

Completes(scene) == FetchedNothing(scene) \/ \E slot \in Slots : Fetched(scene, slot)
LoadEnds(slot) == LoadError(slot) \/ LoadSuccess(slot)
ShowEnds(slot) == ShowError(slot) \/ CloseVideo(slot)

Next ==
  \/ \E scene \in Scenes : AdShow(scene) \/ Completes(scene)
  \/ \E slot \in Slots : LoadEnds(slot) \/ ShowEnds(slot) \/ EarnReward(slot) \/ GoogleClick(slot)
  \/ Restart

Spec == Init /\ [][Next]_vars

\* The network layer answers or times out, an SDK reports the end of a load it
\* was asked for, and a displayed ad is closed at some time.
FairSpec ==
  /\ Spec
  /\ \A scene \in Scenes : WF_vars(Completes(scene))
  /\ \A slot \in Slots : WF_vars(LoadEnds(slot)) /\ WF_vars(ShowEnds(slot))

-----------------------------------------------------------------------------
(* Properties *)

TypeOK ==
  /\ ad \in [Slots -> AdObject]
  /\ isLoadDefault \in [Formats -> BOOLEAN]
  /\ fetching \in [Scenes -> 0 .. MaxFetching]
  /\ tipHuds \in Nat /\ loadHud \in BOOLEAN
  /\ clickNumber \in 0 .. ClickLimit - 1
  /\ app \in {"running", "crashed", "exited"}
  /\ answer \in {NothingTold} \cup {"Success", "Fail"} \X Slots
  /\ watch \in {"none", "open", "paid"}

\* The failure of a default ad loads no default again, whatever failures of
\* other slots toggled isLoadDefault meanwhile and across restarts
\* ("load the default once, so that it is not requested over and over").
DefaultLoadedOnce == \A slot \in Slots : Cached(ad, slot) => ad[slot].depth <= 1

\* The screen is blocked only while something is under way: a HUD of adShow while
\* a reply is awaited, the loading HUD while some slot loads.
HudMeansWork ==
  app = "running" =>
    /\ tipHuds > 0 => \E scene \in Scenes : fetching[scene] > 0
    /\ loadHud => \E slot \in Slots : ad[slot].state = "loading"

\* Once the game was told of success for a request it asked for, nothing more is
\* told it for that request, neither success nor failure: the ad that failed, the
\* default that took its place and the ad shown never answer it a second time
\* (closeVideo and loadError must take their ad out of AdCacheTool.tmpDic).
PaidOnce ==
  [][ \A slot \in Slots :
        watch = "paid" /\ ad[slot].watched => answer' \notin {"Success", "Fail"} \X {slot} ]_vars

\* "The video is played to the end: closing can give out the reward": a rewarded
\* video reports success to the game only when the SDK said that the user earned
\* the reward in this very display.
RewardOnlyEarned ==
  [][ \A slot \in Slots :
        answer' = <<"Success", slot>> /\ Format[slot] = "RewardVideo" => ad[slot].earned ]_vars

\* Slots that the code can never use again in this process: a second request for
\* a cached slot does nothing, and these wait for a callback that cannot come.
KeptForever(slot) ==
  \/ ad[slot].state = "loading" /\ ~AsksSdk(slot)
  \/ ad[slot].state \in {"loaded", "failed"}

\* Apart from those, every ad object leaves the cache, so that its slot can be
\* requested again.
SlotReleased ==
  \A slot \in Slots :
    Cached(ad, slot) ~> (~Cached(ad, slot) \/ app # "running" \/ KeptForever(slot))

\* The loading HUD goes away, unless it belongs to a load that asks no SDK.
HudReleased ==
  loadHud ~> (~loadHud \/ app # "running" \/ \E slot \in Slots : Cached(ad, slot) /\ ~AsksSdk(slot))

\* "When an ad failed to load, load the default slot": of a failed primary ad the
\* default is in the cache afterwards.
FailureLoadsDefault ==
  [][ \A slot \in Slots :
        LET default == Default[Format[slot]] IN
          answer' = <<"Fail", slot>> /\ ad[slot].state = "loading" /\ slot # default
            => Cached(ad', default) ]_vars
=============================================================================

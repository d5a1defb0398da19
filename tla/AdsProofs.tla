----------------------------- MODULE AdsProofs -----------------------------
(***************************************************************************)
(* Proofs about Ads, for every catalogue of slots.                         *)
(***************************************************************************)
EXTENDS Ads, TLAPS

\* An ad reached by a default load lies in the default slot of its format: that
\* slot is still cached when its ad fails, so that it cannot load itself again.
DefaultsInPlace ==
  \A slot \in Slots :
    Cached(ad, slot) /\ ad[slot].depth > 0 => slot = Default[Format[slot]] /\ ad[slot].depth = 1

IInv == TypeOK /\ DefaultsInPlace

USE CatalogueAssumption, SceneAssumption, LimitAssumption, WatchingAssumption

LEMMA NewType == \A scene \in Scenes, depth \in Nat, watched \in BOOLEAN :
                   /\ New(scene, depth, watched) \in AdObject
                   /\ New(scene, depth, watched).state = "loading"
                   /\ New(scene, depth, watched).depth = depth
BY DEF New, AdObject

LEMMA DefaultForType ==
  ASSUME NEW o \in AdObject
  PROVE  /\ DefaultFor(o) \in AdObject
         /\ DefaultFor(o).state = "loading" /\ DefaultFor(o).depth = o.depth + 1
         /\ DefaultFor(o).watched = o.watched
BY DEF DefaultFor, New, AdObject

LEMMA NoAdType == NoAd \in AdObject /\ NoAd.state = "none"
BY DEF NoAd, New, AdObject

LEMMA RewardedObject ==
  ASSUME NEW o \in AdObject, NEW r \in BOOLEAN
  PROVE  /\ [o EXCEPT !.earned = TRUE, !.isReward = r] \in AdObject
         /\ [o EXCEPT !.earned = TRUE, !.isReward = r].depth = o.depth
BY DEF AdObject

\* The factory gives a slot the new object or leaves the cache as it was.
LEMMA FactoryStep ==
  ASSUME NEW slot \in Slots, NEW obj \in AdObject, ad \in [Slots -> AdObject]
  PROVE  /\ InitWithObj(ad, slot, obj) \in [Slots -> AdObject]
         /\ \A s \in Slots :
              \/ InitWithObj(ad, slot, obj)[s] = ad[s]
              \/ s = slot /\ ~Cached(ad, slot) /\ InitWithObj(ad, slot, obj)[s] = obj
BY DEF InitWithObj

\* After a fallback each slot is as it was, empty, or the default slot of the
\* failed ad's format with an object one load deeper.
LEMMA FallBackStep ==
  ASSUME TypeOK, NEW slot \in Slots, FallBack(slot)
  PROVE  /\ ad' \in [Slots -> AdObject]
         /\ isLoadDefault' \in [Formats -> BOOLEAN]
         /\ loadHud' \in BOOLEAN
         /\ \A s \in Slots :
              \/ ad'[s] = ad[s]
              \/ ad'[s] = NoAd
              \/ /\ s = Default[Format[slot]] /\ ~Cached(ad, s)
                 /\ ad'[s] = DefaultFor(ad[slot])
         /\ ad'[slot] = NoAd
<1> DEFINE f == Format[slot]
           obj == DefaultFor(ad[slot])
           loaded == IF isLoadDefault[f] THEN ad ELSE InitWithObj(ad, Default[f], obj)
<1>1. ad \in [Slots -> AdObject] /\ isLoadDefault \in [Formats -> BOOLEAN] /\ f \in Formats
  BY DEF TypeOK
<1>2. Default[f] \in Slots
  BY <1>1
<1>3. obj \in AdObject
  <2>1. ad[slot] \in AdObject
    BY <1>1
  <2> QED BY <2>1, DefaultForType
<1>4. /\ ad' = [loaded EXCEPT ![slot] = NoAd] /\ loadHud' = (loaded # ad)
      /\ isLoadDefault' = [isLoadDefault EXCEPT ![f] = ~@]
  BY DEF FallBack
<1>5. /\ loaded \in [Slots -> AdObject]
      /\ \A s \in Slots : loaded[s] = ad[s] \/ (s = Default[f] /\ ~Cached(ad, s) /\ loaded[s] = obj)
  <2>1. CASE isLoadDefault[f]
    BY <1>1, <2>1
  <2>2. CASE ~isLoadDefault[f]
    <3>1. loaded = InitWithObj(ad, Default[f], obj)
      BY <2>2
    <3> HIDE DEF loaded, obj, f
    <3>2. \A s \in Slots :
            \/ loaded[s] = ad[s]
            \/ s = Default[f] /\ ~Cached(ad, Default[f]) /\ loaded[s] = obj
      BY <1>1, <1>2, <1>3, <3>1, FactoryStep
    <3>3. loaded \in [Slots -> AdObject]
      BY <1>1, <1>2, <1>3, <3>1, FactoryStep
    <3> QED BY <3>2, <3>3
  <2> QED BY <2>1, <2>2
<1> HIDE DEF loaded, obj
<1>6. ad' \in [Slots -> AdObject] /\ \A s \in Slots : ad'[s] = IF s = slot THEN NoAd ELSE loaded[s]
  BY <1>4, <1>5, NoAdType
<1>7. isLoadDefault' \in [Formats -> BOOLEAN] /\ loadHud' \in BOOLEAN
  BY <1>1, <1>4
<1> QED BY <1>5, <1>6, <1>7 DEF obj

-----------------------------------------------------------------------------
LEMMA InitIInv == Init => IInv
<1> SUFFICES ASSUME Init PROVE IInv
  OBVIOUS
<1>1. ad \in [Slots -> AdObject] /\ DefaultsInPlace
  BY NoAdType DEF Init, DefaultsInPlace, Cached
<1>2. fetching \in [Scenes -> 0 .. MaxFetching] /\ clickNumber \in 0 .. ClickLimit - 1 /\ tipHuds \in Nat
  BY DEF Init
<1>3. isLoadDefault \in [Formats -> BOOLEAN] /\ loadHud \in BOOLEAN
  BY DEF Init
<1> QED BY <1>1, <1>2, <1>3 DEF Init, IInv, TypeOK

\* A step that leaves each slot as it was, empties it, or changes its object
\* without changing its depth
LEMMA SlotStep ==
  ASSUME IInv, NEW slot \in Slots, NEW obj \in AdObject,
         ad' = [ad EXCEPT ![slot] = obj],
         obj.state = "none" \/ obj.depth = 0 \/ (Cached(ad, slot) /\ obj.depth = ad[slot].depth)
  PROVE  ad' \in [Slots -> AdObject] /\ DefaultsInPlace'
<1>1. ad \in [Slots -> AdObject]
  BY DEF IInv, TypeOK
<1>2. \A s \in Slots : ad'[s] = IF s = slot THEN obj ELSE ad[s]
  BY <1>1
<1> QED BY <1>1, <1>2 DEF IInv, DefaultsInPlace, Cached

LEMMA FallBackIInv ==
  ASSUME IInv, NEW slot \in Slots, Cached(ad, slot), FallBack(slot)
  PROVE  /\ ad' \in [Slots -> AdObject] /\ isLoadDefault' \in [Formats -> BOOLEAN]
         /\ loadHud' \in BOOLEAN /\ DefaultsInPlace'
<1>1. ad \in [Slots -> AdObject] /\ Format[slot] \in Formats
  BY DEF IInv, TypeOK
<1>2. ad[slot] \in AdObject /\ ad[slot].depth \in Nat
  <2>1. ad[slot] \in AdObject
    BY <1>1
  <2> QED BY <2>1 DEF AdObject
<1>3. ASSUME NEW s \in Slots, Cached(ad', s), ad'[s].depth > 0
      PROVE  s = Default[Format[s]] /\ ad'[s].depth = 1
  <2>1. CASE ad'[s] = ad[s]
    BY <1>3, <2>1 DEF IInv, DefaultsInPlace, Cached
  <2>2. CASE ad'[s] = NoAd
    BY <1>3, <2>2, NoAdType DEF Cached
  <2>3. CASE /\ s = Default[Format[slot]] /\ ~Cached(ad, s)
             /\ ad'[s] = DefaultFor(ad[slot])
    <3>1. slot # s
      BY <2>3
    <3>2. ad[slot].depth = 0
      BY <2>3, <3>1, <1>2 DEF IInv, DefaultsInPlace
    <3>3. ad'[s].depth = 1
      BY <1>2, <2>3, <3>2, DefaultForType
    <3>4. Format[s] = Format[slot]
      BY <2>3, <1>1
    <3> QED BY <2>3, <3>3, <3>4
  <2> QED BY <2>1, <2>2, <2>3, FallBackStep DEF IInv
<1>4. DefaultsInPlace'
  BY <1>3 DEF DefaultsInPlace
<1> QED BY <1>4, FallBackStep DEF IInv

LEMMA NextIInv == ASSUME IInv, [Next]_vars PROVE IInv'
<1> USE DEF IInv
<1>1. /\ ad \in [Slots -> AdObject] /\ isLoadDefault \in [Formats -> BOOLEAN]
      /\ fetching \in [Scenes -> 0 .. MaxFetching] /\ tipHuds \in Nat /\ loadHud \in BOOLEAN
      /\ clickNumber \in 0 .. ClickLimit - 1 /\ app \in {"running", "crashed", "exited"}
      /\ watch \in {"none", "open", "paid"}
  BY DEF TypeOK
<1>2. \A slot \in Slots : ad[slot] \in AdObject
  BY <1>1
<1>3. NothingTold \in {NothingTold} \cup {"Success", "Fail"} \X Slots
  OBVIOUS
<1>4. ASSUME NEW scene \in Scenes, AdShow(scene) PROVE IInv'
  <2>1. fetching' \in [Scenes -> 0 .. MaxFetching]
    BY <1>1, <1>4 DEF AdShow
  <2>2. tipHuds' \in Nat
    BY <1>1, <1>4 DEF AdShow
  <2> QED BY <1>4, <2>1, <2>2 DEF AdShow, TypeOK, DefaultsInPlace, Cached
<1>5. ASSUME NEW scene \in Scenes, Reply(scene)
      PROVE  fetching' \in [Scenes -> 0 .. MaxFetching] /\ tipHuds' \in Nat
  BY <1>1, <1>5 DEF Reply
<1>6. ASSUME NEW scene \in Scenes, FetchedNothing(scene) PROVE IInv'
  <2>1. fetching' \in [Scenes -> 0 .. MaxFetching] /\ tipHuds' \in Nat
    BY <1>5, <1>6 DEF FetchedNothing
  <2> QED BY <1>6, <2>1 DEF FetchedNothing, TypeOK, DefaultsInPlace, Cached
<1>7. ASSUME NEW scene \in Scenes, NEW slot \in Slots, Fetched(scene, slot) PROVE IInv'
  <2>1. fetching' \in [Scenes -> 0 .. MaxFetching] /\ tipHuds' \in Nat
    BY <1>5, <1>7 DEF Fetched
  <2>2. PICK watched \in BOOLEAN :
          ad' = ad \/ ad' = [ad EXCEPT ![slot] = New(scene, 0, watched)]
    BY <1>7 DEF Fetched, InitWithObj
  <2>3. New(scene, 0, watched) \in AdObject /\ New(scene, 0, watched).depth = 0
    BY NewType
  <2>4. ad' \in [Slots -> AdObject] /\ DefaultsInPlace'
    <3>1. CASE ad' = ad
      BY <1>1, <3>1 DEF DefaultsInPlace, Cached
    <3>2. CASE ad' = [ad EXCEPT ![slot] = New(scene, 0, watched)]
      BY <3>2, <2>3, SlotStep
    <3> QED BY <2>2, <3>1, <3>2
  <2>5. /\ loadHud' \in BOOLEAN /\ app' \in {"running", "crashed", "exited"} /\ answer' = NothingTold
        /\ isLoadDefault' = isLoadDefault /\ clickNumber' = clickNumber
        /\ watch' \in {"none", "open", "paid"}
    BY <1>1, <1>7 DEF Fetched, Cached
  <2> QED BY <1>1, <1>3, <2>1, <2>4, <2>5 DEF TypeOK
<1>8. ASSUME NEW slot \in Slots PROVE VideoError(slot) \in {NothingTold} \cup {"Success", "Fail"} \X Slots
  BY DEF VideoError
<1>9. ASSUME NEW slot \in Slots, LoadError(slot) PROVE IInv'
  <2>1. Cached(ad, slot) /\ FallBack(slot)
    BY <1>9 DEF LoadError, Cached
  <2>2. /\ answer' = VideoError(slot) /\ UNCHANGED <<fetching, tipHuds, clickNumber, app, watch>>
    BY <1>9 DEF LoadError
  <2> QED BY <1>1, <1>8, <2>1, <2>2, FallBackIInv DEF TypeOK
<1>10. ASSUME NEW slot \in Slots, LoadSuccess(slot) PROVE IInv'
  <2> DEFINE st == IF ShowsWhenLoaded(slot) THEN "showing" ELSE "loaded"
             obj == [ad[slot] EXCEPT !.state = st]
  <2>1. obj \in AdObject /\ obj.depth = ad[slot].depth
    BY <1>2 DEF AdObject
  <2>2. ad' = ad \/ ad' = [ad EXCEPT ![slot] = obj]
    BY <1>10 DEF LoadSuccess
  <2>3. Cached(ad, slot)
    BY <1>10 DEF LoadSuccess, Cached
  <2>4. ad' \in [Slots -> AdObject] /\ DefaultsInPlace'
    <3>1. CASE ad' = ad
      BY <1>1, <3>1 DEF DefaultsInPlace, Cached
    <3>2. CASE ad' = [ad EXCEPT ![slot] = obj]
      <4> HIDE DEF obj
      <4> QED BY <3>2, <2>1, <2>3, SlotStep
    <3> QED BY <2>2, <3>1, <3>2
  <2>5. /\ loadHud' \in BOOLEAN /\ app' \in {"running", "crashed", "exited"} /\ answer' = NothingTold
        /\ UNCHANGED <<isLoadDefault, fetching, tipHuds, clickNumber, watch>>
    BY <1>1, <1>10 DEF LoadSuccess
  <2> QED BY <1>1, <1>3, <2>4, <2>5 DEF TypeOK
<1>11. ASSUME NEW slot \in Slots, ShowError(slot) PROVE IInv'
  <2>1. Cached(ad, slot) /\ UNCHANGED <<fetching, tipHuds, clickNumber, app, watch>>
    BY <1>11 DEF ShowError, Cached
  <2>2. answer' \in {NothingTold} \cup {"Success", "Fail"} \X Slots
    BY <1>8, <1>11 DEF ShowError
  <2>3. CASE FallBack(slot)
    BY <1>1, <2>1, <2>2, <2>3, FallBackIInv DEF TypeOK
  <2>4. CASE ~FallBack(slot)
    <3> DEFINE failed == [ad[slot] EXCEPT !.state = "failed"]
    <3>1. /\ ad' = [ad EXCEPT ![slot] = failed] \/ ad' = [ad EXCEPT ![slot] = NoAd]
          /\ UNCHANGED <<isLoadDefault, loadHud>>
      BY <1>11, <2>4 DEF ShowError
    <3>2. failed \in AdObject /\ failed.depth = ad[slot].depth
      BY <1>2 DEF AdObject
    <3> HIDE DEF failed
    <3>3. ad' \in [Slots -> AdObject] /\ DefaultsInPlace'
      BY <2>1, <3>1, <3>2, NoAdType, SlotStep
    <3> QED BY <1>1, <2>1, <2>2, <3>1, <3>3 DEF TypeOK
  <2> QED BY <2>3, <2>4
<1>12. ASSUME NEW slot \in Slots, EarnReward(slot) PROVE IInv'
  <2> DEFINE reward == ad[slot].isReward \/ Platform[slot] = "AppLovin"
             obj == [ad[slot] EXCEPT !.earned = TRUE, !.isReward = reward]
  <2>1. obj \in AdObject /\ obj.depth = ad[slot].depth
    <3>1. reward \in BOOLEAN
      OBVIOUS
    <3> HIDE DEF reward
    <3> QED BY <1>2, <3>1, RewardedObject
  <2>2. ad' = [ad EXCEPT ![slot] = obj] /\ Cached(ad, slot)
    BY <1>1, <1>12 DEF EarnReward, Cached
  <2> HIDE DEF obj
  <2>3. ad' \in [Slots -> AdObject] /\ DefaultsInPlace'
    BY <2>1, <2>2, SlotStep
  <2> QED BY <1>1, <1>3, <1>12, <2>3 DEF EarnReward, TypeOK
<1>13. ASSUME NEW slot \in Slots, GoogleClick(slot) PROVE IInv'
  <2>1. clickNumber' \in 0 .. ClickLimit - 1
    BY <1>1, <1>13 DEF GoogleClick, ClicksEnough
  <2>2. app' \in {"running", "crashed", "exited"}
    BY <1>1, <1>13 DEF GoogleClick
  <2> QED BY <1>1, <1>3, <1>13, <2>1, <2>2 DEF GoogleClick, TypeOK, DefaultsInPlace, Cached
<1>14. ASSUME NEW slot \in Slots, CloseVideo(slot) PROVE IInv'
  <2>1. ad' = [ad EXCEPT ![slot] = NoAd]
    BY <1>14 DEF CloseVideo, RemoveCache
  <2>2. ad' \in [Slots -> AdObject] /\ DefaultsInPlace'
    BY <2>1, NoAdType, SlotStep
  <2>3. answer' \in {NothingTold} \cup {"Success", "Fail"} \X Slots
    BY <1>14 DEF CloseVideo
  <2> QED BY <1>1, <1>14, <2>2, <2>3 DEF CloseVideo, TypeOK
<1>15. CASE Restart
  <2>1. ad' \in [Slots -> AdObject] /\ DefaultsInPlace'
    BY <1>15, NoAdType DEF Restart, DefaultsInPlace, Cached
  <2>2. fetching' \in [Scenes -> 0 .. MaxFetching] /\ clickNumber' \in 0 .. ClickLimit - 1 /\ tipHuds' \in Nat
    BY <1>15 DEF Restart
  <2>3. isLoadDefault' \in [Formats -> BOOLEAN] /\ loadHud' \in BOOLEAN /\ answer' = NothingTold
        /\ app' = "running" /\ watch' = "none"
    BY <1>1, <1>15 DEF Restart
  <2> QED BY <1>3, <2>1, <2>2, <2>3 DEF TypeOK
<1>16. CASE UNCHANGED vars
  BY <1>16 DEF vars, TypeOK, DefaultsInPlace, Cached
<1> QED
  BY <1>4, <1>6, <1>7, <1>9, <1>10, <1>11, <1>12, <1>13, <1>14, <1>15, <1>16
  DEF Next, Completes, LoadEnds, ShowEnds

\* The inductive invariant: types, and defaults only in their own slots.
THEOREM Invariance == Spec => []IInv
BY InitIInv, NextIInv, PTL DEF Spec

\* Every variable of the ad cache keeps its type; the click counter stays below
\* the limit.
THEOREM TypeCorrect == Spec => []TypeOK
BY Invariance, PTL DEF IInv

\* loadDefaultAd never follows the failure of an ad that loadDefaultAd loaded.
THEOREM FallbacksDoNotChain == Spec => []DefaultLoadedOnce
<1>1. IInv => DefaultLoadedOnce
  <2> SUFFICES ASSUME IInv, NEW slot \in Slots, Cached(ad, slot) PROVE ad[slot].depth <= 1
    BY DEF DefaultLoadedOnce
  <2>1. ad[slot] \in AdObject
    BY DEF IInv, TypeOK
  <2>2. ad[slot].depth \in Nat
    BY <2>1 DEF AdObject
  <2> QED BY <2>2 DEF IInv, DefaultsInPlace
<1> QED BY <1>1, Invariance, PTL

-----------------------------------------------------------------------------
(* The blocking HUDs *)

LEMMA HudStep == ASSUME IInv, HudMeansWork, [Next]_vars PROVE HudMeansWork'
<1> SUFFICES ASSUME app' = "running" PROVE HudMeansWork'
  BY DEF HudMeansWork
<1>1. ad \in [Slots -> AdObject] /\ fetching \in [Scenes -> 0 .. MaxFetching] /\ tipHuds \in Nat
  BY DEF IInv, TypeOK
<1>2. CASE Restart
  BY <1>2 DEF Restart, HudMeansWork
<1> SUFFICES ASSUME ~Restart PROVE HudMeansWork'
  BY <1>2
<1>3. CASE app # "running"
  BY <1>3 DEF Next, Completes, AdShow, FetchedNothing, Fetched, Reply, LoadEnds, ShowEnds, LoadError,
              LoadSuccess, ShowError, CloseVideo, EarnReward, GoogleClick, vars
<1> SUFFICES ASSUME app = "running" PROVE HudMeansWork'
  BY <1>3
<1>4. /\ tipHuds > 0 => \E scene \in Scenes : fetching[scene] > 0
      /\ loadHud => \E slot \in Slots : ad[slot].state = "loading"
  BY DEF HudMeansWork
<1>5. ASSUME NEW scene \in Scenes, AdShow(scene) PROVE HudMeansWork'
  <2>1. fetching'[scene] > 0 /\ loadHud' = loadHud /\ ad' = ad
    BY <1>1, <1>5 DEF AdShow
  <2> QED BY <1>4, <2>1 DEF HudMeansWork
<1>6. ASSUME NEW scene \in Scenes, FetchedNothing(scene) PROVE HudMeansWork'
  BY <1>6 DEF FetchedNothing, Reply, HudMeansWork
<1>7. ASSUME NEW scene \in Scenes, NEW slot \in Slots, Fetched(scene, slot) PROVE HudMeansWork'
  <2>1. PICK watched \in BOOLEAN :
          /\ tipHuds' = 0 /\ ad' = InitWithObj(ad, slot, New(scene, 0, watched))
          /\ loadHud' => ~Cached(ad, slot)
    BY <1>7 DEF Fetched, Reply
  <2>2. ~Cached(ad, slot) => ad'[slot] = New(scene, 0, watched)
    BY <1>1, <2>1 DEF InitWithObj
  <2>3. loadHud' => ad'[slot].state = "loading"
    BY <2>1, <2>2 DEF New
  <2> QED BY <2>1, <2>3 DEF HudMeansWork
<1>8. ASSUME NEW slot \in Slots, Cached(ad, slot), FallBack(slot)
      PROVE  loadHud' => \E s \in Slots : ad'[s].state = "loading"
  <2> DEFINE d == Default[Format[slot]]
             obj == DefaultFor(ad[slot])
  <2>1. d \in Slots
    BY DEF TypeOK
  <2>2. ASSUME loadHud' PROVE ad'[d] = obj
    <3> DEFINE ads == IF isLoadDefault[Format[slot]] THEN ad ELSE InitWithObj(ad, d, obj)
    <3>3. ads # ad /\ ad' = [ads EXCEPT ![slot] = NoAd]
      <4>1. ad' = [ads EXCEPT ![slot] = NoAd] /\ loadHud' = (ads # ad)
        BY <1>8 DEF FallBack
      <4> HIDE DEF ads
      <4> QED BY <2>2, <4>1
    <3>1. /\ InitWithObj(ad, d, obj) # ad
          /\ ad' = [InitWithObj(ad, d, obj) EXCEPT ![slot] = NoAd]
      <4> HIDE DEF d, obj
      <4> QED BY <3>3
    <3>2. ~Cached(ad, d) /\ InitWithObj(ad, d, obj) = [ad EXCEPT ![d] = obj] /\ d # slot
      BY <1>8, <3>1 DEF InitWithObj
    <3> HIDE DEF d, obj
    <3> QED BY <1>1, <2>1, <3>1, <3>2
  <2>3. obj.state = "loading"
    BY DEF DefaultFor, New
  <2> QED BY <2>1, <2>2, <2>3
<1>9. ASSUME NEW slot \in Slots, LoadError(slot) PROVE HudMeansWork'
  <2>1. Cached(ad, slot) /\ FallBack(slot) /\ tipHuds' = tipHuds /\ fetching' = fetching
    BY <1>9 DEF LoadError, Cached
  <2> QED BY <1>4, <1>8, <2>1 DEF HudMeansWork
<1>10. ASSUME NEW slot \in Slots, LoadSuccess(slot) PROVE HudMeansWork'
  BY <1>4, <1>10 DEF LoadSuccess, HudMeansWork
<1>11. ASSUME NEW slot \in Slots, ad[slot].state = "showing", \A s \in Slots \ {slot} : ad'[s] = ad[s],
              UNCHANGED <<fetching, tipHuds, loadHud>>
       PROVE  HudMeansWork'
  BY <1>4, <1>11 DEF HudMeansWork
<1>12. ASSUME NEW slot \in Slots, ShowError(slot) PROVE HudMeansWork'
  <2>1. CASE FallBack(slot)
    <3>1. Cached(ad, slot) /\ tipHuds' = tipHuds /\ fetching' = fetching
      BY <1>12 DEF ShowError, Cached
    <3> QED BY <1>4, <1>8, <2>1, <3>1 DEF HudMeansWork
  <2>2. CASE ~FallBack(slot)
    BY <1>1, <1>11, <1>12, <2>2 DEF ShowError
  <2> QED BY <2>1, <2>2
<1>13. ASSUME NEW slot \in Slots, EarnReward(slot) \/ CloseVideo(slot) PROVE HudMeansWork'
  BY <1>1, <1>11, <1>13 DEF EarnReward, CloseVideo, RemoveCache
<1>14. ASSUME NEW slot \in Slots, GoogleClick(slot) PROVE HudMeansWork'
  BY <1>4, <1>14 DEF GoogleClick, HudMeansWork
<1>15. CASE UNCHANGED vars
  BY <1>4, <1>15 DEF vars, HudMeansWork
<1> QED
  BY <1>5, <1>6, <1>7, <1>9, <1>10, <1>12, <1>13, <1>14, <1>15
  DEF Next, Completes, LoadEnds, ShowEnds

\* The screen is blocked by a HUD only while a reply is awaited or a slot loads.
THEOREM HudMatchesWork == Spec => []HudMeansWork
<1>1. Init => HudMeansWork
  BY DEF Init, HudMeansWork
<1> QED BY <1>1, HudStep, Invariance, PTL DEF Spec

-----------------------------------------------------------------------------
(* One payment for a request *)

\* At most one ad serves the watched request, and only until it is paid.
OneServes ==
  /\ \A slot \in Slots : ad[slot].watched => watch = "open"
  /\ \A slot, other \in Slots : ad[slot].watched /\ ad[other].watched => slot = other

LEMMA UnwatchedType == ~NoAd.watched /\ \A scene, depth : ~New(scene, depth, FALSE).watched
BY DEF NoAd, New

\* No slot serves the watched request that did not do so before.
LEMMA FewerServe ==
  ASSUME OneServes, \A slot \in Slots : ad'[slot].watched => ad[slot].watched, watch' = watch
  PROVE  OneServes'
BY DEF OneServes

LEMMA ServeStep == ASSUME IInv, OneServes, [Next]_vars PROVE OneServes'
<1>1. ad \in [Slots -> AdObject] /\ \A slot \in Slots : ad[slot] \in AdObject
  BY DEF IInv, TypeOK
<1>2. ASSUME NEW slot \in Slots, FallBack(slot), watch' = watch PROVE OneServes'
  <2>1. ad'[slot] = NoAd
    BY <1>2, FallBackStep DEF IInv
  <2>2. ASSUME NEW s \in Slots, ad'[s].watched, ~ad[s].watched PROVE ad[slot].watched
    <3>1. \/ ad'[s] = ad[s]
          \/ ad'[s] = NoAd
          \/ ad'[s] = DefaultFor(ad[slot])
      BY <1>2, FallBackStep DEF IInv
    <3>2. ad'[s] = DefaultFor(ad[slot])
      BY <2>2, <3>1, UnwatchedType
    <3> QED BY <1>1, <2>2, <3>2, DefaultForType
  <2>3. ASSUME NEW s \in Slots, ad'[s].watched, ~ad[s].watched
        PROVE  s = Default[Format[slot]]
    <3>1. \/ ad'[s] = ad[s]
          \/ ad'[s] = NoAd
          \/ s = Default[Format[slot]]
      BY <1>2, FallBackStep DEF IInv
    <3> QED BY <2>3, <3>1, UnwatchedType
  <2>4. ASSUME NEW s \in Slots, ad'[s].watched PROVE watch' = "open"
    BY <1>2, <2>2, <2>4 DEF OneServes
  <2>5. ASSUME NEW s \in Slots, NEW t \in Slots, ad'[s].watched, ad'[t].watched PROVE s = t
    <3>1. s # slot /\ t # slot
      BY <2>1, <2>5, UnwatchedType
    <3>2. CASE ad[slot].watched
      <4>1. ~ad[s].watched /\ ~ad[t].watched
        BY <3>1, <3>2 DEF OneServes
      <4> QED BY <2>3, <2>5, <4>1
    <3>3. CASE ~ad[slot].watched
      <4>1. ad[s].watched /\ ad[t].watched
        BY <2>2, <2>5, <3>3
      <4> QED BY <4>1 DEF OneServes
    <3> QED BY <3>2, <3>3
  <2> QED BY <2>4, <2>5 DEF OneServes
<1>3. ASSUME NEW scene \in Scenes, NEW slot \in Slots, Fetched(scene, slot) PROVE OneServes'
  <2>1. CASE ad' = ad /\ watch' = watch
    BY <2>1, FewerServe
  <2>2. CASE \E watched \in {FALSE, Watching} :
               /\ watched => watch = "none" /\ ~Cached(ad, slot)
               /\ watch' = IF watched THEN "open" ELSE watch
               /\ ad' = InitWithObj(ad, slot, New(scene, 0, watched))
    <3>1. PICK watched \in BOOLEAN :
            /\ watched => watch = "none" /\ ~Cached(ad, slot)
            /\ watch' = IF watched THEN "open" ELSE watch
            /\ ad' = InitWithObj(ad, slot, New(scene, 0, watched))
      <4>1. Watching \in BOOLEAN
        BY WatchingAssumption
      <4>2. {FALSE, Watching} \subseteq BOOLEAN
        BY <4>1, Zenon
      <4> QED BY <2>2, <4>2, Zenon
    <3>2. \A s \in Slots : ad'[s] = ad[s] \/ (s = slot /\ ad'[s] = New(scene, 0, watched))
      BY <1>1, <3>1, NewType, FactoryStep
    <3>3. CASE watched
      <4>1. \A s \in Slots : ~ad[s].watched
        BY <3>1, <3>3 DEF OneServes
      <4>2. \A s \in Slots : ad'[s].watched => s = slot
        BY <3>2, <4>1
      <4> QED BY <3>1, <3>3, <4>2 DEF OneServes
    <3>4. CASE ~watched
      <4>1. \A s \in Slots : ad'[s].watched => ad[s].watched
        BY <3>2, <3>4 DEF New
      <4> QED BY <3>1, <3>4, <4>1, FewerServe
    <3> QED BY <3>3, <3>4
  <2> QED BY <1>3, <2>1, <2>2 DEF Fetched
<1>4. ASSUME NEW slot \in Slots, LoadSuccess(slot) PROVE OneServes'
  <2>1. ad' = ad \/ \E st : ad' = [ad EXCEPT ![slot].state = st]
    BY <1>4 DEF LoadSuccess
  <2>2. ASSUME NEW st, ad' = [ad EXCEPT ![slot].state = st]
        PROVE  \A s \in Slots : ad'[s].watched = ad[s].watched
    BY <1>1, <2>2 DEF AdObject
  <2>3. watch' = watch
    BY <1>4 DEF LoadSuccess
  <2> QED BY <2>1, <2>2, <2>3, FewerServe
<1>5. ASSUME NEW slot \in Slots, ad' = [ad EXCEPT ![slot] = NoAd], watch' = watch PROVE OneServes'
  BY <1>1, <1>5, UnwatchedType, FewerServe
<1>6. ASSUME NEW slot \in Slots, ShowError(slot) PROVE OneServes'
  <2>1. watch' = watch
    BY <1>6 DEF ShowError
  <2>2. CASE ad' = [ad EXCEPT ![slot].state = "failed"]
    <3>1. \A s \in Slots : ad'[s].watched = ad[s].watched
      BY <1>1, <2>2 DEF AdObject
    <3> QED BY <2>1, <3>1, FewerServe
  <2> QED BY <1>2, <1>5, <1>6, <2>1, <2>2 DEF ShowError
<1>7. ASSUME NEW slot \in Slots, EarnReward(slot) PROVE OneServes'
  <2>1. PICK b : ad' = [ad EXCEPT ![slot] = [ad[slot] EXCEPT !.earned = TRUE, !.isReward = b]]
    BY <1>1, <1>7 DEF EarnReward
  <2>2. \A s \in Slots : ad'[s].watched = ad[s].watched
    BY <1>1, <2>1 DEF AdObject
  <2> QED BY <1>7, <2>2, FewerServe DEF EarnReward
<1>8. ASSUME NEW slot \in Slots, CloseVideo(slot) PROVE OneServes'
  <2>1. ad' = [ad EXCEPT ![slot] = NoAd]
    BY <1>8 DEF CloseVideo, RemoveCache
  <2>2. CASE watch' = watch
    BY <1>5, <2>1, <2>2
  <2>3. CASE watch' # watch
    <3>1. ad[slot].watched
      BY <1>8, <2>3 DEF CloseVideo
    <3>2. \A s \in Slots : ~ad'[s].watched
      BY <1>1, <2>1, <3>1, UnwatchedType DEF OneServes
    <3> QED BY <3>2 DEF OneServes
  <2> QED BY <2>2, <2>3
<1>9. CASE Restart
  <2>1. \A s \in Slots : ~ad'[s].watched
    BY <1>9, UnwatchedType DEF Restart
  <2> QED BY <2>1 DEF OneServes
<1>10. CASE ad' = ad /\ watch' = watch
  BY <1>10, FewerServe
<1> QED
  BY <1>2, <1>3, <1>4, <1>6, <1>7, <1>8, <1>9, <1>10
  DEF Next, Completes, AdShow, FetchedNothing, LoadEnds, LoadError, ShowEnds, GoogleClick, vars

\* A request is paid at most once, and after the payment nothing more is told for
\* it: its failed ad left the cache when the default took its place, and the ad
\* that was shown left it when it was closed.
THEOREM RequestsArePaidOnce == Spec => PaidOnce
<1>1. Init => OneServes
  BY UnwatchedType DEF Init, OneServes
<1>2. OneServes =>
        [ \A slot \in Slots :
            watch = "paid" /\ ad[slot].watched => answer' \notin {"Success", "Fail"} \X {slot} ]_vars
  BY DEF OneServes
<1> QED BY <1>1, <1>2, ServeStep, Invariance, PTL DEF Spec, PaidOnce
=============================================================================

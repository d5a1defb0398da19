-------------------------------- MODULE MCAds --------------------------------
(* Small catalogues of ad slots: the two defaults, an AppLovin slot of each    *)
(* format, slots of Google and CSJ, and one of a network without a class.      *)
EXTENDS Ads, TLC

CONSTANTS alf, alr, gr, gf, cr, fr, dr, df

AllPlatforms ==
  alf :> "AppLovin" @@ alr :> "AppLovin" @@ gr :> "Google" @@ gf :> "Google" @@
  cr :> "CSJ" @@ fr :> "FaceBook" @@ dr :> "AppLovin" @@ df :> "CSJ"

SlotPlatform == [slot \in Slots |-> AllPlatforms[slot]]

SlotFormat == [slot \in Slots |-> IF slot \in {alf, gf, df} THEN "FullScreenVideo" ELSE "RewardVideo"]

Defaults == "RewardVideo" :> dr @@ "FullScreenVideo" :> df

OneScene == {"VideoAdId"}
BothScenes == {"VideoAdId", "VideoAdIdFreePlay"}
=============================================================================

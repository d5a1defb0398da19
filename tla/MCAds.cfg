SPECIFICATION Spec
CONSTANTS
  alf = alf
  alr = alr
  gr = gr
  gf = gf
  cr = cr
  fr = fr
  dr = dr
  df = df
  Slots = {alf, alr, fr, dr, df}
  Platform <- SlotPlatform
  Format <- SlotFormat
  Default <- Defaults
  Scenes <- BothScenes
  ClickLimit = 3
  MaxFetching = 1
  Watching = TRUE
INVARIANTS DefaultLoadedOnce HudMeansWork
PROPERTY PaidOnce

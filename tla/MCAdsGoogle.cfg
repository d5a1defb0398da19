SPECIFICATION Spec
CONSTANTS
  alf = alf
  alr = alr
  gr = gr
  gf = gf
  cr = cr
  fr = fr
  dr = dr
  df = df
  Slots = {gr, dr, df}
  Platform <- SlotPlatform
  Format <- SlotFormat
  Default <- Defaults
  Scenes <- OneScene
  ClickLimit = 3
  MaxFetching = 1
  Watching = FALSE
PROPERTY RewardOnlyEarned

SPECIFICATION FairSpec
CONSTANTS
  alf = alf
  alr = alr
  gr = gr
  gf = gf
  cr = cr
  fr = fr
  dr = dr
  df = df
  Slots = {gr, gf, cr, dr, df}
  Platform <- SlotPlatform
  Format <- SlotFormat
  Default <- Defaults
  Scenes <- OneScene
  ClickLimit = 2
  MaxFetching = 1
  Watching = FALSE
PROPERTIES SlotReleased HudReleased

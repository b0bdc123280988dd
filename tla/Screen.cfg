\* Two frames of four, then the empty one, with each of seven fonts and two TVs.
SPECIFICATION Spec
CONSTANTS
  Sub = 4
  FirstCap = 4
  GrowLimit = 16
  PointLimit = 40
  One = 4
  Steps = 240
  Stack = 10
  Fonts <- MCFonts
  Frames <- MCFrames
  MaxFrames = 2
  ScreenW = 6
  ScreenH = 4
  DrcW = 7
  DrcH = 4
  TvModes <- MCTvModes
CHECK_DEADLOCK FALSE
INVARIANTS TypeOK BothScreensAlike EndsAtRight GlyphsAsMapped Silhouette
PROPERTY ShownIsStill

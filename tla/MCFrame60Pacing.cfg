SPECIFICATION Spec
CONSTANTS
  Tick = 30
  ViField = 16
  PairMin = 13
  Configs <- MCConfigs
  SlowWindows = 2
  CleanWindows = 2
  HoldMin = 2
  HoldMax = 8
INVARIANTS
  LiveListSurvives
PROPERTIES
  LogicPaced
  LockedImageShown
  GovernorHolds

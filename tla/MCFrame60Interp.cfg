SPECIFICATION InterpSpec
CONSTANTS
  Looks <- MCLooks
  FarPairs <- MCFarPairs
  Alien = 0
  StaleGens = 2
  Step <- MCStep
  Back <- MCBack
  Kinds = {"nodes", "buffers", "camera", "foliage", "shadow", "fader", "pre",
           "post", "particle", "emitter", "texanim", "rel", "sail", "dol"}
INVARIANTS
  LogicSeesTruth
  ForeignUntouched
  RFrameInterpolates

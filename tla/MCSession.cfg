SPECIFICATION Spec
CONSTANTS
  Installs <- MCInstalls
  Options <- MCOptions
  SyncTitle = TRUE
  MaxControllers = 2
  MaxGames = 2
  Scripts <- MCScripts
  MaxTick = 2
  ScriptMod = "script"
  MaxSignals = 1
INVARIANTS
  TypeOK
  HandlesAlive
  ProvidersFirst
  LayersReal
PROPERTIES
  StopReturns
CHECK_DEADLOCK FALSE

SPECIFICATION Spec
CONSTANTS
  Own = Own
  Disc = Disc
  NoRoot = NoRoot
  KeyDir = KeyDir
  Attempts = {"build-1", "build-2"}
  NoDir = NoDir
  Roots = {Own, Disc}
  Extracted = Disc
  Drive = Own
  Option = "anisotropy"
  NPorts = 2
  Pinned = TRUE
  Builder = TRUE
  Prompts = TRUE
  MaxFaults = 1
  MaxStarts = 2
  Edited = {1}
  Devices <- MCDevices
  Aspects <- MCAspects
  Values <- MCValues
  Resolutions <- MCResolutions
  FirstFiles <- MCFirstFiles
INVARIANTS
  MemoryIsFile
  BootsAsBuilt
PROPERTIES
  AcceptedKept
  PublishedWhole
CHECK_DEADLOCK FALSE

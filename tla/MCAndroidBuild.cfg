CONSTANTS
  NONE = NONE
  Presets <- MCPresets
  PresetDir <- MCPresetDir
  MaxRuns = 2
  FailCodes <- MCFailCodes
SPECIFICATION FairSpec
INVARIANTS
  TypeOK
  CleanRunRecovers
PROPERTIES
  LifecycleRefinement
  RunTerminates

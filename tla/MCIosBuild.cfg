CONSTANTS
  NONE = NONE
  Presets <- MCPresets
  PresetDir <- MCPresetDir
  MaxRuns = 2
  FailCodes <- MCFailCodes
SPECIFICATION Spec
INVARIANTS TypeOK CleanRunRecovers
PROPERTIES LifecycleRefinement

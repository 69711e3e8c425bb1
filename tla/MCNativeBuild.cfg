CONSTANTS
  NONE = NONE
  Catalog <- MCCatalogStd
  ExplicitPresets <- MCExplicitPresets
  Presets <- MCPresets
  StartDirs <- MCStartDirs
  MaxRuns = 2
  FailCodes <- MCFailCodes
SPECIFICATION Spec
INVARIANTS
  TypeOK
  PresetMatchesSpec
  CleanRunRecovers
PROPERTIES
  LifecycleRefinement

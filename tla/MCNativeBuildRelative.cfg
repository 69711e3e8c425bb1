CONSTANTS
  NONE = NONE
  Catalog <- MCCatalogRelative
  ExplicitPresets <- MCExplicitPresets
  Presets <- MCPresets
  StartDirs <- MCStartDirsAny
  MaxRuns = 2
  FailCodes <- MCFailCodes
SPECIFICATION Spec
INVARIANTS
  CleanRunRecovers

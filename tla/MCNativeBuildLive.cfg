CONSTANTS
  NONE = NONE
  Catalog <- MCCatalogStd
  ExplicitPresets <- MCExplicitPresets
  Presets <- MCPresets
  StartDirs <- MCStartDirs
  MaxRuns = 1
  FailCodes <- MCFailCodes
SPECIFICATION FairSpec
PROPERTIES
  RunTerminates

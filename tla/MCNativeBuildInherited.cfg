CONSTANTS
  NONE = NONE
  Catalog <- MCCatalogInherited
  ExplicitPresets <- MCExplicitPresets
  Presets <- MCPresets
  StartDirs <- MCStartDirs
  MaxRuns = 2
  FailCodes <- MCFailCodes
SPECIFICATION Spec
PROPERTIES
  CleanConfinedToPresetDir

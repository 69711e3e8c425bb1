CONSTANTS
  NONE = NONE
  Catalog <- MCCatalogLinux
  ExplicitPresets <- MCWorkspacePresets
  Presets <- MCLinuxNames
  StartDirs <- MCStartDirs
  MaxRuns = 3
  FailCodes <- MCFailCodesOne
SPECIFICATION Spec
CONSTRAINT WorkspaceBound
INVARIANTS
  TypeOK
  CleanRunIsolated

CONSTANTS
  NoArg = NoArg
  Versions <- MCVersions
  StatusFailures = {"fatal"}
  MaxRuns = 2
SPECIFICATION Spec
PROPERTIES DirtyTreeNeverTagged

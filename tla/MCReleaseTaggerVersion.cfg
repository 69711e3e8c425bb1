CONSTANTS
  NoArg = NoArg
  Versions <- MCVersionsEdge
  StatusFailures = {}
  MaxRuns = 2
SPECIFICATION Spec
INVARIANTS InvalidVersionRunsNoGit

CONSTANTS
  NoArg = NoArg
  Versions <- MCVersions
  StatusFailures = {}
  MaxRuns = 3
SPECIFICATION FairSpec
INVARIANTS TypeOK InvalidVersionRunsNoGit
PROPERTIES ContractRefinement RunTerminates

CONSTANTS
  NoArg = NoArg
  Args <- MCArgs
  MaxRuns = 2
SPECIFICATION Spec
INVARIANTS TypeOK
PROPERTIES BindingRefinement

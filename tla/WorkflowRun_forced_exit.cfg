CONSTANTS
  MaxEdges3 = 3
  Workflows <- MCWorkflows
  Selectors <- MCSelectors
  MaxMishaps = 2
SPECIFICATION Spec
INVARIANT ForcedExitRunsDownstream
CHECK_DEADLOCK FALSE

CONSTANTS
  MaxEdges3 = 3
  Workflows <- MCWorkflows
  Selectors <- MCSelectors
  MaxMishaps = 2
SPECIFICATION Spec
INVARIANTS TypeOK ResumeRestoresContext RoundsAreBounded SkipsExactlyDeadBranches
PROPERTY CheckpointIsFinal RunKeepsPromise
CHECK_DEADLOCK FALSE

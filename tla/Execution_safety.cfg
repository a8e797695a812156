CONSTANTS
  NumSteps = 2
  Nodes = {n1, n2}
  Loops = {2}
  Tasks = {t1, t2}
  NoTask = NoTask
  Controls = {c1, c2}
  Actions = {"pause", "resume", "cancel"}
  Mishaps = {"redeliver", "lose", "duplicate"}
  MaxMishaps = 1
  MaxDbErrors = 1
SYMMETRY Symmetry
SPECIFICATION Spec
INVARIANTS TypeOK CompletedMeansAllRan CheckpointIsHonest PauseStopsWithinOneStep
PROPERTY PromiseKept
CHECK_DEADLOCK FALSE

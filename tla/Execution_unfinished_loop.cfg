CONSTANTS
  NumSteps = 2
  Nodes = {n1, n2}
  Loops = {2}
  Tasks = {t1, t2}
  NoTask = NoTask
  Controls = {c1, c2}
  Actions = {"pause", "resume"}
  Mishaps = {}
  MaxMishaps = 0
  MaxDbErrors = 0
SPECIFICATION FairSpec
INVARIANT CompletedMeansStepsFinished
CHECK_DEADLOCK FALSE

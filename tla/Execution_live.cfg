CONSTANTS
  NumSteps = 1
  Nodes = {n1}
  Loops = {1}
  Tasks = {t1, t2}
  NoTask = NoTask
  Controls = {c1, c2}
  Actions = {"pause", "resume", "cancel"}
  Mishaps = {"redeliver", "duplicate"}
  MaxMishaps = 1
  MaxDbErrors = 0
SPECIFICATION FairSpec
PROPERTIES TasksEnd PauseHonoured Settles
CHECK_DEADLOCK FALSE

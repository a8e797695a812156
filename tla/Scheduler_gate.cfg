CONSTANTS
  MaxEdges3 = 3
  MaxEdges4 = 2
  GraphsToPlan <- MCGraphs
SPECIFICATION AdmissionSpec
INVARIANT GateClosesLoop
CHECK_DEADLOCK FALSE

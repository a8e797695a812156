CONSTANTS
  MaxEdges3 = 3
  MaxEdges4 = 4
  GraphsToPlan <- MCGraphs
SPECIFICATION AdmissionSpec
INVARIANTS PlanFitsTheRun LoopsAreComponents VerdictsAgree OneEntry BackEdgesClose PlannersAgree
CHECK_DEADLOCK FALSE

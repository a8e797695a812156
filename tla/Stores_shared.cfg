SPECIFICATION StoresSpec
CONSTANTS
  Skills = {1, 2, 3, 4}
  NewSkills = {1}
  Seeded = {4}
  MaxRequests = 7
  SkillRequests = {q1, q2}
  NoSkill = NoSkill
  Tasks = {1, 2}
  NoTask = NoTask
  NoDoc = NoDoc
  Boxes = {b1, b2}
  Files = {1, 2, 3}
  Window = 2
  MaxTime = 4
  NoCache = NoCache
  Nodes = {n1, n2}
  Life = 2
  Skew = 1
  MaxAttempt = 1
  MaxHour = 3
  Unknown = Unknown
SYMMETRY Alike
INVARIANTS
  StoresTypeOK
  MarkFollowsCopy
  PathHasDocument
  PublishedWasApproved
  RunningIsWatched
  IndexNamesStoredFiles
  ExpiryIsHonest
  FreshWhenInjected
CHECK_DEADLOCK FALSE
PROPERTIES
  ResultsKept
  OneClaimPerWindow
  OwnEntriesKept

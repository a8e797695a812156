SPECIFICATION AgentSpec
CONSTANTS
  s1 = s1
  s2 = s2
  owner = owner
  other = other
  Runs <- MCRuns
  Turns <- MCTurns
  Users = {owner, other}
  Owner = owner
  Keys <- MCKeys
  Slots <- MCSlots
  OptionSets <- MCOptionSets
  Skills = {s1, s2}
  NoSkill = NoSkill
  NoDraft = NoDraft
  NoState = NoState
  Answers = {"clean", "issues"}
  NoRun = NoRun
  SkillsBuilder = SkillsBuilder
  QaMaxRetry = 3
  PlanMaxAttempts = 2
  RecursionLimit = 40
  MaxHops = 8
  MaxRetries = 1
  MaxRelayFrames = 200
  MaxBreaks = 0
  MaxSharedRetries = 0
INVARIANT OnlyCleanSaved
CHECK_DEADLOCK FALSE

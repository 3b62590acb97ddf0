CONSTANTS
  m1 = m1
  m2 = m2
  s1 = s1
  k1 = k1
  Tasks = {m1, m2}
  Skills = {s1}
  Tools = {k1}
  Tiers = {"lite", "expert"}
  MaxRetries = 1
  MaxSegments = 2
  StepBound = 3
SPECIFICATION Spec
INVARIANTS MailIsKept ChargedOnce SkillsAreKnown ToolsAreThere TierFollows
CHECK_DEADLOCK FALSE

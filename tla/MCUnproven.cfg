SPECIFICATION LearningSpec
CONSTANTS
  Corpora <- MCCorpora
  MaxCandidates = {8, 60}
  MaxLearnings = 3
  MaxLearningKills = 1
CHECK_DEADLOCK FALSE
INVARIANT OnlyProvenIsActive

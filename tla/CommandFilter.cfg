SPECIFICATION FairSpec
CONSTANTS
  Chars = {"r", "m", " "}
  Wide = {"w"}
  RuleSets <- mcRuleSets
  Defaults <- mcDefaults
  Patterns <- mcPatterns
  User = "ann"
  MaxKeys = 4
  MaxEdits = 1
  MaxFaults = 1
INVARIANTS FilterSound GreedyFindsEveryMatch
PROPERTIES ImplementsGate RulesArrive
CHECK_DEADLOCK FALSE

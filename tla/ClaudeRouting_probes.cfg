SPECIFICATION Spec
CONSTANTS
  Account = {a, b}
  Request = {}
  Prober = {p1, p2}
  Nobody = Nobody
  Level = {0}
  Kinds = {"status", "monitor", "best"}
  Commands = {"switch", "token", "line", "reset"}
  MaxRevision = 2
  MaxTime = 4
  MaxCommands = 1
SYMMETRY Symmetry
PROPERTIES
  ProbesMergeInOrder
  ProbeSwitchesOnCurrentFacts
CHECK_DEADLOCK FALSE

SPECIFICATION Spec
CONSTANTS
  Account = {a, b}
  Request = {r}
  Prober = {p}
  Nobody = Nobody
  Level = {0, 1}
  Kinds = {"monitor"}
  Commands = {}
  MaxRevision = 1
  MaxTime = 7
  MaxCommands = 0
SYMMETRY Symmetry
INVARIANT RejectedStaysUnselectable

SPECIFICATION Spec
CONSTANTS
  Account = {a, b}
  Request = {r}
  Prober = {}
  Nobody = Nobody
  Level = {0, 1, 2}
  Kinds = {}
  Commands = {"switch", "token", "untoken"}
  MaxRevision = 2
  MaxTime = 5
  MaxCommands = 1
SYMMETRY Symmetry
INVARIANT RoutingInv
PROPERTY FailoverHasCause

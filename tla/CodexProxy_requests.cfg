SPECIFICATION Spec
CONSTANTS
  Account = {a, b}
  Request = {r1, r2}
  Nobody = Nobody
  Level = {0, 2}
  Balanced = FALSE
  Commands = {"switch", "capture", "remove", "refresh", "reset", "revoke"}
  MaxLogin = 2
  MaxCommands = 1
SYMMETRY Symmetry
INVARIANTS
  ProxyInv
  FetchesAreMarked
PROPERTY FailoverHasCause

SPECIFICATION Spec
CONSTANTS
  Account = {a}
  Request = {r}
  Prober = {p}
  Nobody = Nobody
  Level = {0, 2}
  Kinds = {"monitor"}
  Commands = {"token", "untoken", "remove", "create", "reset"}
  MaxRevision = 2
  MaxTime = 3
  MaxCommands = 3
SYMMETRY Symmetry
INVARIANTS
  RejectionBlamesItsToken
  ActiveIsRegistered
PROPERTY RejectionOutlivesOlderProbe

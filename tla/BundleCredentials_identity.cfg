SPECIFICATION Spec
CONSTANTS
  Kinds = {"claude", "codex"}
  Account = {a, b}
  User = {u, v}
  Named = {u}
  Prober = {p}
  Nobody = Nobody
  Absent = Absent
  Broken = Broken
  Client = {"login", "break"}
  Commands = {"switch", "capture", "remove", "import", "kill"}
  MaxTokens = 3
  MaxChanges = 2
SYMMETRY Symmetry
INVARIANTS
  BundleInv
  BackupBelongsToAccount
PROPERTY ProbeReplacesWhatItRead
CHECK_DEADLOCK FALSE

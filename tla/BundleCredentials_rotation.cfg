SPECIFICATION Spec
CONSTANTS
  Kinds = {"claude", "codex"}
  Account = {a, b}
  User = {u, v}
  Named = {u}
  Prober = {p1, p2}
  Nobody = Nobody
  Absent = Absent
  Broken = Broken
  Client = {"refresh"}
  Commands = {"switch"}
  MaxTokens = 4
  MaxChanges = 0
SYMMETRY Symmetry
INVARIANTS
  RotationInv
  LoginSurvives

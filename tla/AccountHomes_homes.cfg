SPECIFICATION Spec
CONSTANTS
  Kinds = {"claude", "codex"}
  Sharing = {TRUE, FALSE}
  Name = {n1, n2}
  Launcher = {p}
  Commands = {"create", "repair", "migrate", "remove", "capture", "run",
              "proxy-auth"}
  Absent = Absent
  Placeholder = Placeholder
  MaxChanges = 2
SYMMETRY Symmetry
INVARIANTS
  HomesInv
  ConflictHasCause
PROPERTIES
  OwnEntriesSurvive
  FailureIsUndone
  LoginsAreKept

SPECIFICATION FairSpec
CONSTANTS
  Target = {live, state}
  StateFile = state
  Content = {old, new}
  CopyId = {c1, c2, c3}
  Absent = Absent
  Untouched = Untouched
  Unlisted = Unlisted
  New = New
  ChmodFails = {"target"}
  ContinueAfterError = FALSE
  MaxFaults = 2
  MaxCrashes = 2
INVARIANTS
  TypeOK
  TransactionInv
  PendingJournalIsRestorable
  CleanRunLeavesNothing
PROPERTIES
  AtomicUpdates
  JournalNeverReplaced
  PendingJournalIsSettled

SPECIFICATION FairSpec
CONSTANTS
  Char = {"x", "y"}
  Token <- XXY
  ProxySecret <- YX
  MaxOutput = 4
INVARIANTS
  LaunchInv
  NoneIsLeftBehind
  SuccessIsComplete
  OutputIsRedacted
PROPERTY DelegateReturns
CHECK_DEADLOCK FALSE

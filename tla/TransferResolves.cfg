SPECIFICATION FairSpec
CONSTANTS
  home = home
  other = other
  Pods <- TwoPods
  Home = home
  Failures = {"redirect"}
CHECK_DEADLOCK FALSE
INVARIANT FlagHasOwner
PROPERTY TransferIsResolved
PROPERTY NobodyWaitsAlone

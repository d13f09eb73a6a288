SPECIFICATION Spec
CONSTANTS
  home = home
  other = other
  Pods <- OnePod
  Home = home
  Failures <- AllFailures
CHECK_DEADLOCK FALSE
PROPERTY TimeoutActsOnLiveTransfer
INVARIANT TypeOK

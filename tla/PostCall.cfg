SPECIFICATION FairPostCall
CONSTANTS
  Lifecycles <- SomeLifecycles
  Tries = 2
CHECK_DEADLOCK FALSE
INVARIANT ReportsAreTrue
INVARIANT OneViewOfTheCustomer
INVARIANT NothingOutlivesRun
PROPERTY EverythingIsReleased

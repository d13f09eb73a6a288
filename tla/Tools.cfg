SPECIFICATION Spec
CONSTANTS
  Tools = {"a", "b"}
  Requests = {"api"}
  Executors = {"pipeline"}
  Uses <- OneExecutor
  Agents = {"pipeline"}
  Pre = 1
  Cached = {1}
  Jwt = TRUE
  MaxTokens = 2
INVARIANT ExpiredIsNotSent
INVARIANT MainHasData
PROPERTY RefreshIsShared
PROPERTY CallsEnd
CHECK_DEADLOCK FALSE

SPECIFICATION PartsSpec
CONSTANTS
  x1 = x1
  x2 = x2
  a1 = a1
  a2 = a2
  n1 = n1
  n2 = n2
  LiveCalls = {x1, x2}
  Setups <- SomeSetups
  MaxTools = 2
  Advisors = {a1, a2}
  Names = {n1, n2}
  Limit = 1
  MaxRequests = 2
  MaxEdits = 1
  Sessions = {"s1", "s2"}
  Old = {"s2"}
  Life = 2
  Buffer = 1
  Latency = 2
  Retries = 1
  MaxTokens = 2
  MaxTime = 2
  Logs = {"l1"}
  Pipes = {1, 2}
  Given <- AnyGiven
  Pipelines = {"p1", "p2"}
  Interval = 10
  Failures = {"read", "write"}
  Calls = {"out", "in", "past"}
  Past = {"past"}
  Inbound = {"in"}
  Outbound = {"out"}
  Requests = {"api"}
  Phones = {"+1"}
  Emails = {"mail"}
  Caller <- OneCustomer
  Window = 1
  Words = {"a", "b"}
  MaxFillers = 2
  Routers = {"first", "second"}
  Languages = {"en", "hi"}
  Voices <- TwoVoices
  DefaultOf <- OwnDefault
  Tokens <- SomeTokens
  Tellable = 10
  Enough = 20
  MaxSpoken = 3
  Sayings = {"yes", "no"}
  Recent = 1
  MaxSayings = 2
  MaxAnswered = 3
CHECK_DEADLOCK FALSE
INVARIANT ToolsActForTheirCall

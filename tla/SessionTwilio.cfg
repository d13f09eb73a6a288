SPECIFICATION FairSpec
CONSTANTS
  p1 = p1
  p2 = p2
  c1 = c1
  c2 = c2
  Pipelines <- OnePipeline
  Callbacks <- OneCallback
  Provider = "twilio"
CHECK_DEADLOCK FALSE
INVARIANT LoneLogAgrees
PROPERTY FinishedCallIsClosed

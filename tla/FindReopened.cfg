SPECIFICATION Spec
CONSTANTS
  p1 = p1
  p2 = p2
  c1 = c1
  c2 = c2
  Pipelines <- OnePipeline
  Callbacks <- OneCallback
  Provider = "plivo"
SYMMETRY Symmetry
CHECK_DEADLOCK FALSE
PROPERTY ConsumeKeepsFinalState

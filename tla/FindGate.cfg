SPECIFICATION ConversationSpec
CONSTANTS
  Retries = 2
  Templates = 2
  MaxPrompts = 2
  MaxRefusals = 1
CHECK_DEADLOCK FALSE
INVARIANT ConversationIsHeard

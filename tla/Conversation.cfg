SPECIFICATION FairConversation
CONSTANTS
  Retries = 2
  Templates = 1
  MaxPrompts = 2
  MaxRefusals = 1
CHECK_DEADLOCK FALSE
INVARIANT ReasonPrecedesEnd
INVARIANT UndecidedIsGated
PROPERTY FirstReportStands
PROPERTY VoicemailKeepsGate
PROPERTY SilenceEndsCall

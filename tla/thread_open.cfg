SPECIFICATION FairSpec
CONSTANTS
  MaxActions = 3
INVARIANTS TypeOK ExecutesOnce WokenByOwnAction IdleExceptionNotShared CancelReported
PROPERTIES CancelObeyed RunActionReturns
CHECK_DEADLOCK FALSE

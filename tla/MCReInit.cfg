SPECIFICATION FairReInitSpec
CONSTANTS
  k1 = k1
  k2 = k2
  Key <- MCKey
  Subscribed <- MCSubscribed
  None = None
PROPERTY OldAreDeleted
CHECK_DEADLOCK FALSE

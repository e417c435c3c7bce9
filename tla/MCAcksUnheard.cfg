\* One notification, with nobody listening when it arrives; one stop, close or destroy.
SPECIFICATION AcksSpec
CONSTANTS
  Version = {v1}
  MaxCloses = 1
  MayStop = TRUE
INVARIANTS SuccessMeansDelivered
CHECK_DEADLOCK FALSE

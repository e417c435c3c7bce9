\* One close with an ack queued, no stop.
SPECIFICATION AcksSpec
CONSTANTS
  Version = {v1}
  MaxCloses = 1
  MayStop = FALSE
INVARIANTS EveryReceiptAcked
CHECK_DEADLOCK FALSE

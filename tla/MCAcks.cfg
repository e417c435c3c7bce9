\* Two notifications of any kind; one close, destroy or stop, afterwards the connection lasts.
SPECIFICATION MCFairAcksSpec
CONSTANTS
  Version = {v1, v2}
  MaxCloses = 1
  MayStop = TRUE
INVARIANTS AcksTypeOK SuccessIsTrue NoSpareAcks
PROPERTIES EventuallyAcked
CHECK_DEADLOCK FALSE

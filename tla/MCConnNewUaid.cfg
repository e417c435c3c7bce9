\* One close, and another uaid assigned at the second hello.
SPECIFICATION ConnSpec
CONSTANTS
  Uaid = {u1, u2}
  NoUaid = NoUaid
  MaxCloses = 1
  MayStop = TRUE
INVARIANTS NewUaidReInits
CHECK_DEADLOCK FALSE

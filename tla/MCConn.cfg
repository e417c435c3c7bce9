\* Three closes or stops in all, any uaid assigned at each hello; afterwards the
\* connection lasts.
SPECIFICATION FairConnSpec
CONSTANTS
  Uaid = {u1, u2, u3}
  NoUaid = NoUaid
  MaxCloses = 3
  MayStop = TRUE
INVARIANTS ConnTypeOK SingleConnection AtMostOneLateConnect CreatedKnowsUaid
PROPERTIES CreateReturns Reconnects
CHECK_DEADLOCK FALSE

SPECIFICATION DeliverySpec
CONSTANTS
  d1 = d1
  d2 = d2
  PrivateKey <- MCPrivateKey
  PublicKeyOf <- MCPublicKeyOf
  Seal <- MCSeal
  Open <- MCOpen
  Thrown = Thrown
  Undefined = Undefined
  Auth <- MCAuth
  Letter <- MCLetter
  MaxPending = 1
  MaxListeners = 2
INVARIANTS DeliveryTypeOK HeardIsSent SentIsNotRefused ReachesAll
CHECK_DEADLOCK TRUE

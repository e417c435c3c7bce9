\* Three channels, so that one is added while two are removed at the same time; a
\* storage that never fails.
SPECIFICATION FairStoreSpec
CONSTANTS
  Channel = {c1, c2, c3}
  Remover = {r1, r2}
  StorageMayReject = FALSE
INVARIANTS TypeOK QuiescentAgreement
PROPERTIES ImplementsDurableSet RemovalIsFinal

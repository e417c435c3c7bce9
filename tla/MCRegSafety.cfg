\* Two callers, two keys, one error reply; connections close, waits expire and the
\* process stops at any time, as often as they like.
SPECIFICATION RegSpec
CONSTANTS
  Channel = {c1, c2, c3}
  Remover = {r1}
  StorageMayReject = FALSE
  Key = {k1, k2}
  Caller = {p1, p2}
  Fault = {"close", "crash", "expire", "refuse"}
  MaxSubscribes = 2
  MaxErrors = 1
SYMMETRY Symmetry
INVARIANTS RegTypeOK ServerChannelsAccounted SubscriptionsRegistered SubscribeReturnsItsKey UnsubscribeIsComplete OnePerKeyInTurn
CHECK_DEADLOCK FALSE

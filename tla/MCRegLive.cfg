\* Two callers after the same key, one error reply, no expiry and no lost connection.
SPECIFICATION FairRegSpec
CONSTANTS
  Channel = {c1, c2, c3}
  Remover = {r1}
  StorageMayReject = FALSE
  Key = {k1}
  Caller = {p1, p2}
  Fault = {}
  MaxSubscribes = 2
  MaxErrors = 1
PROPERTIES SubscribeSettles UnsubscribeSettles
CHECK_DEADLOCK FALSE

\* Two subscribes for one key at the same time; nothing goes wrong.
SPECIFICATION RegSpec
CONSTANTS
  Channel = {c1, c2}
  Remover = {r1}
  StorageMayReject = FALSE
  Key = {k1}
  Caller = {p1, p2}
  Fault = {}
  MaxSubscribes = 2
  MaxErrors = 0
INVARIANTS OnePerKey
CHECK_DEADLOCK FALSE

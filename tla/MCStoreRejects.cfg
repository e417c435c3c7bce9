\* Any storage operation may be rejected.
SPECIFICATION StoreSpec
CONSTANTS
  Channel = {c1, c2, c3}
  Remover = {r1, r2}
  StorageMayReject = TRUE
SYMMETRY Symmetry
INVARIANTS Durability

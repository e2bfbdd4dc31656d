CONSTANTS
  d1 = d1
  d2 = d2
  Sources = {d1, d2}
  LocalIds = {1, 2}
  Orders <- FixedOrder
SPECIFICATION Spec
INVARIANTS
  EntriesHaveOwnIds

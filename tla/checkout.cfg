SPECIFICATION Spec
CONSTANTS
  Slots = {s1, s2}
  Items = {i1, i2}
  Canteens = {c1, c2}
  Orders = {o1, o2}
  Prices = {1, 2}
  Quantities = {1}
  MaxInt = 2
  None = None
  MaxEdits = 3
  MaxAborts = 1
INVARIANTS TypeOK OrdersAddUp
PROPERTIES SnapshotIsImmutable SnapshotOfOneMenu ClearedOnceOrdered

SPECIFICATION Spec
CONSTANTS
  Slots = {s1}
  ProviderOrders = {p1, p2}
  Tokens = {t1, t2, t3}
  None = None
  MaxAborts = 0
  Operations = {"initiate", "success", "failure", "sweep"}
SYMMETRY Symmetry
PROPERTIES InitiatableIsInitiated

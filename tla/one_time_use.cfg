SPECIFICATION Spec
CONSTANTS
  Slots = {s1, s2}
  ProviderOrders = {p1, p2}
  Tokens = {t1, t2, t3, t4}
  None = None
  MaxAborts = 0
  Operations = {"initiate", "success", "scan", "sweep"}
SYMMETRY Symmetry
PROPERTIES OneTimeUse

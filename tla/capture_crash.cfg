SPECIFICATION FairSpec
CONSTANTS
  Slots = {s1}
  ProviderOrders = {p1, p2}
  Tokens = {t1, t2, t3}
  None = None
  MaxAborts = 1
  Operations = {"initiate", "success", "sweep"}
PROPERTIES CaptureLeadsToQr

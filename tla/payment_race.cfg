SPECIFICATION Spec
CONSTANTS
  Slots = {s1, s2}
  ProviderOrders = {p1, p2}
  Tokens = {t1, t2, t3, t4}
  None = None
  MaxAborts = 1
  Operations = {"initiate", "success", "failure", "refund"}
SYMMETRY Symmetry
INVARIANTS TypeOK BooksFollowProvider 

SPECIFICATION FairSpec
CONSTANTS
  Slots = {s1, s2}
  Emails = {e1}
  Tokens = {t1, t2, t3}
  None = None
  MaxAborts = 1
INVARIANTS TypeOK AssignmentsNameManagers
PROPERTIES RotatedTokenIsSpent LockoutHolds

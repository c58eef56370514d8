SPECIFICATION Spec
CONSTANTS
  s1 = s1
  s2 = s2
  o1 = o1
  o2 = o2
  o3 = o3
  Sessions = {s1, s2}
  Ops = {o1, o2, o3}
  NoLease = NoLease
  SessionOf <- MCSessionOf
INVARIANTS
  LeaseIsWorkedOrReclaimable
  LostLeaseIsCancelled
  RevokedNeverPublished
PROPERTIES
  ClaimedCallReturns
  ImplementsTurns

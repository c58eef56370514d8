SPECIFICATION Spec
CONSTANTS
  s1 = s1
  p1 = p1
  c1 = c1
  k1 = k1
  k2 = k2
  t1 = t1
  t2 = t2
  o1 = o1
  o2 = o2
  o3 = o3
  Sessions = {s1}
  Projects = {p1}
  Chats = {c1}
  Ops = {o1, o2, o3}
  Clients = {k1, k2}
  TaskIds = {t1, t2}
  NoLease = NoLease
  NoClient = NoClient
  NoTask = NoTask
  NoOp = NoOp
  ProjectOf <- MCProjectOf
  OwnerOf <- MCOwnerOf
  ChatOf <- MCChatOf
  ClientOf <- MCClientOf
  KindOf <- MCKindOf
  SavesFail = TRUE
SYMMETRY MCSymmetry
PROPERTY PauseOutlivesPreCheck
CHECK_DEADLOCK FALSE

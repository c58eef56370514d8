SPECIFICATION Spec
CONSTANTS
  p1 = p1
  p2 = p2
  c1 = c1
  c2 = c2
  n1 = n1
  n2 = n2
  n3 = n3
  barista = barista
  Projects = {p1, p2}
  Chats = {c1, c2}
  Names = {n1, n2, n3}
  BuiltIns = {barista}
  Barista = barista
  FoldOf <- SameCase
  LowerOf <- SameCase
  NoProject = NoProject
  NoChat = NoChat
  NoProfile = NoProfile
  Absent = Absent
  Broken = Broken
  Legacy = Legacy
  Stored <- MCStored
  NoSession = NoSession
  MaxFaults = 2
INVARIANTS
  ReferencesExist
  SavedStateReopens
  PublishedIsDurable
PROPERTIES
  NoOrphanedLease
  ArchivedFirst
  Reopens

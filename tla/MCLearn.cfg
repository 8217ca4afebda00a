SPECIFICATION Spec
CONSTANTS
  f1 = f1
  f2 = f2
  s1 = s1
  s2 = s2
  Families = {f1, f2}
  Sessions = {s1, s2}
  Callers = {s2}
  Alias = Alias
  NoFamily = NoFamily
  JournalCap = 8
  Slots = {p1, p2}
  Histories <- MCHistories
  MaxCommands = 3
  MaxCrashes = 1
  MaxTicks = 1
SYMMETRY SlotSymmetry
CHECK_DEADLOCK FALSE
INVARIANTS
  TypeOK
  NoObservationIsLost
  CountedOnceUnlessReplayed
  BlessedExactlyOnce
PROPERTIES
  TombstonesHold

CONSTANTS
  p1 = p1
  p2 = p2
  Process = {p1, p2}
  NoProcess = NoProcess
  Latest = 2
  Call = {c1, c2}
  Budget <- MCBudget
SYMMETRY Symmetry
SPECIFICATION Spec
CHECK_DEADLOCK FALSE
INVARIANTS
  TypeOK
  StoreIsWhole
  UnavailableForAReason
  SomebodyGetsTheStore
  SeededOnce
  ClosingDoesWhatIsShown
PROPERTIES
  ReadyIsFinal

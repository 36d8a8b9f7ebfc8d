\* Two commands at a time over two profiles; three rules may fill
\* the three positions of one of them, whether or not some are deleted again.
CONSTANTS
  Profile = {f1, f2}
  Rule = {r1, r2, r3}
  Name = {n1, n2}
  Content = {c1, c2}
  NoProfile = NoProfile
  NoName = NoName
  NoContent = NoContent
  Actor = {a1, a2}
  PositionLimit = 3
  PositionShift = 3
SPECIFICATION Spec
SYMMETRY Symmetry
INVARIANTS
  ReorderKeepsConstraints
PROPERTIES
  CommitsAsAsked
  ImplementsPolicyBook

\* Two listeners, two ports, one restart each: every overlap of an ending
\* task with its successor and with a task of the other listener.
CONSTANTS
  Listener = {l1, l2}
  Port = {p1, p2}
  NoPort = NoPort
  MaxStarts = 2
SPECIFICATION Spec
INVARIANTS
  TypeOK
  OwnPortFree
  NoOrphanTask
  RunningServes
PROPERTY AbsSpec

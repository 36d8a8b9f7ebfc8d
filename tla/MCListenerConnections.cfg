\* Two clients compete for the only permit: a connection and the tunnel of an
\* earlier one, at any stage when the policy changes or the shutdown comes.
CONSTANTS
  Client = {c1, c2}
  MaxConnections = 1
SPECIFICATION Spec
INVARIANTS
  TypeOK
  OnlyAllowedReachTarget
  ActiveIsExact
  StoppedLeavesNoConnection
  TunnelsReachable
PROPERTY ShutdownEnds

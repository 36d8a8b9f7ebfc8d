CONSTANTS
  Client = {c1, c2}
  MaxConnections = 1
SPECIFICATION Safety
INVARIANT StoppedEndsTunnels

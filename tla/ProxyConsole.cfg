\* One listener, any row to begin with; three visits, clicks and decisions in
\* any mixture, at most two of them visits.
CONSTANTS
  Listener = {l1}
  Call = {c1, c2}
  QueueCapacity = 1
  FeedLimit = 1
  MaxVisits = 2
  MaxInputs = 3
SPECIFICATION Spec
CHECK_DEADLOCK FALSE
INVARIANTS
  TypeOK
  OnlyOvertakingMisleads
  TrayMissesOnlySilentChanges
  FeedIsRecent
  MissedIsMissed

\* A listener is created, switched off and on.
CONSTANTS
  Listener = {l1}
  NoListener = NoListener
  Port = {p1}
  NoPort = NoPort
  Profile = {f1}
  NoProfile = NoProfile
  Actor = {user}
  Operation = {"create", "set_enabled"}
  MaxFailures = 0
SPECIFICATION Spec
PROPERTY OffOnServes

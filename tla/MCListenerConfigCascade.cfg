\* A profile is deleted under its listener.
CONSTANTS
  Listener = {l1}
  NoListener = NoListener
  Port = {p1}
  NoPort = NoPort
  Profile = {f1, f2}
  NoProfile = NoProfile
  Actor = {user}
  Operation = {"create", "set_enabled", "delete_profile"}
  MaxFailures = 0
SPECIFICATION Safety
INVARIANT NoListenerWithoutRow

\* Two profiles, deleted at once.
CONSTANTS
  Listener = {l1}
  NoListener = NoListener
  Port = {p1}
  NoPort = NoPort
  Profile = {f1, f2}
  NoProfile = NoProfile
  Actor = {user, tray}
  Operation = {"delete_profile"}
  MaxFailures = 0
SPECIFICATION Safety
INVARIANT SomeProfile

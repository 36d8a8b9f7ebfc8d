\* Two commands at a time, every command, one failure of the store.
CONSTANTS
  Listener = {l1, l2}
  NoListener = NoListener
  Port = {p1}
  NoPort = NoPort
  Profile = {f1, f2}
  NoProfile = NoProfile
  Actor = {user, tray}
  Operation = {"create", "update", "set_enabled", "delete", "start_enabled",
               "stop_all", "delete_profile", "restart"}
  MaxFailures = 1
SPECIFICATION Safety
SYMMETRY Symmetry
INVARIANTS
  RowsConsistent
  ServesItsRow
  UpOnlyEnabled
PROPERTIES
  OnlyCrossingReconfigures

\* A listener that is restarted while both subscribers read and show.
CONSTANTS
  Listener = {l1}
  Port = {p1}
  NoPort = NoPort
  MaxStarts = 2
  Viewer = {window, tray}
SPECIFICATION SpecViews
INVARIANTS
  WaitingViewIsCurrent
PROPERTIES
  ViewsCatchUp
  StopTakesEffect

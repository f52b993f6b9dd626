SPECIFICATION Spec
CONSTANTS
  Pair = {x1, x2}
  MaxStops = 1
  MaxCalls = 1
  MaxFailures = 3
  Units = {u1, u2}
  Protected = {u2}
  MaxBegun = 3
  Callers = {k1}
  Pids = {u1}
  InitPid = u2
  MaxChanges = 1
  MaxAsked = 2
  MaxAlerts = 2
  MaxSessions = 2
  MaxPending = 2
  MaxLimit = 2
  MaxTasks = 3
  MaxKept = 1
  MaxLines = 1
  None = None
SYMMETRY Symmetry
CHECK_DEADLOCK FALSE
INVARIANTS   ServicesAreSound SignalsAreSafe ConnectionIsWatched  DiagnosticsAreTrue 

SPECIFICATION Spec
CONSTANTS
  NPROC = 2
  PidLimit = 3
  Sigs = {1}
  MaxAlarm = 0
  Events = {}
  TtyEvents = {}
INVARIANT TrapCallsHandler
CHECK_DEADLOCK FALSE

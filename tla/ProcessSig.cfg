SPECIFICATION Spec
CONSTANTS
  NPROC = 2
  PidLimit = 2
  Sigs = {1, 9, 14}
  MaxAlarm = 1
  Events = {10, 11}
  TtyEvents = {11}
INVARIANTS TypeOK OneRunning WaitMatches
PROPERTY KillYieldsOnlyToCaught
CHECK_DEADLOCK FALSE

SPECIFICATION CooperativeSpec
CONSTANTS
  NPROC = 3
  PidLimit = 2
  Sigs = {13}
  MaxAlarm = 0
  Events = {}
  TtyEvents = {}
INVARIANTS KillFindsProcess ParentsLive WaitersHaveNoZombie
PROPERTY ReadyRuns
CHECK_DEADLOCK FALSE

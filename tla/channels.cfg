\* Receivers of one channel, history reads of one conversation, the service and its modules.
SPECIFICATION MCSpec
CONSTANTS
  Receivers = {r1, r2}
  Messages = {m1}
  Others = {c1}
  TTL = 2
  Environment = {"crash", "slow", "busy", "close", "unacknowledged"}
  MaxEvents = 2
  Fraction = 1
  Span = 2
  Overlap = 1
  Retention = 2
  PageSize = 1
  MaxFailures = 0
  Interruptions = {"operator", "fail", "crash", "pause", "stall"}
  MaxInterruptions = 1
  MaxTime = 3
  Processes = {p1, p2}
  Agents = {g1}
  Sources = {}
  Faults = {"crash", "signal", "error", "denied", "logger"}
  Commands = {"pause", "resume", "stop", "apply", "disable", "stop service"}
  MaxGenerations = 2
  MaxCommands = 3
  MaxFaults = 1
INVARIANTS
  TypesOK
  OneReceiver
  
  
PROPERTIES
  EventsFollowTheFence
  FrameIsStored
  
  WantedModuleRuns
\* Commands, faults and the clock are bounded: when they are used up nothing may be left to do.
CHECK_DEADLOCK FALSE

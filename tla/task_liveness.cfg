\* Two tasks of the owner that write nested directories; work settles and leases return, also after a crash.
\* No symmetry: it is unsound for liveness.
SPECIFICATION LiveSpec
CONSTANTS
  NumTasks = 2
  x1 = x1  a1 = a1  a2 = a2  d1 = d1  d2 = d2  ann = ann  nobody = nobody
  NoAction = none
  Actions <- MCActions
  Attempts <- MCAttempts
  Declarations = {d1}
  Mode = "proactive"
  Concurrency = 2
  Requester <- MCOwner
  Anonymous = nobody
  WriteRoots <- MCRoots
  Environment = {"operator", "deadline", "withdraw"}
  MaxVersion = 2
  MaxCrashes = 1
PROPERTIES
  WorkSettles
\* An idle service waits for messages and operators.
CHECK_DEADLOCK FALSE
